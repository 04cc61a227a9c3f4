---------------------------- MODULE RelayStream -----------------------------
(***************************************************************************)
(* The data plane of a relayed broadcast, over one link: the encoder's       *)
(* frames and what they depend on (protocol.ts), the sender's decision which *)
(* of them a child gets (forwarder.ts), the two channels to the child, and   *)
(* the receiver that releases frames for decoding (receiver.ts).  Video      *)
(* without audio; a frame travels as one chunk.                              *)
(*                                                                           *)
(* The layers of the frames may follow any pattern.                          *)
(***************************************************************************)
EXTENDS Integers, Sequences, FiniteSets

CONSTANT MaxFrames      \* bound: frames of the stream

ASSUME StreamAssumption == MaxFrames \in Nat

Layers == 0..2          \* temporal layers up to MAX_LAYER

VARIABLES frames,       \* frames[n]: what the header of frame n says
          lastT0, lastBelow,            \* LayerDeps
          wanted,       \* a keyframe was asked for: kf on its way, or pendingKf
          forced,       \* forceKey of the encoder
          skipped, chainBroken, maxLayer,       \* ChildLink
          base,         \* frames in the reliable channel, which keeps no order
          enh,          \* frames in the lossy one: lost ones stay here
          complete, late,               \* whole frames; those that waited too long
          delivered, lastDelivered, waitingKey,
          scan,         \* frames the current pass of drain has not looked at
          missed        \* history: the frames the link decided against

encoder == <<frames, lastT0, lastBelow, wanted, forced>>
link == <<skipped, chainBroken, maxLayer, missed>>
receiver == <<complete, late, delivered, lastDelivered, waitingKey, scan>>
streamVars == <<encoder, link, base, enh, receiver>>

Frame == [key : BOOLEAN, tl : Layers, dep : Nat]
Numbers == 1..Len(frames)
Key(n) == frames[n].key
Dep(n) == frames[n].dep

StreamTypeOK ==
  /\ frames \in Seq(Frame) /\ Len(frames) <= MaxFrames
  /\ lastT0 \in 0..Len(frames) /\ lastBelow \in [Layers -> 0..Len(frames)]
  /\ wanted \in BOOLEAN /\ forced \in BOOLEAN
  /\ chainBroken \in BOOLEAN /\ waitingKey \in BOOLEAN /\ maxLayer \in Layers
  /\ skipped \subseteq Numbers
  /\ base \subseteq Numbers /\ enh \subseteq Numbers /\ missed \subseteq Numbers
  /\ complete \subseteq Numbers /\ late \subseteq complete /\ scan \subseteq complete
  /\ delivered \subseteq Numbers /\ lastDelivered \in 0..Len(frames)

\* The child is attached to a new stream, or to one that runs already: frame 0
\* stands for those it missed, and its watch has asked for a keyframe.
StreamInit ==
  /\ frames = <<>> /\ lastT0 = 0 /\ lastBelow = [k \in Layers |-> 0]
  /\ forced \in BOOLEAN /\ wanted = ~forced
  /\ skipped = {} /\ chainBroken = FALSE /\ maxLayer = 2 /\ missed = {}
  /\ base = {} /\ enh = {}
  /\ complete = {} /\ late = {} /\ delivered = {} /\ lastDelivered = 0
  /\ waitingKey = TRUE /\ scan = {}

-----------------------------------------------------------------------------
(* The sender.                                                               *)

\* wantedCap: the child asks for less while it is hidden or short of CPU.
Ceilings == {0, 1, 2}
Top(ceiling) == IF ceiling < maxLayer THEN ceiling ELSE maxLayer

\* What a frame meets: closed is a channel not open yet, or not any more.
Channels == {"open", "closed", "throws"}

\* LayerDeps.next: the newest frame on a lower layer, for T0 the previous T0.
NextDep(tl) == IF tl = 0 THEN lastT0 ELSE lastBelow[tl]

\* Mutant of Send: a full channel drops keyframes too.
SendKeyCongested(f, top, congested) ==
  ~congested /\ (f.key \/ (f.tl <= top /\ f.dep \notin skipped))

\* ChildLink.decide: congested is a queue above the hard limit.
Send(f, top, congested) ==
  f.key \/ (f.tl <= top /\ f.dep \notin skipped /\ ~congested)

\* Mutant of Breaks: a shed layer counts, a dropped base frame does not.
BreaksUpper(f) == f.tl > 0 /\ f.dep \notin skipped

\* A base frame that is dropped though its reference was sent.
Breaks(f) == f.tl = 0 /\ f.dep \notin skipped

Remember(n, f, send) ==
  IF send
    THEN /\ skipped' = IF f.key THEN {} ELSE skipped
         /\ chainBroken' = (~f.key /\ chainBroken)
         /\ UNCHANGED missed
    ELSE /\ skipped' = skipped \union {n} /\ missed' = missed \union {n}
         /\ chainBroken' = (chainBroken \/ Breaks(f))

HandOver(n, f) ==
  IF f.tl > 0 THEN enh' = enh \union {n} /\ UNCHANGED base
              ELSE base' = base \union {n} /\ UNCHANGED enh

\* ChildLink.offer: while its channel is not open a frame is not decided on, and
\* nothing is remembered of it; nor of one that is to be sent when send throws.
Offer(n, f, top, congested, channel) ==
  LET send == Send(f, top, congested)
  IN /\ IF channel = "closed" THEN UNCHANGED <<skipped, chainBroken, missed>>
                              ELSE Remember(n, f, send)
     /\ IF send /\ channel = "open" THEN HandOver(n, f) ELSE UNCHANGED <<base, enh>>

\* A frame the encoder was asked to make a keyframe depends on itself.
NewFrame(tl) ==
  IF forced THEN [key |-> TRUE, tl |-> 0, dep |-> Len(frames) + 1]
            ELSE [key |-> FALSE, tl |-> tl, dep |-> NextDep(tl)]

\* sendFrame of the hub.
Encode(tl, top, congested, channel) ==
  LET n == Len(frames) + 1
      f == NewFrame(tl)
  IN /\ n <= MaxFrames
     /\ frames' = Append(frames, f)
     /\ lastT0' = IF f.tl = 0 THEN n ELSE lastT0
     /\ lastBelow' = [k \in Layers |-> IF k > f.tl THEN n ELSE lastBelow[k]]
     /\ forced' = FALSE
     /\ Offer(n, f, top, congested, channel)
     /\ UNCHANGED <<wanted, maxLayer, receiver>>

\* adapt: a standing queue sheds a layer, a drained one takes it back.
Adapt ==
  /\ maxLayer' \in {maxLayer - 1, maxLayer + 1} \intersect Layers
  /\ UNCHANGED <<encoder, skipped, chainBroken, missed, base, enh, receiver>>

\* tick of the hub: takeChainBroken.
TakeBroken ==
  /\ chainBroken /\ chainBroken' = FALSE /\ wanted' = TRUE
  /\ UNCHANGED <<frames, lastT0, lastBelow, forced, skipped, maxLayer, missed, base, enh, receiver>>

\* requestKeyframe: at once, or when the last one is long enough ago.
RequestKeyframe ==
  /\ wanted /\ wanted' = FALSE /\ forced' = TRUE
  /\ UNCHANGED <<frames, lastT0, lastBelow, link, base, enh, receiver>>

\* setBitrate: the encoder is configured anew.
SetBitrate ==
  /\ ~forced /\ forced' = TRUE
  /\ UNCHANGED <<frames, lastT0, lastBelow, wanted, link, base, enh, receiver>>

-----------------------------------------------------------------------------
(* The receiver.  A pass of drain looks at the complete frames in order; it  *)
(* is over before the next chunk or timer is handled.                        *)

\* push: frames not newer than the last delivered one are duplicates.
Push(n) ==
  /\ complete' = IF n <= lastDelivered THEN complete ELSE complete \union {n}
  /\ scan' = IF n <= lastDelivered THEN {} ELSE complete \union {n}
  /\ UNCHANGED <<late, delivered, lastDelivered, waitingKey>>

ArriveBase(n) ==
  /\ scan = {} /\ n \in base
  /\ base' = base \ {n} /\ Push(n)
  /\ UNCHANGED <<encoder, link, enh>>

ArriveEnh(n) ==
  /\ scan = {} /\ n \in enh
  /\ enh' = enh \ {n} /\ Push(n)
  /\ UNCHANGED <<encoder, link, base>>

\* tick: a frame has waited for its reference longer than lossTimeoutMs.
Late(n) ==
  /\ scan = {} /\ n \in complete \ late
  /\ late' = late \union {n} /\ scan' = complete
  /\ UNCHANGED <<encoder, link, base, enh, complete, delivered, lastDelivered, waitingKey>>

Next1(n) == n \in scan /\ \A m \in scan : n <= m
Decodable(n) == Dep(n) = n \/ Dep(n) \in delivered
Drop(n) == complete' = complete \ {n} /\ late' = late \ {n} /\ scan' = scan \ {n}

\* requestKeyframe of the receiver: suppressed within keyframeRetryMs of the last.
Ask == wanted' \in {wanted, TRUE}

Discard(n) ==
  /\ Next1(n) /\ waitingKey /\ ~Key(n)
  /\ Drop(n) /\ Ask
  /\ UNCHANGED <<frames, lastT0, lastBelow, forced, link, base, enh, delivered, lastDelivered, waitingKey>>

\* Mutant of Deliver: any complete frame is decodable.
DeliverAny(n) ==
  /\ Next1(n) /\ (waitingKey => Key(n))
  /\ complete' = {m \in complete : m > n} /\ late' = late \intersect complete'
  /\ scan' = complete'
  /\ delivered' = delivered \union {n} /\ lastDelivered' = n /\ waitingKey' = FALSE
  /\ UNCHANGED <<encoder, link, base, enh>>

\* deliver: older frames are given up, and the pass begins anew.
Deliver(n) ==
  /\ Next1(n) /\ (waitingKey => Key(n)) /\ Decodable(n)
  /\ complete' = {m \in complete : m > n} /\ late' = late \intersect complete'
  /\ scan' = complete'
  /\ delivered' = delivered \union {n} /\ lastDelivered' = n /\ waitingKey' = FALSE
  /\ UNCHANGED <<encoder, link, base, enh>>

RefLost(n) == Dep(n) <= lastDelivered \/ n \in late

\* The reference will not come: without it a base frame breaks the chain.
GiveUp(n) ==
  /\ Next1(n) /\ ~waitingKey /\ ~Decodable(n) /\ RefLost(n)
  /\ Drop(n)
  /\ IF frames[n].tl = 0 THEN waitingKey' = TRUE /\ Ask ELSE UNCHANGED <<waitingKey, wanted>>
  /\ UNCHANGED <<frames, lastT0, lastBelow, forced, link, base, enh, delivered, lastDelivered>>

Wait(n) ==
  /\ Next1(n) /\ ~waitingKey /\ ~Decodable(n) /\ ~RefLost(n)
  /\ scan' = scan \ {n}
  /\ UNCHANGED <<encoder, link, base, enh, complete, late, delivered, lastDelivered, waitingKey>>

-----------------------------------------------------------------------------
Scan(n) == Discard(n) \/ Deliver(n) \/ GiveUp(n) \/ Wait(n)

StreamNext ==
  \/ \E tl \in Layers, ceiling \in Ceilings, congested \in BOOLEAN, channel \in Channels :
       Encode(tl, Top(ceiling), congested, channel)
  \/ Adapt \/ TakeBroken \/ RequestKeyframe \/ SetBitrate
  \/ \E n \in Numbers : ArriveBase(n) \/ ArriveEnh(n) \/ Late(n) \/ Scan(n)

StreamSpec == StreamInit /\ [][StreamNext]_streamVars

\* The reliable channel delivers and passes of drain end.
StreamFairSpec ==
  /\ StreamSpec
  /\ WF_streamVars(\E n \in Numbers : ArriveBase(n))
  /\ WF_streamVars(\E n \in Numbers : Scan(n))

-----------------------------------------------------------------------------
(* Properties.                                                               *)

\* A frame that the link decided against is no reference of one that it hands
\* over, then or later: layers are shed and frames dropped as whole subtrees.
ForwardedWhole ==
  \A n \in base \union enh : Dep(n) \notin missed

\* A child whose base layer was cut cannot notice; somebody has asked, or will
\* ask, for the keyframe that ends it.
AskedWhenCut == lastT0 \in skipped => chainBroken \/ wanted \/ forced

\* Releasing a frame as soon as it is decodable skips older ones for good, but
\* never one that a later frame of the stream needs.
NothingNeededSkipped ==
  \A n \in Numbers :
    lastDelivered < n /\ Dep(n) < lastDelivered => Dep(n) \in delivered

\* Whatever was lost, dropped or not taken by a channel before: every keyframe
\* that the channel took or the link decided against (it never does), or a newer
\* one, is released to the decoder in the end.
KeyframeGetsThrough ==
  \A n \in 1..MaxFrames : (n \in base \union missed /\ Key(n)) ~> (lastDelivered >= n)
=============================================================================

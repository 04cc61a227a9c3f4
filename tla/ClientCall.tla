----------------------------- MODULE ClientCall -----------------------------
(***************************************************************************)
(* The life of calls in one client: client/src/lib/store.svelte.ts (joinCall, *)
(* leaveCall, the mic test, mute and deafen, toggleBroadcast) over           *)
(* CallManager of call.ts, MicInput of mic.ts and EventSocket of ws.ts.      *)
(*                                                                           *)
(* Every async method is a flow that stands at one of its awaits; while it   *)
(* does, the user and the network go on.  An id stands for one joinCall or   *)
(* one mic test, for the microphone that it opens, and for the CallManager   *)
(* and the ActiveCall that it makes.                                         *)
(*                                                                           *)
(* The server reads what the socket sends in order and answers nothing that  *)
(* is used here, so a send takes effect at once; a send to a closed socket   *)
(* is dropped.                                                               *)
(***************************************************************************)
EXTENDS Naturals, Sequences

CONSTANTS CallChannels,
          MaxIds,       \* bound: joins and mic tests
          MaxActs,      \* bound: everything the user does
          MaxShares,    \* bound: screens captured
          MaxDrops      \* bound: sockets that close

ASSUME CallAssumption == {MaxIds, MaxActs, MaxShares, MaxDrops} \subseteq Nat

Ids == 1..MaxIds
None == 0       \* null, of an id or a capture

VARIABLES flow,         \* where the joinCall or startMicTest of an id stands
          chan,         \* the channel of a joinCall
          mics,         \* MicInput: devices captured, apply under way, muted
          mgr,          \* CallManager, and broadcasting of its ActiveCall
          mic, call,    \* the store's
          micTestWanted, micMuted, deafened, preDeafenMicMuted,
          screens,      \* screen captures whose tracks have not been stopped
          open,         \* the socket is
          rosters, liveIn,  \* server: channels where we are in the call, and LIVE
          used,         \* the bounds used up
          odd           \* history: the coincidences that the properties name

self == <<micTestWanted, micMuted, deafened, preDeafenMicMuted>>
audio == <<mics, mic>>
server == <<rosters, liveIn>>
callVars == <<flow, chan, mics, mgr, mic, call, self, screens, open, server, used, odd>>

NoMgr == [joined |-> FALSE, screen |-> None, streaming |-> FALSE,
          enc |-> "none", out |-> FALSE, start |-> "idle", startCancelled |-> FALSE,
          queue |-> <<>>, run |-> "none", starting |-> FALSE, shown |-> FALSE]
Off == [caps |-> 0, pending |-> 0, muted |-> FALSE]

\* The muted and deafened flags are loaded from the preferences.
CallInit ==
  /\ flow = [i \in Ids |-> "none"] /\ chan = [i \in Ids |-> None] /\ mics = [i \in Ids |-> Off] /\ mgr = [i \in Ids |-> NoMgr]
  /\ mic = None /\ call = None /\ micTestWanted = FALSE /\ preDeafenMicMuted = FALSE
  /\ micMuted \in BOOLEAN /\ deafened \in {FALSE, micMuted}
  /\ screens = {} /\ open = TRUE /\ rosters = {} /\ liveIn = {}
  /\ used = [ids |-> 0, acts |-> 0, shares |-> 0, drops |-> 0] /\ odd = {}

Act == used.acts < MaxActs
Acted == [used EXCEPT !.acts = @ + 1]

\* The next id is taken by a flow that begins at pc.
Begin(i, pc) ==
  /\ Act /\ i = used.ids + 1 /\ i \in Ids
  /\ used' = [used EXCEPT !.ids = i, !.acts = @ + 1]
  /\ flow' = [flow EXCEPT ![i] = pc]

Noting(c, what) == odd' = IF c THEN odd \union {what} ELSE odd

-----------------------------------------------------------------------------
(* Joining and leaving.                                                      *)

Applying(m) == m # None /\ mics[m].pending > 0

\* MicInput.close stops the devices; a device still being asked for comes later.
MicClosed(m) == IF m = None THEN mics ELSE [mics EXCEPT ![m].caps = 0]

\* call_leave is lost if the socket is closed.
SendLeave == IF open THEN rosters' = rosters \ {chan[call]} /\ liveIn' = liveIn \ {chan[call]}
                     ELSE UNCHANGED server

\* leaveCall and CallManager.leave: the microphone is the store's.
LeaveCall ==
  LET m == mgr[call]
  IN /\ mgr' = [mgr EXCEPT ![call] = [m EXCEPT !.joined = FALSE, !.screen = None,
                  !.enc = "none", !.out = FALSE, !.startCancelled = (m.start # "idle")]]
     /\ SendLeave
     /\ screens' = screens \ {m.screen}
     /\ mics' = MicClosed(mic) /\ mic' = None /\ call' = None

Joining == \E i \in Ids : flow[i] \in {"turn", "joinMic"}

JoinCall(i, c) ==
  /\ Begin(i, "turn")
  /\ chan' = [chan EXCEPT ![i] = c]
  /\ IF call # None THEN LeaveCall ELSE UNCHANGED <<mgr, server, screens, audio, call>>
  /\ odd' = odd \union (IF Joining THEN {"twoJoins"} ELSE {})
                 \union (IF call # None /\ Applying(mic) THEN {"closedWhileApplying"} ELSE {})
  /\ UNCHANGED <<self, open>>

\* stopMicTest: the microphone of a call is not touched.
StopMicTest ==
  /\ micTestWanted' = FALSE
  /\ IF call # None THEN UNCHANGED audio ELSE mics' = MicClosed(mic) /\ mic' = None

TurnAnswer(i) ==
  /\ flow[i] = "turn"
  /\ flow' = [flow EXCEPT ![i] = "joinMic"]
  /\ StopMicTest
  /\ Noting(call = None /\ Applying(mic), "closedWhileApplying")
  /\ UNCHANGED <<chan, mgr, call, micMuted, deafened, preDeafenMicMuted, screens, open, server, used>>

\* turnCredentials or getUserMedia fail.
Fail(i) ==
  /\ flow[i] \in {"turn", "joinMic", "test"}
  /\ flow' = [flow EXCEPT ![i] = "done"]
  /\ UNCHANGED <<chan, audio, mgr, call, self, screens, open, server, used, odd>>

Opened(muted) == [Off EXCEPT !.caps = 1, !.muted = muted]

\* setMuted(micMuted) on the fresh microphone.
Takes(i) == [mics EXCEPT ![i] = Opened(micMuted)]

\* MicInput.open is done: the rest of joinCall and CallManager.join do not await.
Joined(i) ==
  /\ flow[i] = "joinMic"
  /\ flow' = [flow EXCEPT ![i] = "done"]
  /\ mics' = Takes(i) /\ mic' = i /\ call' = i
  /\ mgr' = [mgr EXCEPT ![i].joined = TRUE]
  /\ rosters' = IF open THEN rosters \union {chan[i]} ELSE rosters
  /\ Noting(mic # None /\ call = None, "testWhileJoining")
  /\ UNCHANGED <<chan, self, screens, open, liveIn, used>>

HangUp ==
  /\ Act /\ call # None /\ LeaveCall /\ used' = Acted
  /\ Noting(Applying(mic), "closedWhileApplying")
  /\ UNCHANGED <<flow, chan, self, open>>

-----------------------------------------------------------------------------
(* The microphone outside and inside calls.                                  *)

StartMicTest(i) ==
  /\ Begin(i, IF mic = None THEN "test" ELSE "done")
  /\ micTestWanted' = TRUE
  /\ UNCHANGED <<chan, audio, mgr, call, micMuted, deafened, preDeafenMicMuted, screens, open, server, odd>>

\* Mutant of GivesWay: an earlier microphone is not looked for.
GivesWayToCalls == call # None \/ ~micTestWanted
GivesWay == mic # None \/ call # None \/ ~micTestWanted

TestOpened(i) ==
  /\ flow[i] = "test"
  /\ flow' = [flow EXCEPT ![i] = "done"]
  /\ IF GivesWay THEN UNCHANGED audio
     ELSE mic' = i /\ mics' = [mics EXCEPT ![i] = Opened(FALSE)]
  /\ UNCHANGED <<chan, mgr, call, self, screens, open, server, used, odd>>

CloseSettings ==
  /\ Act /\ micTestWanted /\ used' = Acted
  /\ StopMicTest
  /\ Noting(call = None /\ Applying(mic), "closedWhileApplying")
  /\ UNCHANGED <<flow, chan, mgr, call, micMuted, deafened, preDeafenMicMuted, screens, open, server>>

\* applyVoice with another device: getUserMedia is asked for it.
ApplyVoice ==
  /\ Act /\ mic # None /\ used' = Acted
  /\ mics' = [mics EXCEPT ![mic].pending = @ + 1]
  /\ UNCHANGED <<flow, chan, mgr, mic, call, self, screens, open, server, odd>>

\* The new device replaces the old one, which is stopped; or there is none.
Applied(i, ok) ==
  /\ mics[i].pending > 0
  /\ mics' = [mics EXCEPT ![i].pending = @ - 1, ![i].caps = IF ok THEN 1 ELSE @]
  /\ UNCHANGED <<flow, chan, mgr, mic, call, self, screens, open, server, used, odd>>

AnnounceSelf ==
  /\ Act /\ used' = Acted
  /\ mics' = IF mic = None THEN mics ELSE [mics EXCEPT ![mic].muted = micMuted']
  /\ UNCHANGED <<flow, chan, mgr, mic, call, screens, open, server, odd, micTestWanted>>

\* Mutant of ToggleMic: undeafening is left to the other button.
ToggleMicOnly ==
  /\ micMuted' = ~micMuted /\ UNCHANGED <<deafened, preDeafenMicMuted>> /\ AnnounceSelf

ToggleMic ==
  /\ micMuted' = ~micMuted
  /\ deafened' = (deafened /\ micMuted')
  /\ UNCHANGED preDeafenMicMuted /\ AnnounceSelf

ToggleDeafen ==
  /\ deafened' = ~deafened
  /\ IF deafened' THEN preDeafenMicMuted' = micMuted /\ micMuted' = TRUE
     ELSE micMuted' = preDeafenMicMuted /\ UNCHANGED preDeafenMicMuted
  /\ AnnounceSelf

-----------------------------------------------------------------------------
(* The broadcast of manager i.                                               *)

Rest == UNCHANGED <<flow, chan, audio, call, self, open>>

\* call_streaming counts while we are in the call.
Streaming(i, on) ==
  liveIn' = IF ~open \/ chan[i] \notin rosters THEN liveIn
          ELSE IF on THEN liveIn \union {chan[i]} ELSE liveIn \ {chan[i]}

\* startRelayEncoder is awaited.
Encoding(m) == m.start = "encoder" \/ m.run = "encoder"

Stopped(m) == [m EXCEPT !.screen = None, !.enc = "none", !.streaming = FALSE,
                !.out = m.out /\ m.enc = "none",
                !.startCancelled = m.startCancelled \/ m.start # "idle"]

\* stopBroadcast on a share that runs; onBroadcastChanged speaks to the store's call.
StopBroadcast(i) ==
  LET m == [mgr EXCEPT ![i] = Stopped(mgr[i])]
  IN /\ mgr[i].screen # None
     /\ mgr' = IF call = None THEN m ELSE [m EXCEPT ![call].shown = FALSE]
     /\ screens' = screens \ {mgr[i].screen}
     /\ IF mgr[i].joined THEN Streaming(i, FALSE) ELSE UNCHANGED liveIn
     /\ Noting(Encoding(mgr[i]), "startOutlivesShare")
     /\ UNCHANGED rosters /\ Rest

\* The system's own "stop sharing": track.onended.
Ended(i) ==
  /\ Act /\ used' = Acted
  /\ StopBroadcast(i)

\* toggleBroadcast; a stop of nothing only clears the mark.
ToggleBroadcast ==
  LET m == mgr[call]
  IN /\ Act /\ call # None /\ ~m.starting /\ used' = Acted
     /\ IF m.shown /\ m.screen # None THEN StopBroadcast(call)
        ELSE /\ mgr' = [mgr EXCEPT ![call] =
                  IF m.shown THEN [m EXCEPT !.shown = FALSE]
                  ELSE IF m.screen # None THEN [m EXCEPT !.shown = TRUE]
                  ELSE [m EXCEPT !.starting = TRUE, !.start = "picker", !.startCancelled = FALSE]]
             /\ UNCHANGED <<screens, server, odd>> /\ Rest

\* The start is over: starting is cleared, and the store looks what came of it.
Over(m) == [m EXCEPT !.start = "idle", !.starting = FALSE, !.shown = m.screen # None]

\* Mutant of Discards: what was decided while the picker was open is not asked.
DiscardsNever(m) == FALSE
Discards(m) == m.startCancelled \/ ~m.joined

\* The viewers are told and the settings queued (transport: the mesh or the relay).
Told(m) == [m EXCEPT !.streaming = TRUE, !.start = "settings", !.queue = Append(@, "start")]

Picked(i, relay) ==
  LET m == mgr[i]
      s == used.shares + 1
      n == [m EXCEPT !.screen = s]
  IN /\ m.start = "picker" /\ s <= MaxShares
     /\ used' = [used EXCEPT !.shares = s]
     /\ IF Discards(m) THEN mgr' = [mgr EXCEPT ![i] = Over(m)] /\ UNCHANGED <<screens, liveIn>>
        ELSE /\ screens' = screens \union {s}
             /\ IF relay THEN mgr' = [mgr EXCEPT ![i] = [n EXCEPT !.enc = "starting", !.start = "encoder"]]
                               /\ UNCHANGED liveIn
                ELSE mgr' = [mgr EXCEPT ![i] = Told(n)] /\ Streaming(i, TRUE)
     /\ UNCHANGED <<rosters, odd>> /\ Rest

PickerClosed(i) ==
  /\ mgr[i].start = "picker"
  /\ mgr' = [mgr EXCEPT ![i] = Over(@)]
  /\ UNCHANGED <<screens, server, used, odd>> /\ Rest

\* startRelayEncoder returns; a failed encoder leaves the share to the mesh.
EncoderDone(i, ok) ==
  LET m == mgr[i]
      n == IF ok THEN [m EXCEPT !.enc = IF @ = "starting" THEN "on" ELSE @, !.out = TRUE]
                 ELSE [m EXCEPT !.enc = "none"]
  IN /\ m.start = "encoder"
     /\ mgr' = [mgr EXCEPT ![i] = Told(n)]
     /\ Streaming(i, TRUE)
     /\ Noting(m.screen = None, "startOutlivesShare")
     /\ UNCHANGED <<rosters, screens, used>> /\ Rest

-----------------------------------------------------------------------------
(* applySenderSettings: runs queue up behind each other.                     *)

ApplyBroadcastSettings ==
  /\ Act /\ call # None /\ used' = Acted
  /\ mgr' = [mgr EXCEPT ![call].queue = Append(@, "user")]
  /\ UNCHANGED <<screens, server, odd>> /\ Rest

Run(i) ==
  /\ mgr[i].run = "none" /\ mgr[i].queue # <<>>
  /\ mgr' = [mgr EXCEPT ![i].run = "constraints"]
  /\ UNCHANGED <<screens, server, used, odd>> /\ Rest

\* The run is done; the start that waits for it says so to the store's call.
Finish(i, m, ok) ==
  LET n == [m EXCEPT !.queue = Tail(@), !.run = "none"]
      mine == Head(m.queue) = "start"
      late == mine /\ ok /\ call \notin {None, i}
  IN /\ mgr' = IF late THEN [mgr EXCEPT ![i] = Over(n), ![call].shown = TRUE]
               ELSE [mgr EXCEPT ![i] = IF mine THEN Over(n) ELSE n]
     /\ Noting(late, "startOutlivesShare")

\* A capture that now has another size needs a new encoder.
Constrained(i, resized) ==
  LET m == mgr[i]
  IN /\ m.run = "constraints"
     /\ IF resized /\ m.screen # None /\ m.enc = "on"
          THEN mgr' = [mgr EXCEPT ![i].enc = "starting", ![i].run = "encoder"] /\ UNCHANGED odd
          ELSE Finish(i, m, TRUE)
     /\ UNCHANGED <<screens, server, used>> /\ Rest

Reencoded(i, ok) ==
  LET m == mgr[i]
  IN /\ m.run = "encoder"
     /\ Finish(i, IF ok THEN [m EXCEPT !.enc = IF @ = "starting" THEN "on" ELSE @, !.out = TRUE] ELSE m, ok)
     /\ UNCHANGED <<screens, server, used>> /\ Rest

-----------------------------------------------------------------------------
(* The socket.                                                               *)

\* The server sees it closed and runs leave_all before we are back.
Drop ==
  /\ open /\ used.drops < MaxDrops
  /\ used' = [used EXCEPT !.drops = @ + 1]
  /\ open' = FALSE /\ rosters' = {} /\ liveIn' = {}
  /\ UNCHANGED <<flow, chan, audio, mgr, call, self, screens, odd>>

InCall == {i \in Ids : mgr[i].joined}

\* Mutant of Rejoined: the call is entered again, the share not told of.
RejoinedOnly == rosters' = {chan[i] : i \in InCall} /\ UNCHANGED liveIn

\* The onOpen listeners of joined managers.
Rejoined ==
  /\ rosters' = {chan[i] : i \in InCall}
  /\ liveIn' = {chan[i] : i \in {j \in InCall : mgr[j].screen # None}}

Reopen ==
  /\ ~open /\ open' = TRUE /\ Rejoined
  /\ UNCHANGED <<flow, chan, audio, mgr, call, self, screens, used, odd>>

-----------------------------------------------------------------------------
User == \/ \E i \in Ids : (\E c \in CallChannels : JoinCall(i, c)) \/ StartMicTest(i) \/ Ended(i)
        \/ HangUp \/ CloseSettings \/ ApplyVoice \/ ToggleMic \/ ToggleDeafen
        \/ ToggleBroadcast \/ ApplyBroadcastSettings
Awaited(i) == \/ TurnAnswer(i) \/ Fail(i) \/ TestOpened(i)
              \/ Joined(i)
              \/ \E ok \in BOOLEAN : Applied(i, ok) \/ Picked(i, ok) \/ EncoderDone(i, ok)
                                       \/ Constrained(i, ok) \/ Reencoded(i, ok)
              \/ PickerClosed(i) \/ Run(i)
CallNext == User \/ (\E i \in Ids : Awaited(i)) \/ Drop \/ Reopen

CallSpec == CallInit /\ [][CallNext]_callVars
-----------------------------------------------------------------------------
(* Properties.                                                               *)

Managers == [joined : BOOLEAN, screen : 0..MaxShares, streaming : BOOLEAN,
  enc : {"none", "starting", "on"}, out : BOOLEAN, start : {"idle", "picker", "encoder", "settings"},
  startCancelled : BOOLEAN, queue : Seq({"start", "user"}), run : {"none", "constraints", "encoder"},
  starting : BOOLEAN, shown : BOOLEAN]
CallTypeOK ==
  /\ flow \in [Ids -> {"none", "turn", "joinMic", "test", "done"}]
  /\ chan \in [Ids -> CallChannels \union {None}]
  /\ mics \in [Ids -> [caps : 0..1, pending : 0..MaxActs, muted : BOOLEAN]]
  /\ mgr \in [Ids -> Managers]
  /\ {mic, call} \subseteq Ids \union {None} /\ screens \subseteq 1..MaxShares
  /\ {micTestWanted, micMuted, deafened, preDeafenMicMuted, open} \subseteq BOOLEAN
  /\ liveIn \subseteq rosters /\ rosters \subseteq CallChannels
  /\ \A i \in Ids : /\ mgr[i].starting <=> (mgr[i].start # "idle")
                    /\ mgr[i].run # "none" => mgr[i].queue # <<>>
                    /\ (mgr[i].start = "settings") <=> \E n \in DOMAIN mgr[i].queue : mgr[i].queue[n] = "start"

Odd(what) == what \in odd

\* Every captured microphone is the one the store holds and will close, and it
\* holds one only for a call or for the settings (startMicTest: "a call started
\* meanwhile and owns the mic"; CallManager.join: the caller stops it).
MicsOwned ==
  /\ \A i \in Ids : mics[i].caps > 0 => i = mic
  /\ mic # None => call # None \/ micTestWanted

\* So it is but for two joins at once, a test opened while a join awaits its
\* microphone, and a device that arrives after its microphone was closed.
MicsOwnedCalm ==
  odd \intersect {"twoJoins", "testWhileJoining", "closedWhileApplying"} = {} => MicsOwned

\* Whoever is muted is not heard, whenever that was decided, and the deafened
\* are muted.
MutedIsSilent ==
  /\ deafened => micMuted
  /\ ~Odd("twoJoins") /\ micMuted => \A i \in InCall : mics[i].muted

\* A screen is captured only as the screen of a manager in its call: whatever is
\* stopped or left while the picker is open, "Stop sharing" can end it.
ScreenOwned == screens = {mgr[i].screen : i \in InCall} \ {None}

Tells(i) ==
  mgr[i].start = "idle" =>
    LET shares == mgr[i].screen # None
    IN /\ mgr[i].streaming = shares /\ (mgr[i].out => shares)
       /\ i = call => mgr[i].shown = shares
       /\ open => (chan[i] \in liveIn) = shares

\* Once no start is under way, the peers, the relay, the server's LIVE mark and
\* the button all say whether we share (a start that was stopped is discarded).
ShareIsTold == ~Odd("twoJoins") => \A i \in InCall : Tells(i)

\* So it is unless the share or the call ended in the middle of its start, or
\* while the encoder was started again for other settings.
ShareIsToldCalm == ~Odd("startOutlivesShare") => ShareIsTold

=============================================================================

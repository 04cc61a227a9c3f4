------------------------------ MODULE PeerLink ------------------------------
(***************************************************************************)
(* Two participants of a call: client/src/lib/call.ts from the roster to the *)
(* screen that is sent.  Each side runs a CallManager with at most one peer  *)
(* connection to the other; who shares, who watches and which tracks are     *)
(* negotiated must agree in the end.                                         *)
(*                                                                           *)
(* wire[s] is what the server has sent to s and s has not handled.  The      *)
(* server relays as part of the send: the way up commutes with everything    *)
(* the other side does.  The peer connection is the browser's: its           *)
(* operations chain runs setLocalDescription and setRemoteDescription one    *)
(* after the other, each taking its time, while further messages arrive.     *)
(*                                                                           *)
(* Voice is the track "mic"; the screen, with its audio, is "screen".        *)
(***************************************************************************)
EXTENDS Naturals, Sequences

CONSTANTS AutoWatch,    \* per side: callPrefs.autoWatch
          MaxActs,      \* bound: joins, leaves, shares, stops, watch clicks, drops
          MaxDrops,     \* bound: sockets that close
          Strangers     \* sides whose member list lacks the other at first

Sides == {"lo", "hi"}   \* "lo" has the smaller user id
Other(s) == IF s = "lo" THEN "hi" ELSE "lo"
Tracks == {"mic", "screen"}

ASSUME ConstantsAssumption ==
  /\ AutoWatch \in [Sides -> BOOLEAN] /\ MaxActs \in Nat /\ MaxDrops \in Nat
  /\ Strangers \subseteq Sides

VARIABLES roster,       \* server: participants of the channel
          online,       \* the socket of s is open
          knows,        \* the member list of s has the other and its signing key
          wire,
          joined,       \* CallManager.joined
          pc,           \* the entry of peers for the other side, or NoPeer
          screen,       \* screenStream, and selfState.streaming with it
          watchers,     \* the other side is in watchers
          watching,     \* the other side is in watching
          seesLive,     \* call.peerStates of the other side: streaming
          acts, drops,
          made,         \* peer connections s has made
          lostOffer,    \* history: an offer was ignored while an answer was applied
          rushed,       \* history: somebody rejoined before its leaving was noticed
          unheeded      \* history: a signal of somebody not in the list was dropped

history == <<lostOffer, rushed, unheeded>>
call == <<joined, screen, watchers, watching, seesLive>>
bounds == <<acts, drops>>
vars == <<roster, online, knows, wire, call, pc, bounds, made, history>>

NoPeer == [gen |-> 0]
NoOffer == [gen |-> 0, id |-> 0, tracks |-> {}, lines |-> {}]

\* gen: which connection of s this is; far: the one of the other side it talks
\* to.  sent: what the last finished negotiation has s send; lines: the kinds of
\* m-lines agreed; local, remote: the pending descriptions.
NewPeer(s) ==
  [gen |-> made[s] + 1, far |-> 0, sig |-> "stable", chain |-> <<>>, makingOffer |-> FALSE,
   tracks |-> {"mic"}, sent |-> {}, lines |-> {}, local |-> NoOffer, remote |-> NoOffer,
   offers |-> 0]

Msg(t) == [t |-> t, on |-> FALSE, who |-> {}, d |-> NoOffer]
Roster(us) == [Msg("roster") EXCEPT !.who = us]
State(s) == [Msg("state") EXCEPT !.on = screen[s]]
Watch(on) == [Msg("watch") EXCEPT !.on = on]

Init ==
  /\ roster = {} /\ online = [s \in Sides |-> TRUE] /\ wire = [s \in Sides |-> <<>>]
  /\ joined = [s \in Sides |-> FALSE] /\ pc = [s \in Sides |-> NoPeer]
  /\ screen = joined /\ watchers = joined /\ watching = joined /\ seesLive = joined
  /\ acts = 0 /\ drops = 0 /\ made = [s \in Sides |-> 0] /\ lostOffer = FALSE
  /\ rushed = FALSE /\ unheeded = FALSE /\ knows = [s \in Sides |-> s \notin Strangers]

-----------------------------------------------------------------------------
(* The server.                                                               *)

\* Signals of s reach the other if both are on the roster and connected.
Up(s) == online[s] /\ Sides \subseteq roster /\ online[Other(s)]
Sent(s, msgs) == IF Up(s) THEN [wire EXCEPT ![Other(s)] = @ \o msgs] ELSE wire

\* call_join: everyone on the roster is told.
Enter(s) ==
  /\ roster' = roster \union {s}
  /\ wire' = [u \in Sides |-> IF u \in roster \union {s} /\ online[u]
                                THEN Append(wire[u], Roster(roster \union {s})) ELSE wire[u]]

\* call_leave and leave_all: call_peer_left and the roster for who remains.
Exit(s, w) ==
  /\ roster' = roster \ {s}
  /\ wire' = [u \in Sides |-> IF u \in roster \ {s} /\ s \in roster /\ online[u]
                                THEN Append(w[u], Roster(roster \ {s})) ELSE w[u]]

-----------------------------------------------------------------------------
(* What the user does.                                                       *)

Act == acts < MaxActs /\ acts' = acts + 1 /\ UNCHANGED drops

HasPeer(s) == pc[s] # NoPeer

\* No connection to an earlier s is left, and no event that makes or needs one.
Noticed(s) ==
  /\ ~HasPeer(Other(s))
  /\ \A u \in Sides : \A i \in DOMAIN wire[u] : wire[u][i].who = {u}

Join(s) ==
  /\ Act /\ ~joined[s] /\ online[s]
  /\ joined' = [joined EXCEPT ![s] = TRUE]
  /\ Enter(s)
  /\ rushed' = (rushed \/ ~Noticed(s))
  /\ UNCHANGED <<online, knows, pc, screen, watchers, watching, seesLive, made, lostOffer, unheeded>>

Forget(f, s) == f' = [f EXCEPT ![s] = FALSE]

\* The manager goes with all it knows; call_leave is lost if the socket is closed.
Leave(s) ==
  /\ Act /\ joined[s]
  /\ Forget(joined, s) /\ Forget(screen, s) /\ Forget(watchers, s)
  /\ Forget(watching, s) /\ Forget(seesLive, s)
  /\ pc' = [pc EXCEPT ![s] = NoPeer]
  /\ IF online[s] THEN Exit(s, wire) ELSE UNCHANGED <<roster, wire>>
  /\ UNCHANGED <<online, knows, made, history>>

\* The screen is captured: viewers of an earlier share have to ask again.
StartShare(s) ==
  /\ Act /\ joined[s] /\ ~screen[s]
  /\ screen' = [screen EXCEPT ![s] = TRUE]
  /\ Forget(watchers, s)
  /\ wire' = IF HasPeer(s) THEN Sent(s, <<[Msg("state") EXCEPT !.on = TRUE]>>) ELSE wire
  /\ UNCHANGED <<roster, online, knows, joined, pc, watching, seesLive, made, history>>

Untracked(s) == IF HasPeer(s) THEN [pc EXCEPT ![s].tracks = @ \ {"screen"}] ELSE pc

StopShare(s) ==
  /\ Act /\ screen[s]
  /\ Forget(screen, s) /\ Forget(watchers, s)
  /\ pc' = Untracked(s)
  /\ wire' = IF HasPeer(s) THEN Sent(s, <<Msg("state")>>) ELSE wire
  /\ UNCHANGED <<roster, online, knows, joined, watching, seesLive, made, history>>

\* Mutant of Asks: a state is answered with our own.
AsksAndTells(s, on) == (IF on # watching[s] THEN <<Watch(on)>> ELSE <<>>) \o <<State(s)>>

\* The watch request sent when watching becomes on.
Asks(s, on) == IF on # watching[s] THEN <<Watch(on)>> ELSE <<>>

\* setWatching: the request is sent if there is a connection to send it about.
SetWatching(s, on) ==
  /\ watching' = [watching EXCEPT ![s] = on]
  /\ wire' = IF HasPeer(s) THEN Sent(s, Asks(s, on)) ELSE wire

Click(s) ==
  /\ Act /\ joined[s] /\ (seesLive[s] \/ watching[s])
  /\ SetWatching(s, ~watching[s])
  /\ UNCHANGED <<roster, online, knows, joined, pc, screen, watchers, seesLive, made, history>>

-----------------------------------------------------------------------------
(* The socket of s closes, the server runs leave_all; and it reopens.        *)

Drop(s) ==
  /\ drops < MaxDrops /\ acts < MaxActs /\ online[s]
  /\ drops' = drops + 1 /\ acts' = acts + 1
  /\ online' = [online EXCEPT ![s] = FALSE]
  /\ Exit(s, [wire EXCEPT ![s] = <<>>])
  /\ UNCHANGED <<knows, call, pc, made, history>>

\* onOpen: call_join again; the manager keeps its peers and what it watches.
Reopen(s) ==
  /\ ~online[s]
  /\ online' = [online EXCEPT ![s] = TRUE]
  /\ IF joined[s]
       THEN /\ roster' = roster \union {s}
            /\ wire' = [u \in Sides |-> IF u = s \/ u \in roster
                          THEN Append(wire[u], Roster(roster \union {s})) ELSE wire[u]]
       ELSE UNCHANGED <<roster, wire>>
  /\ UNCHANGED <<knows, call, pc, bounds, made, history>>

-----------------------------------------------------------------------------
(* handleEvent and handleSignal.                                             *)

Rest(s) == [wire EXCEPT ![s] = Tail(@)]

\* createPeer: the microphone is added and our state sent.
Create(s, w) ==
  /\ pc' = [pc EXCEPT ![s] = NewPeer(s)]
  /\ made' = [made EXCEPT ![s] = @ + 1]
  /\ wire' = IF Up(s) THEN [w EXCEPT ![Other(s)] = Append(@, State(s))] ELSE w

\* Mutant of DropPeer: the connection is kept for their return.
DropPeerNever(s) == UNCHANGED <<pc, watchers, watching, seesLive>>

\* dropPeer and onPeerLeft: call_peer_left and the roster say the same.
DropPeer(s) ==
  /\ pc' = [pc EXCEPT ![s] = NoPeer]
  /\ Forget(watchers, s) /\ Forget(watching, s) /\ Forget(seesLive, s)

OnRoster(s, m) ==
  /\ m.t = "roster"
  /\ IF Other(s) \notin m.who THEN DropPeer(s) /\ wire' = Rest(s) /\ UNCHANGED made
     ELSE /\ UNCHANGED <<watchers, watching, seesLive>>
          /\ IF HasPeer(s) THEN wire' = Rest(s) /\ UNCHANGED <<pc, made>> ELSE Create(s, Rest(s))
  /\ UNCHANGED <<joined, screen, history>>

\* A share that ended is no longer watched; one that begins is if so preferred.
OnState(s, m) ==
  LET on == IF m.on THEN watching[s] \/ (~seesLive[s] /\ AutoWatch[s]) ELSE FALSE
  IN /\ m.t = "state" /\ HasPeer(s)
     /\ seesLive' = [seesLive EXCEPT ![s] = m.on]
     /\ watching' = [watching EXCEPT ![s] = on]
     /\ wire' = [Rest(s) EXCEPT ![Other(s)] = IF Up(s) THEN @ \o Asks(s, on) ELSE @]
     /\ UNCHANGED <<joined, screen, watchers, pc, made, history>>

\* Mutant of OnWatch: a request that comes before the share is remembered only.
OnWatchLate(s, m) ==
  /\ m.t = "watch" /\ HasPeer(s)
  /\ watchers' = [watchers EXCEPT ![s] = m.on]
  /\ wire' = Rest(s)
  /\ UNCHANGED <<joined, screen, watching, seesLive, pc, made, history>>

\* onWatchRequest: the tracks follow a change of watchers.
OnWatch(s, m) ==
  /\ m.t = "watch" /\ HasPeer(s)
  /\ watchers' = [watchers EXCEPT ![s] = m.on]
  /\ pc' = IF m.on = watchers[s] THEN pc
           ELSE IF ~m.on THEN Untracked(s)
           ELSE IF screen[s] THEN [pc EXCEPT ![s].tracks = @ \union {"screen"}] ELSE pc
  /\ wire' = Rest(s)
  /\ UNCHANGED <<joined, screen, watching, seesLive, made, history>>

Applying(s) == \E i \in DOMAIN pc[s].chain : pc[s].chain[i].op = "answer"

\* Mutant of Ignores: both sides give way.
IgnoresNever(s, t) == FALSE

\* Mutant of Ignores: neither side does.
IgnoresBoth(s, t) == t = "offer" /\ (pc[s].makingOffer \/ pc[s].sig # "stable")

\* The impolite side ignores an offer that collides with its own.
Ignores(s, t) ==
  /\ t = "offer" /\ s = "hi"
  /\ pc[s].makingOffer \/ pc[s].sig # "stable"

OnSdp(s, m) ==
  /\ m.t \in {"offer", "answer"} /\ HasPeer(s)
  /\ IF Ignores(s, m.t)
       THEN lostOffer' = (lostOffer \/ Applying(s)) /\ UNCHANGED pc
       ELSE /\ pc' = [pc EXCEPT ![s].chain = Append(@, [op |-> m.t, d |-> m.d])]
            /\ UNCHANGED lostOffer
  /\ wire' = Rest(s)
  /\ UNCHANGED <<call, made, rushed, unheeded>>

\* A signal of somebody unknown makes the connection first and is handled then.
OnStranger(s, m) ==
  /\ m.t # "roster" /\ ~HasPeer(s)
  /\ Create(s, wire)
  /\ UNCHANGED <<call, history>>

\* After leave() nobody listens.
Unheard(s) == ~joined[s] /\ wire' = Rest(s) /\ UNCHANGED <<call, pc, made, history>>

\* A signal of somebody without a signing key in the member list is dropped.
Dropped(s, m) ==
  /\ m.t # "roster" /\ ~knows[s]
  /\ wire' = Rest(s) /\ unheeded' = TRUE
  /\ UNCHANGED <<call, pc, made, lostOffer, rushed>>

Heeded(s, m) ==
  /\ m.t = "roster" \/ knows[s]
  /\ OnRoster(s, m) \/ OnState(s, m) \/ OnWatch(s, m) \/ OnSdp(s, m) \/ OnStranger(s, m)

Receive(s) ==
  /\ wire[s] # <<>> /\ online[s]
  /\ LET m == Head(wire[s])
     IN Unheard(s) \/ (joined[s] /\ (Dropped(s, m) \/ Heeded(s, m)))
  /\ UNCHANGED <<roster, online, knows, bounds>>

\* refreshMembers: the list that is loaded has the other.  It may never come.
Learn(s) ==
  /\ ~knows[s]
  /\ knows' = [knows EXCEPT ![s] = TRUE]
  /\ UNCHANGED <<roster, online, wire, call, pc, bounds, made, history>>

-----------------------------------------------------------------------------
(* The peer connection.                                                      *)

Local == [op |-> "local", d |-> NoOffer]

\* negotiationneeded: fired when the state is stable, nothing is under way, and
\* what we send is not what was negotiated.
NegotiationNeeded(s) ==
  /\ HasPeer(s) /\ pc[s].sig = "stable" /\ pc[s].chain = <<>> /\ pc[s].tracks # pc[s].sent
  /\ pc' = [pc EXCEPT ![s].makingOffer = TRUE, ![s].chain = <<Local>>]
  /\ UNCHANGED <<roster, online, knows, wire, call, bounds, made, history>>

\* setLocalDescription(): an answer if an offer was set, else an offer; then it
\* is sent.  An answer covers the tracks the offer has an m-line for.
SetLocal(s) ==
  LET p == pc[s]
      done == [p EXCEPT !.chain = Tail(@), !.makingOffer = FALSE]
      offer == [gen |-> p.gen, id |-> p.offers + 1, tracks |-> p.tracks,
                lines |-> p.lines \union p.tracks]
  IN IF p.sig = "have-remote"
       THEN /\ pc' = [pc EXCEPT ![s] = [done EXCEPT !.sig = "stable", !.lines = p.remote.lines,
                        !.sent = p.tracks \intersect p.remote.lines, !.remote = NoOffer]]
            /\ wire' = Sent(s, <<[Msg("answer") EXCEPT !.d = [p.remote EXCEPT !.gen = p.gen]]>>)
       ELSE /\ pc' = [pc EXCEPT ![s] = [done EXCEPT !.sig = "have-local", !.local = offer,
                        !.offers = @ + 1]]
            /\ wire' = Sent(s, <<[Msg("offer") EXCEPT !.d = offer]>>)

\* setRemoteDescription: an offer rolls back our own; the answer to it follows.
SetRemote(s, o) ==
  LET p == pc[s]
      done == [p EXCEPT !.chain = Tail(@), !.far = o.d.gen]
  IN /\ pc' = [pc EXCEPT ![s] =
          IF o.op = "offer"
            THEN [done EXCEPT !.sig = "have-remote", !.remote = o.d, !.local = NoOffer,
                              !.chain = Append(@, Local)]
          ELSE IF p.sig = "have-local"
            THEN [done EXCEPT !.sig = "stable", !.sent = p.local.tracks,
                              !.lines = p.local.lines, !.local = NoOffer]
          ELSE [p EXCEPT !.chain = Tail(@)]]
     /\ UNCHANGED wire

\* A description from another connection than before may be refused.
Refused(s, o) ==
  /\ pc[s].far \notin {0, o.d.gen}
  /\ pc' = [pc EXCEPT ![s].chain = Tail(@)]
  /\ UNCHANGED wire

Apply(s) ==
  /\ HasPeer(s) /\ pc[s].chain # <<>>
  /\ LET o == Head(pc[s].chain)
     IN IF o.op = "local" THEN SetLocal(s) ELSE SetRemote(s, o) \/ Refused(s, o)
  /\ UNCHANGED <<roster, online, knows, call, bounds, made, history>>

-----------------------------------------------------------------------------
User(s) == Join(s) \/ Leave(s) \/ StartShare(s) \/ StopShare(s) \/ Click(s)
Work(s) == Receive(s) \/ NegotiationNeeded(s) \/ Apply(s) \/ Reopen(s)
Next == \E s \in Sides : User(s) \/ Drop(s) \/ Learn(s) \/ Work(s)

\* Messages are delivered, the browser works, sockets reopen; users owe nothing.
Spec == Init /\ [][Next]_vars /\ \A s \in Sides : WF_vars(Work(s))

-----------------------------------------------------------------------------
(* Properties.                                                               *)

Descs == [gen : Nat, id : Nat, tracks : SUBSET Tracks, lines : SUBSET Tracks]
Ops == [op : {"local", "offer", "answer"}, d : Descs]
Peers == [gen : Nat, far : Nat, sig : {"stable", "have-local", "have-remote"},
          chain : Seq(Ops), makingOffer : BOOLEAN, tracks : SUBSET Tracks,
          sent : SUBSET Tracks, lines : SUBSET Tracks, local : Descs, remote : Descs,
          offers : Nat] \union {NoPeer}
Msgs == [t : {"roster", "state", "watch", "offer", "answer"}, on : BOOLEAN,
         who : SUBSET Sides, d : Descs]
TypeOK ==
  /\ roster \subseteq Sides /\ wire \in [Sides -> Seq(Msgs)] /\ pc \in [Sides -> Peers]
  /\ {online, knows, joined, screen, watchers, watching, seesLive} \subseteq [Sides -> BOOLEAN]
  /\ acts \in 0..MaxActs /\ drops \in 0..MaxDrops
  /\ made \in [Sides -> Nat] /\ {lostOffer, rushed, unheeded} \subseteq BOOLEAN
  /\ \A s \in Sides :
       /\ HasPeer(s) \/ screen[s] => joined[s]
       /\ watchers[s] \/ watching[s] \/ seesLive[s] => HasPeer(s)
       /\ HasPeer(s) => ((pc[s].sig = "have-local") <=> (pc[s].local # NoOffer))

Idle(s) ==
  /\ online[s] /\ wire[s] = <<>>
  /\ HasPeer(s) => pc[s].chain = <<>> /\ ~(pc[s].sig = "stable" /\ pc[s].tracks # pc[s].sent)
Quiet == \A s \in Sides : Idle(s)

\* No socket was lost, nobody rejoined so fast that descriptions of its old
\* connection met the new one, and no signal came before its sender was in the
\* member list.
SameConnections == drops = 0 /\ ~rushed /\ ~unheeded

\* An answer is only ever applied to the very offer it answers, however offers
\* cross, are ignored or are rolled back (onnegotiationneeded, handleSignal).
AnswerMatches ==
  \A s \in Sides : SameConnections /\ HasPeer(s) /\ pc[s].chain # <<>> =>
    LET o == Head(pc[s].chain)
    IN o.op = "answer" => pc[s].sig = "have-local" /\ o.d.id = pc[s].local.id

\* Once nothing is under way, the two of a call have a connection to each other
\* and nobody else has one, whatever leaves, joins and reconnects went before.
PeersMatchRoster ==
  Quiet => /\ roster = {s \in Sides : joined[s]}
           /\ \A s \in Sides : HasPeer(s) <=> Sides = roster

\* Once nothing is under way, the voices of both are negotiated, though either
\* side's offer may have been ignored or rolled back.
VoiceConnects ==
  SameConnections /\ Quiet => \A s \in Sides : HasPeer(s) =>
    "mic" \in pc[s].sent

Shown(s) == HasPeer(Other(s)) /\ "screen" \in pc[Other(s)].sent

\* Once nothing is under way, the screen is sent to exactly who watches it.
WatchedIsSent ==
  Quiet => \A s \in Sides : Shown(s) <=> watching[s] /\ screen[Other(s)]

\* So it is between the same connections, unless an offer was ignored by an
\* impolite side that was just applying the answer to its own.
WatchedIsSentCalm == SameConnections /\ ~lostOffer => WatchedIsSent

\* Everything that is under way ends: no exchange of offers, states and watch
\* requests goes on by itself.
Settles == []<>Quiet
=============================================================================

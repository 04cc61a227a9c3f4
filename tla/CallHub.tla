------------------------------ MODULE CallHub -------------------------------
(***************************************************************************)
(* The call side of server/src/ws.rs: the Hub (connections, call rosters,    *)
(* LIVE sets) and the task that serves each WebSocket connection.  The Hub   *)
(* is one mutex and the database another; a handler takes them one after     *)
(* the other, so each locked section is a step here and the sections of      *)
(* different tasks interleave.                                               *)
(*                                                                           *)
(* No handler awaits between two sections: a task that is inside one keeps   *)
(* its tokio worker thread, so at most Workers tasks are inside a handler    *)
(* (#[tokio::main] is the multi-thread runtime, one worker per core).        *)
(*                                                                           *)
(* The channel from the hub to a connection is an unbounded FIFO, so what a  *)
(* client ends up believing is the last event sent to it: lastRoster and     *)
(* lastPresence keep that event instead of the queue.                        *)
(***************************************************************************)
EXTENDS FiniteSets, Naturals

CONSTANTS Users,
          Owner,             \* owner of the space: never removed
          Conns,             \* WebSocket connections (a slot is reused once closed)
          ConnUser,          \* the user whose token opened the connection
          Channels,          \* the channels of the one space modelled
          FirstMembers,      \* members of the space at the start
          Workers,           \* tokio worker threads
          MaxMemberChanges   \* bound: memberships granted or removed

ASSUME HubAssumption ==
  /\ Owner \in Users
  /\ ConnUser \in [Conns -> Users]
  /\ Owner \in FirstMembers /\ FirstMembers \subseteq Users
  /\ Workers \in Nat /\ MaxMemberChanges \in Nat

VARIABLES members,        \* space_members rows of the space
          conns,          \* HubInner.conns
          calls,          \* HubInner.calls
          live,           \* HubInner.live
          task,           \* per connection: where its task is, and its locals
          joined,         \* channels whose CallManager sits on the connection
          lastRoster,     \* last call_roster sent to the connection, per channel
          lastPresence,   \* last call_presence sent to the connection, per channel
          memberChanges,
          rosterCrossed,  \* history: channels whose last roster was made while an
                          \* older one had still to be sent
          presenceCrossed,\* history: the same of presences
          untold,         \* history: connections of a new member, and the channels
                          \* that have not changed since
          alone           \* history: connections beside which their user never had
                          \* another

hub == <<conns, calls, live>>
views == <<lastRoster, lastPresence>>
space == <<members, memberChanges>>
crossed == <<rosterCrossed, presenceCrossed>>
past == <<crossed, untold, alone>>
hubVars == <<hub, task, joined, views, space, past>>

NoChannel == "none"
Empty == [parts |-> {}, live |-> {}]
Presence == [parts : SUBSET Users, live : SUBSET Users]

PCs == {"closed", "list", "idle", "join", "roster", "members", "presence", "send", "leaveAll"}
Kinds == {"snapshot", "message", "leave"}
Todo == [ch : Channels, roster : SUBSET Users]

\* A task: its next section (pc), the handler it is in (kind), and its locals.
Task == [pc : PCs, kind : Kinds, ch : Channels \union {NoChannel}, roster : SUBSET Users,
         audience : SUBSET Users, seen : Presence, todo : SUBSET Todo]

\* Which handler a section belongs to, and that it has a channel to work on.
WellPlaced(t) ==
  /\ t.pc \in {"closed", "list"} => t.kind = "snapshot"
  /\ t.pc \in {"idle", "join"} => t.kind = "message"
  /\ t.pc = "leaveAll" => t.kind = "leave"
  /\ t.pc \in {"join", "roster", "members", "presence", "send"} => t.ch \in Channels

Idle(pc, kind) == [pc |-> pc, kind |-> kind, ch |-> NoChannel, roster |-> {},
                   audience |-> {}, seen |-> Empty, todo |-> {}]
Closed == Idle("closed", "snapshot")
Reading == Idle("idle", "message")

\* Every variable has its type and every task is at a place of its handler.
HubTypeOK ==
  /\ members \subseteq Users
  /\ memberChanges \in Nat
  /\ conns \in [Users -> SUBSET Conns]
  /\ calls \in [Channels -> SUBSET Users]
  /\ live \in [Channels -> SUBSET Users]
  /\ task \in [Conns -> Task]
  /\ \A c \in Conns : WellPlaced(task[c])
  /\ joined \in [Conns -> SUBSET Channels]
  /\ lastRoster \in [Conns -> [Channels -> SUBSET Users]]
  /\ lastPresence \in [Conns -> [Channels -> Presence]]
  /\ rosterCrossed \subseteq Channels /\ presenceCrossed \subseteq Channels
  /\ untold \subseteq Conns \X Channels /\ alone \subseteq Conns

AtStart ==
  /\ members = FirstMembers
  /\ conns = [u \in Users |-> {}]
  /\ calls = [ch \in Channels |-> {}]
  /\ live = [ch \in Channels |-> {}]
  /\ task = [c \in Conns |-> Closed]
  /\ joined = [c \in Conns |-> {}]
  /\ lastRoster = [c \in Conns |-> [ch \in Channels |-> {}]]
  /\ lastPresence = [c \in Conns |-> [ch \in Channels |-> Empty]]
  /\ rosterCrossed = {} /\ presenceCrossed = {} /\ untold = {} /\ alone = {}
HubInit == AtStart /\ memberChanges = 0

Busy(c) == task[c].pc \notin {"closed", "idle"}
FreeWorker == Cardinality({c \in Conns : Busy(c)}) < Workers

\* A task takes the next section, with some of its locals changed.
Goto(c, t) == task' = [task EXCEPT ![c] = t]

\* The connections send_many reaches: all those of the users given.
ConnsOf(us) == UNION {conns[u] : u \in us}

\* Mutant of Proceed: the loop ends after its first channel.
ProceedOnce(c, kind, todo) ==
  \/ /\ todo = {}
     /\ Goto(c, IF kind = "leave" THEN Closed ELSE Reading)
  \/ \E e \in todo :
       Goto(c, [Idle(IF kind = "leave" THEN "roster" ELSE "members", kind)
                  EXCEPT !.ch = e.ch, !.roster = e.roster])

\* On to the next channel of the loop, in HashMap order, or out of the handler.
Proceed(c, kind, todo) ==
  \/ /\ todo = {}
     /\ Goto(c, IF kind = "leave" THEN Closed ELSE Reading)
  \/ \E e \in todo :
       Goto(c, [Idle(IF kind = "leave" THEN "roster" ELSE "members", kind)
                  EXCEPT !.ch = e.ch, !.roster = e.roster, !.todo = todo \ {e}])

\* What a task has still to send of a channel: a roster made before, or a presence
\* read before.
OwesRoster(c, ch) ==
  \/ task[c].pc = "roster" /\ task[c].ch = ch
  \/ task[c].kind = "leave" /\ \E e \in task[c].todo : e.ch = ch
SendsPresence(c, ch) == task[c].pc = "send" /\ task[c].ch = ch

\* History of a step of c after which other rosters or presences are true.
Crossings(old, chs, owes(_)) == (old \ chs) \union {ch \in chs : owes(ch)}
NewRosters(c, chs) ==
  rosterCrossed' = Crossings(rosterCrossed, chs, LAMBDA ch : \E d \in Conns \ {c} : OwesRoster(d, ch))
NewPresences(c, chs) ==
  /\ presenceCrossed' =
       Crossings(presenceCrossed, chs, LAMBDA ch : \E d \in Conns \ {c} : SendsPresence(d, ch))
  /\ untold' = {p \in untold : p[2] \notin chs}

-----------------------------------------------------------------------------
(* A connection opens: register, then the presence snapshot.                 *)

Registered(c) == task[c].pc # "closed" /\ task[c].kind # "leave"
Open(c) == Registered(c) \/ task[c].pc = "leaveAll"
OthersOf(c) == {d \in Conns \ {c} : ConnUser[d] = ConnUser[c]}

Register(c) ==
  /\ task[c].pc = "closed" /\ FreeWorker
  /\ conns' = [conns EXCEPT ![ConnUser[c]] = @ \union {c}]
  /\ Goto(c, Idle("list", "snapshot"))
  /\ lastRoster' = [lastRoster EXCEPT ![c] = [ch \in Channels |-> {}]]
  /\ lastPresence' = [lastPresence EXCEPT ![c] = [ch \in Channels |-> Empty]]
  /\ untold' = {p \in untold : p[1] # c}
  /\ alone' = (alone \ OthersOf(c)) \union {d \in {c} : ~ \E b \in OthersOf(c) : Open(b)}
  /\ UNCHANGED <<calls, live, joined, space, crossed>>

ActiveCalls == {ch \in Channels : calls[ch] # {}}

ListCalls(c) ==
  /\ task[c].pc = "list"
  /\ Proceed(c, "snapshot", {[ch |-> ch, roster |-> {}] : ch \in ActiveCalls})
  /\ UNCHANGED <<hub, joined, views, space, past>>

-----------------------------------------------------------------------------
(* Messages of a client.                                                     *)

\* A member check that fails drops the message.
RecvJoin(c, ch) ==
  /\ task[c].pc = "idle" /\ FreeWorker
  /\ ConnUser[c] \in members
  /\ Goto(c, [Idle("join", "message") EXCEPT !.ch = ch])
  /\ joined' = [joined EXCEPT ![c] = @ \union {ch}]
  /\ UNCHANGED <<hub, views, space, past>>

\* Mutant of CallJoin: the roster is replaced instead of inserted into.
CallJoinReplaces(c) ==
  /\ task[c].pc = "join"
  /\ calls' = [calls EXCEPT ![task[c].ch] = {ConnUser[c]}]
  /\ Goto(c, [task[c] EXCEPT !.pc = "roster", !.roster = {ConnUser[c]}])
  /\ NewRosters(c, {task[c].ch}) /\ NewPresences(c, {task[c].ch})
  /\ UNCHANGED <<conns, live, joined, views, space, alone>>

CallJoin(c) ==
  LET ch == task[c].ch
      roster == calls[ch] \union {ConnUser[c]}
  IN /\ task[c].pc = "join"
     /\ calls' = [calls EXCEPT ![ch] = roster]
     /\ Goto(c, [task[c] EXCEPT !.pc = "roster", !.roster = roster])
     /\ NewRosters(c, {ch}) /\ NewPresences(c, {ch})
     /\ UNCHANGED <<conns, live, joined, views, space, alone>>

CallsOf(u) == {ch \in Channels : u \in calls[ch]}

RecvLeave(c, ch) ==
  LET u == ConnUser[c]
      remaining == calls[ch] \ {u}
  IN /\ task[c].pc = "idle" /\ FreeWorker
     /\ live' = [live EXCEPT ![ch] = @ \ {u}]
     /\ calls' = [calls EXCEPT ![ch] = remaining]
     /\ joined' = [joined EXCEPT ![c] = @ \ {ch}]
     /\ IF u \in calls[ch]
          THEN Goto(c, [Idle("roster", "message") EXCEPT !.ch = ch, !.roster = remaining])
          ELSE UNCHANGED task
     /\ LET changed == {ch} \intersect CallsOf(u)
        IN NewRosters(c, changed) /\ NewPresences(c, changed)
     /\ UNCHANGED <<conns, views, space, alone>>

\* Mutant of RecvStreaming: anyone may be marked LIVE.
RecvStreamingUnchecked(c, ch, streaming) ==
  LET u == ConnUser[c]
  IN /\ task[c].pc = "idle" /\ FreeWorker
     /\ live' = [live EXCEPT ![ch] = IF streaming THEN @ \union {u} ELSE @ \ {u}]
     /\ Goto(c, [Idle("members", "message") EXCEPT !.ch = ch])
     /\ NewPresences(c, {ch})
     /\ UNCHANGED <<conns, calls, joined, views, space, rosterCrossed, alone>>

\* Mutant of RecvStreaming: whoever stops sharing is out of the call.
RecvStreamingLeaves(c, ch, streaming) ==
  LET u == ConnUser[c]
  IN /\ task[c].pc = "idle" /\ FreeWorker
     /\ u \in calls[ch]
     /\ live' = [live EXCEPT ![ch] = IF streaming THEN @ \union {u} ELSE @ \ {u}]
     /\ calls' = [calls EXCEPT ![ch] = IF streaming THEN @ ELSE @ \ {u}]
     /\ Goto(c, [Idle("members", "message") EXCEPT !.ch = ch])
     /\ NewPresences(c, {ch})
     /\ UNCHANGED <<conns, joined, views, space, rosterCrossed, alone>>

RecvStreaming(c, ch, streaming) ==
  LET u == ConnUser[c]
  IN /\ task[c].pc = "idle" /\ FreeWorker
     /\ u \in calls[ch]
     /\ live' = [live EXCEPT ![ch] = IF streaming THEN @ \union {u} ELSE @ \ {u}]
     /\ Goto(c, [Idle("members", "message") EXCEPT !.ch = ch])
     /\ NewPresences(c, {ch})
     /\ UNCHANGED <<conns, calls, joined, views, space, rosterCrossed, alone>>

-----------------------------------------------------------------------------
(* The connection ends.  Only the last one of a user leaves the calls.       *)

\* Mutant of Unregister: the last connection closes without leaving the calls.
UnregisterOnly(c) ==
  /\ task[c].pc = "idle" /\ FreeWorker
  /\ conns' = [conns EXCEPT ![ConnUser[c]] = @ \ {c}]
  /\ Goto(c, Closed)
  /\ joined' = [joined EXCEPT ![c] = {}]
  /\ UNCHANGED <<calls, live, views, space, past>>

Unregister(c) ==
  LET u == ConnUser[c]
      left == conns[u] \ {c}
  IN /\ task[c].pc = "idle" /\ FreeWorker
     /\ conns' = [conns EXCEPT ![u] = left]
     /\ Goto(c, IF left = {} THEN Idle("leaveAll", "leave") ELSE Closed)
     /\ joined' = [joined EXCEPT ![c] = {}]
     /\ UNCHANGED <<calls, live, views, space, past>>

LeaveAll(c) ==
  LET u == ConnUser[c]
  IN /\ task[c].pc = "leaveAll"
     /\ calls' = [ch \in Channels |-> calls[ch] \ {u}]
     /\ live' = [ch \in Channels |-> live[ch] \ {u}]
     /\ Proceed(c, "leave", {[ch |-> ch, roster |-> calls[ch] \ {u}] : ch \in CallsOf(u)})
     /\ NewRosters(c, CallsOf(u)) /\ NewPresences(c, CallsOf(u))
     /\ UNCHANGED <<conns, joined, views, space, alone>>

-----------------------------------------------------------------------------
(* The tail of the handlers: roster to the roster, presence to the members.  *)

\* Mutant of SendRoster: only the joiner or leaver's own connection is told.
SendRosterToSender(c) ==
  LET t == task[c]
  IN /\ t.pc = "roster"
     /\ lastRoster' = [lastRoster EXCEPT ![c][t.ch] = t.roster]
     /\ Goto(c, [t EXCEPT !.pc = "members", !.roster = {}])
     /\ UNCHANGED <<hub, joined, lastPresence, space, past>>

SendRoster(c) ==
  LET t == task[c]
  IN /\ t.pc = "roster"
     /\ lastRoster' = [d \in Conns |->
                         IF d \in ConnsOf(t.roster)
                           THEN [lastRoster[d] EXCEPT ![t.ch] = t.roster]
                           ELSE lastRoster[d]]
     /\ Goto(c, [t EXCEPT !.pc = "members", !.roster = {}])
     /\ UNCHANGED <<hub, joined, lastPresence, space, past>>

ReadMembers(c) ==
  /\ task[c].pc = "members"
  /\ Goto(c, [task[c] EXCEPT !.pc = "presence", !.audience = members])
  /\ UNCHANGED <<hub, joined, views, space, past>>

ReadPresence(c) ==
  LET ch == task[c].ch
  IN /\ task[c].pc = "presence"
     /\ Goto(c, [task[c] EXCEPT !.pc = "send",
                                !.seen = [parts |-> calls[ch], live |-> live[ch]]])
     /\ UNCHANGED <<hub, joined, views, space, past>>

SendPresence(c) ==
  LET t == task[c]
      reached == IF t.kind = "snapshot"
                   THEN {c} \intersect ConnsOf({ConnUser[c]} \intersect t.audience)
                   ELSE ConnsOf(t.audience)
  IN /\ t.pc = "send"
     /\ lastPresence' = [d \in Conns |->
                           IF d \in reached
                             THEN [lastPresence[d] EXCEPT ![t.ch] = t.seen]
                             ELSE lastPresence[d]]
     /\ Proceed(c, t.kind, t.todo)
     /\ UNCHANGED <<hub, joined, lastRoster, space, past>>

-----------------------------------------------------------------------------
(* Membership, changed by the REST handlers of spaces.rs.                    *)

AcceptInvite(u) ==
  /\ memberChanges < MaxMemberChanges /\ FreeWorker
  /\ u \notin members
  /\ members' = members \union {u}
  /\ memberChanges' = memberChanges + 1
  /\ untold' = untold \union (conns[u] \X Channels)
  /\ UNCHANGED <<hub, task, joined, views, crossed, alone>>

RemoveMember(u) ==
  /\ memberChanges < MaxMemberChanges /\ FreeWorker
  /\ u \in members \ {Owner}
  /\ members' = members \ {u}
  /\ memberChanges' = memberChanges + 1
  /\ UNCHANGED <<hub, task, joined, views, past>>

-----------------------------------------------------------------------------
\* The sections of a handler already entered: the thread runs them in turn.
Handler(c) ==
  \/ ListCalls(c) \/ CallJoin(c) \/ LeaveAll(c) \/ SendRoster(c)
  \/ ReadMembers(c) \/ ReadPresence(c) \/ SendPresence(c)

\* What the network and the clients decide.
Arrival(c) ==
  \/ Register(c)
  \/ Unregister(c)
  \/ \E ch \in Channels :
       \/ RecvJoin(c, ch)
       \/ RecvLeave(c, ch)
       \/ \E streaming \in BOOLEAN : RecvStreaming(c, ch, streaming)

HubNext ==
  \/ \E c \in Conns : Arrival(c) \/ Handler(c)
  \/ \E u \in Users : AcceptInvite(u) \/ RemoveMember(u)

HubSpec == HubInit /\ [][HubNext]_hubVars

\* A worker thread that entered a handler gets through it; clients owe nothing.
FairHubSpec == HubSpec /\ \A c \in Conns : WF_hubVars(Handler(c))

-----------------------------------------------------------------------------
(* Properties.                                                               *)

Leaving(u) == \E c \in Conns : ConnUser[c] = u /\ task[c].pc = "leaveAll"
Quiescent == \A c \in Conns : ~Busy(c)

\* The hub knows exactly the connections whose task has registered and has not
\* unregistered: register and unregister of ws.rs, over any interleaving.
ConnsMatchTasks ==
  \A u \in Users : conns[u] = {c \in Conns : ConnUser[c] = u /\ Registered(c)}

\* No ghosts: a user shown in a call has a connection, or the task that ended
\* its last one is about to run leave_all (the gap of handle_socket).
NoGhost ==
  \A ch \in Channels : \A u \in calls[ch] : conns[u] # {} \/ Leaving(u)

\* Whoever is marked LIVE is in the call: set_streaming checks and call_leave
\* and leave_all clear the mark in the same lock.
LiveInCall == \A ch \in Channels : live[ch] \subseteq calls[ch]

\* A user whose connections are all gone is out of every roster eventually,
\* unless it connects again.
GhostsGoAway ==
  \A u \in Users, ch \in Channels :
    (u \in calls[ch] /\ conns[u] = {}) ~> (u \notin calls[ch] \/ conns[u] # {})

\* Once every handler has run, a connection that joined and whose user is still on
\* the roster was last told that very roster, unless two rosters of the channel
\* crossed (made in one order under the lock, sent in the other).
RosterFresh ==
  Quiescent => \A c \in Conns : \A ch \in joined[c] \ rosterCrossed :
                 ConnUser[c] \in calls[ch] => lastRoster[c][ch] = calls[ch]

\* Once every handler has run, every connected member was last told who is in
\* the call and who is LIVE, by its snapshot or by a broadcast, unless two
\* presences crossed, or it is a new member and nothing has changed since.
PresenceFresh ==
  Quiescent => \A c \in Conns : task[c].pc = "idle" /\ ConnUser[c] \in members =>
                 \A ch \in Channels \ presenceCrossed : <<c, ch>> \notin untold =>
                   lastPresence[c][ch] = [parts |-> calls[ch], live |-> live[ch]]

\* A client that joined a call and has sent no leave is on its roster once every
\* handler has run, unless its user had another connection meanwhile, or one that
\* was still leaving: leave_all and call_leave are about the user.
JoinedIsOnRoster ==
  Quiescent => \A c \in alone : \A ch \in joined[c] : ConnUser[c] \in calls[ch]

\* The hub implements the one-step roster, where a user counts as online until
\* leave_all has run.
R == INSTANCE CallRoster WITH online <- {u \in Users : conns[u] # {} \/ Leaving(u)}
ImplementsRoster == R!Spec
=============================================================================

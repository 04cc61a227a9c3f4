----------------------------- MODULE CallProofs -----------------------------
(***************************************************************************)
(* The two sides of a call: the hub that keeps who is in it (CallHub) and    *)
(* the client that joins and leaves it (ClientCall).                         *)
(*                                                                           *)
(* What holds of CallHub for every set of users, connections and channels,   *)
(* any number of worker threads and any interleaving of the handlers: the    *)
(* type invariant, the agreement of the hub's connections with the tasks, no *)
(* ghosts in a roster, LIVE only in a call, the one-step roster, that        *)
(* clients were last told what is true unless two tasks crossed, and that    *)
(* who joined is on the roster while its user has one connection.            *)
(*                                                                           *)
(* What holds of ClientCall for any number of joins, tests and captures:     *)
(* captured screens are owned, the muted are not heard, microphones are      *)
(* owned but for three coincidences, and everybody is told of a share but    *)
(* for two.                                                                  *)
(***************************************************************************)
EXTENDS CallHub, ClientCall, FiniteSetTheorems, TLAPS

-----------------------------------------------------------------------------
(* The hub: the type invariant, step by step.                                *)

\* A fresh task record, with or without a channel, is a task.
LEMMA IdleType ==
  ASSUME NEW pc \in PCs, NEW kind \in Kinds
  PROVE  /\ Idle(pc, kind) \in Task
         /\ \A ch \in Channels, r \in SUBSET Users, todo \in SUBSET Todo :
              /\ [Idle(pc, kind) EXCEPT !.ch = ch] \in Task
              /\ [Idle(pc, kind) EXCEPT !.ch = ch, !.roster = r] \in Task
              /\ [Idle(pc, kind) EXCEPT !.ch = ch, !.roster = r, !.todo = todo] \in Task
  BY DEF Idle, Task, Empty, Presence, NoChannel

\* The four ways a handler moves on within its task: what stays, what changes.
LEMMA MoveTask ==
  ASSUME NEW t \in Task, NEW us \in SUBSET Users, NEW seen \in Presence
  PROVE  /\ [t EXCEPT !.pc = "roster", !.roster = us] \in Task
         /\ [t EXCEPT !.pc = "members", !.roster = us] \in Task
         /\ [t EXCEPT !.pc = "presence", !.audience = us] \in Task
         /\ [t EXCEPT !.pc = "send", !.seen = seen] \in Task
<1>1. [t EXCEPT !.pc = "roster", !.roster = us] \in Task
  BY DEF Task, PCs
<1>2. [t EXCEPT !.pc = "members", !.roster = us] \in Task
  BY DEF Task, PCs
<1>3. [t EXCEPT !.pc = "presence", !.audience = us] \in Task
  BY DEF Task, PCs
<1>4. [t EXCEPT !.pc = "send", !.seen = seen] \in Task
  BY DEF Task, PCs
<1> QED BY <1>1, <1>2, <1>3, <1>4

LEMMA Presences == Empty \in Presence
  BY DEF Empty, Presence

\* What the type invariant says of one task.
LEMMA TaskFields ==
  ASSUME HubTypeOK, NEW c \in Conns
  PROVE  /\ task[c] \in Task /\ WellPlaced(task[c])
         /\ task[c].kind \in Kinds /\ task[c].todo \in SUBSET Todo
         /\ task[c].seen \in Presence /\ task[c].roster \in SUBSET Users
         /\ task[c].pc \in PCs /\ task[c].audience \in SUBSET Users
<1>1. task[c] \in Task /\ WellPlaced(task[c])
  BY DEF HubTypeOK
<1> QED BY <1>1 DEF Task

\* Moving one task to a well-placed task keeps all tasks typed.
LEMMA GotoType ==
  ASSUME task \in [Conns -> Task], \A d \in Conns : WellPlaced(task[d]),
         NEW c \in Conns, NEW t \in Task, WellPlaced(t), Goto(c, t)
  PROVE  /\ task' \in [Conns -> Task]
         /\ \A d \in Conns : WellPlaced(task'[d])
         /\ task'[c] = t
         /\ \A d \in Conns : d # c => task'[d] = task[d]
  BY DEF Goto

\* Where Proceed takes a task: out of the handler, or to the next channel.
LEMMA ProceedType ==
  ASSUME HubTypeOK, NEW c \in Conns, NEW kind \in Kinds, NEW todo \in SUBSET Todo,
         Proceed(c, kind, todo)
  PROVE  /\ task' \in [Conns -> Task]
         /\ \A d \in Conns : WellPlaced(task'[d])
         /\ \A d \in Conns : d # c => task'[d] = task[d]
         /\ kind = "leave" =>
              task'[c].pc = "closed" \/ (task'[c].pc = "roster" /\ task'[c].kind = "leave")
         /\ kind # "leave" => task'[c].pc \in {"idle", "members"} /\ task'[c].kind # "leave"
<1>1. CASE todo = {} /\ Goto(c, IF kind = "leave" THEN Closed ELSE Reading)
  <2>1. CASE kind = "leave"
    <3>1. Closed \in Task /\ WellPlaced(Closed) /\ Closed.pc = "closed"
      BY IdleType DEF Closed, PCs, Kinds, WellPlaced, Idle
    <3> QED BY <1>1, <2>1, <3>1, GotoType DEF HubTypeOK
  <2>2. CASE kind # "leave"
    <3>1. Reading \in Task /\ WellPlaced(Reading) /\ Reading.pc = "idle" /\ Reading.kind = "message"
      BY IdleType DEF Reading, PCs, Kinds, WellPlaced, Idle
    <3> QED BY <1>1, <2>2, <3>1, GotoType DEF HubTypeOK
  <2> QED BY <2>1, <2>2
<1>2. ASSUME NEW e \in todo,
             Goto(c, [Idle(IF kind = "leave" THEN "roster" ELSE "members", kind)
                        EXCEPT !.ch = e.ch, !.roster = e.roster, !.todo = todo \ {e}])
      PROVE  /\ task' \in [Conns -> Task]
             /\ \A d \in Conns : WellPlaced(task'[d])
             /\ \A d \in Conns : d # c => task'[d] = task[d]
             /\ kind = "leave" => task'[c].pc = "roster" /\ task'[c].kind = "leave"
             /\ kind # "leave" => task'[c].pc = "members" /\ task'[c].kind # "leave"
  <2> DEFINE pc == IF kind = "leave" THEN "roster" ELSE "members"
             t == [Idle(pc, kind) EXCEPT !.ch = e.ch, !.roster = e.roster, !.todo = todo \ {e}]
  <2>1. e.ch \in Channels /\ e.roster \in SUBSET Users /\ todo \ {e} \in SUBSET Todo /\ pc \in PCs
    BY DEF Todo, PCs
  <2>2. t \in Task
    BY <2>1, IdleType
  <2>3. t.pc = pc /\ t.kind = kind /\ t.ch = e.ch
    BY DEF Idle
  <2>4. WellPlaced(t)
    BY <2>1, <2>3 DEF WellPlaced
  <2> HIDE DEF t
  <2>5. Goto(c, t)
    BY <1>2 DEF t
  <2> QED BY <2>2, <2>3, <2>4, <2>5, GotoType DEF HubTypeOK
<1> QED BY <1>1, <1>2 DEF Proceed

-----------------------------------------------------------------------------
\* Two sets the loops run over are made of loop elements.
LEMMA TodoType ==
  ASSUME HubTypeOK, NEW u \in Users
  PROVE  /\ {[ch |-> ch, roster |-> {}] : ch \in ActiveCalls} \in SUBSET Todo
         /\ {[ch |-> ch, roster |-> calls[ch] \ {u}] :
               ch \in CallsOf(u)} \in SUBSET Todo
  BY DEF HubTypeOK, Todo, ActiveCalls, CallsOf

\* The history of rosters and presences that crossed is about channels.
LEMMA HistoryType ==
  ASSUME HubTypeOK, NEW c \in Conns, NEW chs \in SUBSET Channels
  PROVE  /\ NewRosters(c, chs) => rosterCrossed' \subseteq Channels
         /\ NewPresences(c, chs) =>
              presenceCrossed' \subseteq Channels /\ untold' \subseteq Conns \X Channels
  BY DEF HubTypeOK, NewRosters, NewPresences, Crossings

\* Typing is inductive: every section of every handler keeps it.
LEMMA HubTypeStep == HubTypeOK /\ [HubNext]_hubVars => HubTypeOK'
<1> SUFFICES ASSUME HubTypeOK, [HubNext]_hubVars PROVE HubTypeOK'
  OBVIOUS
<1> USE HubAssumption
<1>1. CASE UNCHANGED hubVars
  BY <1>1 DEF HubTypeOK, hubVars, hub, views, space, past, crossed
<1>2. ASSUME NEW c \in Conns, Register(c) PROVE HubTypeOK'
  <2>1. Idle("list", "snapshot") \in Task /\ WellPlaced(Idle("list", "snapshot"))
    BY IdleType DEF PCs, Kinds, WellPlaced, Idle
  <2>2. task' \in [Conns -> Task] /\ \A d \in Conns : WellPlaced(task'[d])
    BY <1>2, <2>1, GotoType DEF Register, HubTypeOK
  <2>3. Empty \in Presence
    BY DEF Empty, Presence
  <2> QED BY <1>2, <2>2, <2>3 DEF Register, HubTypeOK, space, crossed
<1>3. ASSUME NEW c \in Conns, ListCalls(c) PROVE HubTypeOK'
  <2>1. task' \in [Conns -> Task] /\ \A d \in Conns : WellPlaced(task'[d])
    BY <1>3, ProceedType, TodoType DEF ListCalls, Kinds
  <2> QED BY <1>3, <2>1 DEF ListCalls, HubTypeOK, hub, views, space, past, crossed
<1>4. ASSUME NEW c \in Conns, NEW ch \in Channels, RecvJoin(c, ch) PROVE HubTypeOK'
  <2> DEFINE t == [Idle("join", "message") EXCEPT !.ch = ch]
  <2>1. t \in Task /\ t.pc = "join" /\ t.kind = "message" /\ t.ch = ch
    BY IdleType DEF PCs, Kinds, Idle
  <2>2. Goto(c, t)
    BY <1>4 DEF RecvJoin
  <2> HIDE DEF t
  <2>3. task' \in [Conns -> Task] /\ \A d \in Conns : WellPlaced(task'[d])
    BY <2>1, <2>2, GotoType DEF HubTypeOK, WellPlaced
  <2> QED BY <1>4, <2>3 DEF RecvJoin, HubTypeOK, hub, views, space, past, crossed
<1>5. ASSUME NEW c \in Conns, CallJoin(c) PROVE HubTypeOK'
  <2> DEFINE ch == task[c].ch
             roster == calls[ch] \union {ConnUser[c]}
             t == [task[c] EXCEPT !.pc = "roster", !.roster = roster]
  <2>1. ch \in Channels /\ roster \in SUBSET Users
    BY <1>5 DEF CallJoin, HubTypeOK, WellPlaced
  <2>2. t \in Task /\ t.pc = "roster" /\ t.ch = ch
    <3>1. task[c] \in Task
      BY TaskFields
    <3>2. t \in Task
      BY <2>1, <3>1, MoveTask, Presences
    <3> QED BY <3>1, <3>2 DEF Task
  <2>3. Goto(c, t) /\ calls' = [calls EXCEPT ![ch] = roster]
    BY <1>5 DEF CallJoin
  <2> HIDE DEF t, roster, ch
  <2>4. task' \in [Conns -> Task] /\ \A d \in Conns : WellPlaced(task'[d])
    BY <2>1, <2>2, <2>3, GotoType DEF HubTypeOK, WellPlaced
  <2>5. {ch} \subseteq Channels /\ NewRosters(c, {ch}) /\ NewPresences(c, {ch})
    BY <1>5, <2>1 DEF CallJoin, ch
  <2> QED BY <1>5, <2>1, <2>3, <2>4, <2>5, HistoryType DEF CallJoin, HubTypeOK, views, space
<1>6. ASSUME NEW c \in Conns, NEW ch \in Channels, RecvLeave(c, ch) PROVE HubTypeOK'
  <2> DEFINE remaining == calls[ch] \ {ConnUser[c]}
             t == [Idle("roster", "message") EXCEPT !.ch = ch, !.roster = remaining]
  <2>1. remaining \in SUBSET Users
    BY DEF HubTypeOK
  <2>2. t \in Task /\ t.pc = "roster" /\ t.ch = ch
    BY <2>1, IdleType DEF PCs, Kinds, Idle
  <2>3. Goto(c, t) \/ UNCHANGED task
    BY <1>6 DEF RecvLeave
  <2> HIDE DEF t
  <2>4. task' \in [Conns -> Task] /\ \A d \in Conns : WellPlaced(task'[d])
    BY <2>2, <2>3, GotoType DEF HubTypeOK, WellPlaced
  <2>5. PICK chs \in SUBSET Channels : NewRosters(c, chs) /\ NewPresences(c, chs)
    BY <1>6 DEF RecvLeave
  <2> QED BY <1>6, <2>4, <2>5, HistoryType DEF RecvLeave, HubTypeOK, views, space
<1>7. ASSUME NEW c \in Conns, NEW ch \in Channels, NEW streaming \in BOOLEAN,
             RecvStreaming(c, ch, streaming)
      PROVE HubTypeOK'
  <2> DEFINE t == [Idle("members", "message") EXCEPT !.ch = ch]
  <2>1. t \in Task /\ t.pc = "members" /\ t.ch = ch
    BY IdleType DEF PCs, Kinds, Idle
  <2>2. Goto(c, t)
    BY <1>7 DEF RecvStreaming
  <2> HIDE DEF t
  <2>3. task' \in [Conns -> Task] /\ \A d \in Conns : WellPlaced(task'[d])
    BY <2>1, <2>2, GotoType DEF HubTypeOK, WellPlaced
  <2>4. live' \in [Channels -> SUBSET Users]
    BY <1>7 DEF RecvStreaming, HubTypeOK
  <2>5. {ch} \in SUBSET Channels /\ NewPresences(c, {ch})
    BY <1>7 DEF RecvStreaming
  <2> QED BY <1>7, <2>3, <2>4, <2>5, HistoryType DEF RecvStreaming, HubTypeOK, views, space
<1>8. ASSUME NEW c \in Conns, Unregister(c) PROVE HubTypeOK'
  <2>1. /\ Closed \in Task /\ WellPlaced(Closed)
        /\ Idle("leaveAll", "leave") \in Task /\ WellPlaced(Idle("leaveAll", "leave"))
    BY IdleType DEF PCs, Kinds, WellPlaced, Idle, Closed
  <2>2. task' \in [Conns -> Task] /\ \A d \in Conns : WellPlaced(task'[d])
    BY <1>8, <2>1, GotoType DEF Unregister, HubTypeOK
  <2> QED BY <1>8, <2>2 DEF Unregister, HubTypeOK, views, space, past, crossed
<1>9. ASSUME NEW c \in Conns, LeaveAll(c) PROVE HubTypeOK'
  <2>1. task' \in [Conns -> Task] /\ \A d \in Conns : WellPlaced(task'[d])
    BY <1>9, ProceedType, TodoType DEF LeaveAll, Kinds
  <2>2. CallsOf(ConnUser[c]) \in SUBSET Channels
    BY DEF CallsOf
  <2>3. NewRosters(c, CallsOf(ConnUser[c])) /\ NewPresences(c, CallsOf(ConnUser[c]))
    BY <1>9 DEF LeaveAll
  <2> QED BY <1>9, <2>1, <2>2, <2>3, HistoryType DEF LeaveAll, HubTypeOK, views, space
<1>10. ASSUME NEW c \in Conns, SendRoster(c) PROVE HubTypeOK'
  <2> DEFINE t == [task[c] EXCEPT !.pc = "members", !.roster = {}]
  <2>1. t \in Task /\ t.pc = "members" /\ t.ch = task[c].ch /\ task[c].ch \in Channels
    <3>1. task[c] \in Task /\ WellPlaced(task[c]) /\ task[c].pc = "roster"
      BY <1>10, TaskFields DEF SendRoster
    <3>2. t \in Task
      BY <3>1, MoveTask, Presences
    <3> QED BY <3>1, <3>2 DEF Task, WellPlaced
  <2>2. Goto(c, t)
    BY <1>10 DEF SendRoster
  <2> HIDE DEF t
  <2>3. task' \in [Conns -> Task] /\ \A d \in Conns : WellPlaced(task'[d])
    BY <2>1, <2>2, GotoType DEF HubTypeOK, WellPlaced
  <2>4. task[c].roster \in SUBSET Users
    BY TaskFields
  <2>5. lastRoster' \in [Conns -> [Channels -> SUBSET Users]]
    BY <1>10, <2>4 DEF SendRoster, HubTypeOK
  <2> QED BY <1>10, <2>3, <2>5 DEF SendRoster, HubTypeOK, hub, space, past, crossed
<1>11. ASSUME NEW c \in Conns, ReadMembers(c) PROVE HubTypeOK'
  <2> DEFINE t == [task[c] EXCEPT !.pc = "presence", !.audience = members]
  <2>1. t \in Task /\ t.pc = "presence" /\ t.ch = task[c].ch /\ task[c].ch \in Channels
    <3>1. task[c] \in Task /\ WellPlaced(task[c]) /\ task[c].pc = "members"
      BY <1>11, TaskFields DEF ReadMembers
    <3>2. t \in Task
      BY <3>1, MoveTask, Presences DEF HubTypeOK
    <3> QED BY <3>1, <3>2 DEF Task, WellPlaced
  <2>2. Goto(c, t)
    BY <1>11 DEF ReadMembers
  <2> HIDE DEF t
  <2>3. task' \in [Conns -> Task] /\ \A d \in Conns : WellPlaced(task'[d])
    BY <2>1, <2>2, GotoType DEF HubTypeOK, WellPlaced
  <2> QED BY <1>11, <2>3 DEF ReadMembers, HubTypeOK, hub, views, space, past, crossed
<1>12. ASSUME NEW c \in Conns, ReadPresence(c) PROVE HubTypeOK'
  <2> DEFINE ch == task[c].ch
             t == [task[c] EXCEPT !.pc = "send", !.seen = [parts |-> calls[ch], live |-> live[ch]]]
  <2>1. t \in Task /\ t.pc = "send" /\ t.ch = task[c].ch /\ task[c].ch \in Channels
    <3>1. task[c] \in Task /\ WellPlaced(task[c]) /\ task[c].pc = "presence"
      BY <1>12, TaskFields DEF ReadPresence
    <3>2. [parts |-> calls[ch], live |-> live[ch]] \in Presence
      BY <3>1 DEF HubTypeOK, Presence, WellPlaced
    <3>3. t \in Task
      BY <3>1, <3>2, MoveTask
    <3> QED BY <3>1, <3>3 DEF Task, WellPlaced
  <2>2. Goto(c, t)
    BY <1>12 DEF ReadPresence
  <2> HIDE DEF t
  <2>3. task' \in [Conns -> Task] /\ \A d \in Conns : WellPlaced(task'[d])
    BY <2>1, <2>2, GotoType DEF HubTypeOK, WellPlaced
  <2> QED BY <1>12, <2>3 DEF ReadPresence, HubTypeOK, hub, views, space, past, crossed
<1>13. ASSUME NEW c \in Conns, SendPresence(c) PROVE HubTypeOK'
  <2>1. task[c].kind \in Kinds /\ task[c].todo \in SUBSET Todo /\ task[c].seen \in Presence
    BY TaskFields
  <2>2. task' \in [Conns -> Task] /\ \A d \in Conns : WellPlaced(task'[d])
    BY <1>13, <2>1, ProceedType DEF SendPresence
  <2>3. lastPresence' \in [Conns -> [Channels -> Presence]]
    BY <1>13, <2>1 DEF SendPresence, HubTypeOK
  <2> QED BY <1>13, <2>2, <2>3 DEF SendPresence, HubTypeOK, hub, space, past, crossed
<1>14. ASSUME NEW u \in Users, AcceptInvite(u) \/ RemoveMember(u) PROVE HubTypeOK'
  BY <1>14 DEF AcceptInvite, RemoveMember, HubTypeOK, hub, views, past, crossed
<1> QED
  BY <1>1, <1>2, <1>3, <1>4, <1>5, <1>6, <1>7, <1>8, <1>9, <1>10, <1>11, <1>12, <1>13, <1>14
  DEF HubNext, Arrival, Handler

\* Every reachable state of the hub and of its tasks is well typed.
THEOREM HubTypeCorrect == HubSpec => []HubTypeOK
<1>1. HubInit => HubTypeOK
  <2> SUFFICES ASSUME HubInit PROVE HubTypeOK
    OBVIOUS
  <2>1. Closed \in Task /\ WellPlaced(Closed) /\ Empty \in Presence
    BY IdleType DEF PCs, Kinds, WellPlaced, Idle, Closed, Empty, Presence
  <2> QED BY <2>1, HubAssumption DEF HubInit, AtStart, HubTypeOK
<1> QED BY <1>1, HubTypeStep, PTL DEF HubSpec

-----------------------------------------------------------------------------
(***************************************************************************)
(* NoGhost alone is not inductive: a join adds a user whose connection must   *)
(* still be registered, which only ConnsMatchTasks knows.                     *)
(***************************************************************************)
HubInv == ConnsMatchTasks /\ NoGhost /\ LiveInCall

\* Sections that neither open, close nor leave: registration and leaving stay.
Steady ==
  /\ conns' = conns
  /\ \A d \in Conns : Registered(d)' <=> Registered(d)
  /\ \A u \in Users : Leaving(u)' <=> Leaving(u)

\* A step of one task, from outside leaveAll to outside leaveAll, that stays on
\* its side of registration.
LEMMA SteadyTask ==
  ASSUME HubTypeOK, NEW c \in Conns, conns' = conns,
         \A d \in Conns : d # c => task'[d] = task[d],
         task[c].pc # "leaveAll", task'[c].pc # "leaveAll",
         Registered(c)' <=> Registered(c)
  PROVE  Steady
  BY DEF Steady, Registered, Leaving

\* Every section other than Register, Unregister and LeaveAll is steady.
LEMMA SteadySteps ==
  ASSUME HubTypeOK, NEW c \in Conns,
         \/ ListCalls(c) \/ CallJoin(c) \/ SendRoster(c)
         \/ ReadMembers(c) \/ ReadPresence(c) \/ SendPresence(c)
         \/ \E ch \in Channels :
              \/ RecvJoin(c, ch) \/ RecvLeave(c, ch)
              \/ \E streaming \in BOOLEAN : RecvStreaming(c, ch, streaming)
  PROVE  Steady
<1> USE DEF Registered, Leaving
<1>1. ASSUME NEW t, Goto(c, t), conns' = conns, t.pc \notin {"closed", "leaveAll"},
             task[c].pc \notin {"closed", "leaveAll"}, t.kind = task[c].kind
      PROVE Steady
  <2>1. task'[c] = t /\ \A d \in Conns : d # c => task'[d] = task[d]
    BY <1>1 DEF Goto, HubTypeOK
  <2> QED BY <1>1, <2>1, SteadyTask
<1>2. CASE ListCalls(c)
  <2>1. task'[c].pc \in {"idle", "members"} /\ task'[c].kind # "leave"
        /\ \A d \in Conns : d # c => task'[d] = task[d]
    BY <1>2, ProceedType, TodoType, HubAssumption DEF ListCalls, Kinds
  <2>2. task[c].pc = "list" /\ task[c].kind = "snapshot" /\ conns' = conns
    BY <1>2 DEF ListCalls, HubTypeOK, WellPlaced, hub
  <2> QED BY <2>1, <2>2, SteadyTask
<1>3. CASE CallJoin(c)
  <2> DEFINE t == [task[c] EXCEPT !.pc = "roster", !.roster = calls[task[c].ch] \union {ConnUser[c]}]
  <2>1. task[c].pc = "join" /\ Goto(c, t) /\ conns' = conns
    BY <1>3 DEF CallJoin
  <2>2. t.pc = "roster" /\ t.kind = task[c].kind
    BY TaskFields DEF Task
  <2> HIDE DEF t
  <2> QED BY <1>1, <2>1, <2>2
<1>4. CASE SendRoster(c)
  <2> DEFINE t == [task[c] EXCEPT !.pc = "members", !.roster = {}]
  <2>1. task[c].pc = "roster" /\ Goto(c, t) /\ conns' = conns
    BY <1>4 DEF SendRoster, hub
  <2>2. t.pc = "members" /\ t.kind = task[c].kind
    BY TaskFields DEF Task
  <2> HIDE DEF t
  <2> QED BY <1>1, <2>1, <2>2
<1>5. CASE ReadMembers(c)
  <2> DEFINE t == [task[c] EXCEPT !.pc = "presence", !.audience = members]
  <2>1. task[c].pc = "members" /\ Goto(c, t) /\ conns' = conns
    BY <1>5 DEF ReadMembers, hub
  <2>2. t.pc = "presence" /\ t.kind = task[c].kind
    BY TaskFields DEF Task
  <2> HIDE DEF t
  <2> QED BY <1>1, <2>1, <2>2
<1>6. CASE ReadPresence(c)
  <2> DEFINE t == [task[c] EXCEPT !.pc = "send",
                                     !.seen = [parts |-> calls[task[c].ch], live |-> live[task[c].ch]]]
  <2>1. task[c].pc = "presence" /\ Goto(c, t) /\ conns' = conns
    BY <1>6 DEF ReadPresence, hub
  <2>2. t.pc = "send" /\ t.kind = task[c].kind
    BY TaskFields DEF Task
  <2> HIDE DEF t
  <2> QED BY <1>1, <2>1, <2>2
<1>7. CASE SendPresence(c)
  <2>1. task[c].kind \in Kinds /\ task[c].todo \in SUBSET Todo
    BY TaskFields
  <2>2. /\ \A d \in Conns : d # c => task'[d] = task[d]
        /\ task[c].kind = "leave" =>
             task'[c].pc = "closed" \/ (task'[c].pc = "roster" /\ task'[c].kind = "leave")
        /\ task[c].kind # "leave" =>
             task'[c].pc \in {"idle", "members"} /\ task'[c].kind # "leave"
    BY <1>7, <2>1, ProceedType DEF SendPresence
  <2>3. task[c].pc = "send" /\ conns' = conns
    BY <1>7 DEF SendPresence, hub
  <2> QED BY <2>2, <2>3, SteadyTask
<1>8. ASSUME NEW ch \in Channels, RecvJoin(c, ch) PROVE Steady
  <2>1. task[c].pc = "idle" /\ task[c].kind = "message" /\ conns' = conns
    BY <1>8 DEF RecvJoin, HubTypeOK, WellPlaced, hub
  <2> QED BY <1>8, <1>1, <2>1 DEF RecvJoin, Idle
<1>9. ASSUME NEW ch \in Channels, RecvLeave(c, ch) PROVE Steady
  <2>1. task[c].pc = "idle" /\ task[c].kind = "message" /\ conns' = conns
    BY <1>9 DEF RecvLeave, HubTypeOK, WellPlaced
  <2>2. CASE UNCHANGED task
    BY <2>1, <2>2, SteadyTask
  <2>3. CASE ~UNCHANGED task
    BY <1>9, <1>1, <2>1, <2>3 DEF RecvLeave, Idle
  <2> QED BY <2>2, <2>3
<1>10. ASSUME NEW ch \in Channels, NEW streaming \in BOOLEAN, RecvStreaming(c, ch, streaming)
       PROVE Steady
  <2>1. task[c].pc = "idle" /\ task[c].kind = "message" /\ conns' = conns
    BY <1>10 DEF RecvStreaming, HubTypeOK, WellPlaced
  <2> QED BY <1>10, <1>1, <2>1 DEF RecvStreaming, Idle
<1> QED BY <1>2, <1>3, <1>4, <1>5, <1>6, <1>7, <1>8, <1>9, <1>10

\* A steady section whose rosters only lose users, and whose LIVE sets stay
\* inside them, keeps the invariant.
LEMMA SteadyInv ==
  ASSUME HubInv, Steady,
         \A ch \in Channels : calls'[ch] \subseteq calls[ch] /\ live'[ch] \subseteq calls'[ch],
         HubTypeOK
  PROVE  HubInv'
<1>1. ConnsMatchTasks'
  BY DEF HubInv, ConnsMatchTasks, Steady
<1>2. NoGhost'
  BY DEF HubInv, NoGhost, Steady, HubTypeOK
<1>3. LiveInCall'
  BY DEF LiveInCall
<1> QED BY <1>1, <1>2, <1>3 DEF HubInv

\* The strengthened invariant is inductive.
LEMMA HubStep == HubTypeOK /\ HubTypeOK' /\ HubInv /\ [HubNext]_hubVars => HubInv'
<1> SUFFICES ASSUME HubTypeOK, HubTypeOK', HubInv, [HubNext]_hubVars PROVE HubInv'
  OBVIOUS
<1> USE HubAssumption
<1>1. CASE UNCHANGED hubVars
  BY <1>1 DEF HubInv, ConnsMatchTasks, NoGhost, LiveInCall, Registered, Leaving, hubVars, hub
<1>2. ASSUME NEW c \in Conns, Register(c) PROVE HubInv'
  <2>1. /\ task'[c] = Idle("list", "snapshot")
        /\ \A d \in Conns : d # c => task'[d] = task[d]
        /\ task[c].pc = "closed"
    BY <1>2 DEF Register, Goto, HubTypeOK
  <2>2. Registered(c)' /\ ~Registered(c) /\ task'[c].pc # "leaveAll"
    BY <2>1 DEF Registered, Idle
  <2>3. \A d \in Conns : d # c => (Registered(d)' <=> Registered(d))
    BY <2>1 DEF Registered
  <2>4. /\ conns' = [conns EXCEPT ![ConnUser[c]] = @ \union {c}]
        /\ calls' = calls /\ live' = live
    BY <1>2 DEF Register
  <2>5. ConnsMatchTasks'
    BY <2>2, <2>3, <2>4 DEF HubInv, ConnsMatchTasks, HubTypeOK
  <2>6. \A u \in Users : Leaving(u) => Leaving(u)'
    BY <2>1 DEF Leaving
  <2>7. NoGhost'
    BY <2>4, <2>6 DEF HubInv, NoGhost, HubTypeOK
  <2> QED BY <2>4, <2>5, <2>7 DEF HubInv, LiveInCall
<1>3. ASSUME NEW c \in Conns, Unregister(c) PROVE HubInv'
  <2> DEFINE left == conns[ConnUser[c]] \ {c}
  <2>1. /\ task'[c] = IF left = {} THEN Idle("leaveAll", "leave") ELSE Closed
        /\ \A d \in Conns : d # c => task'[d] = task[d]
        /\ task[c].pc = "idle" /\ task[c].kind = "message"
    BY <1>3 DEF Unregister, Goto, HubTypeOK, WellPlaced
  <2>2. Registered(c) /\ ~Registered(c)'
    BY <2>1 DEF Registered, Idle, Closed
  <2>3. \A d \in Conns : d # c => (Registered(d)' <=> Registered(d))
    BY <2>1 DEF Registered
  <2>4. conns' = [conns EXCEPT ![ConnUser[c]] = left] /\ calls' = calls /\ live' = live
    BY <1>3 DEF Unregister
  <2>5. ConnsMatchTasks'
    BY <2>2, <2>3, <2>4 DEF HubInv, ConnsMatchTasks, HubTypeOK
  <2>6. \A u \in Users : Leaving(u) => Leaving(u)'
    BY <2>1 DEF Leaving
  <2>7. left = {} => Leaving(ConnUser[c])'
    BY <2>1 DEF Leaving, Idle
  <2>8. NoGhost'
    BY <2>4, <2>6, <2>7 DEF HubInv, NoGhost, HubTypeOK
  <2> QED BY <2>4, <2>5, <2>8 DEF HubInv, LiveInCall
<1>4. ASSUME NEW c \in Conns, LeaveAll(c) PROVE HubInv'
  <2> DEFINE u == ConnUser[c]
  <2>1. /\ task'[c].pc = "closed" \/ (task'[c].pc = "roster" /\ task'[c].kind = "leave")
        /\ \A d \in Conns : d # c => task'[d] = task[d]
    BY <1>4, ProceedType, TodoType DEF LeaveAll, Kinds
  <2>2. task[c].pc = "leaveAll" /\ task[c].kind = "leave"
    BY <1>4 DEF LeaveAll, HubTypeOK, WellPlaced
  <2>3. /\ conns' = conns
        /\ calls' = [ch \in Channels |-> calls[ch] \ {u}]
        /\ live' = [ch \in Channels |-> live[ch] \ {u}]
    BY <1>4 DEF LeaveAll
  <2>4. \A d \in Conns : Registered(d)' <=> Registered(d)
    BY <2>1, <2>2 DEF Registered
  <2>5. ConnsMatchTasks'
    BY <2>3, <2>4 DEF HubInv, ConnsMatchTasks
  <2>6. \A v \in Users : v # u /\ Leaving(v) => Leaving(v)'
    BY <2>1 DEF Leaving
  <2>7. NoGhost'
    BY <2>3, <2>6 DEF HubInv, NoGhost, HubTypeOK
  <2>8. LiveInCall'
    BY <2>3 DEF HubInv, LiveInCall
  <2> QED BY <2>5, <2>7, <2>8 DEF HubInv
<1>5. ASSUME NEW c \in Conns, CallJoin(c) PROVE HubInv'
  <2> DEFINE u == ConnUser[c]
             ch == task[c].ch
  <2>1. Steady
    BY <1>5, SteadySteps
  <2>2. Registered(c) /\ ch \in Channels
    BY <1>5 DEF CallJoin, HubTypeOK, WellPlaced, Registered
  <2>3. c \in conns[u]
    BY <2>2 DEF HubInv, ConnsMatchTasks
  <2>4. calls' = [calls EXCEPT ![ch] = @ \union {u}] /\ live' = live
    BY <1>5 DEF CallJoin
  <2>5. ConnsMatchTasks'
    BY <2>1 DEF HubInv, ConnsMatchTasks, Steady
  <2>6. NoGhost'
    BY <2>1, <2>2, <2>3, <2>4 DEF HubInv, NoGhost, Steady, HubTypeOK
  <2>7. LiveInCall'
    BY <2>2, <2>4 DEF HubInv, LiveInCall, HubTypeOK
  <2> QED BY <2>5, <2>6, <2>7 DEF HubInv
<1>6. ASSUME NEW c \in Conns, NEW ch \in Channels, RecvLeave(c, ch) PROVE HubInv'
  <2>1. Steady
    BY <1>6, SteadySteps
  <2>2. \A d \in Channels : calls'[d] \subseteq calls[d] /\ live'[d] \subseteq calls'[d]
    BY <1>6 DEF RecvLeave, HubInv, LiveInCall, HubTypeOK
  <2> QED BY <2>1, <2>2, SteadyInv
<1>7. ASSUME NEW c \in Conns, NEW ch \in Channels, NEW streaming \in BOOLEAN,
             RecvStreaming(c, ch, streaming)
      PROVE HubInv'
  <2>1. Steady
    BY <1>7, SteadySteps
  <2>2. \A d \in Channels : calls'[d] \subseteq calls[d] /\ live'[d] \subseteq calls'[d]
    BY <1>7 DEF RecvStreaming, HubInv, LiveInCall, HubTypeOK
  <2> QED BY <2>1, <2>2, SteadyInv
<1>8. ASSUME NEW c \in Conns,
             \/ ListCalls(c) \/ SendRoster(c) \/ ReadMembers(c) \/ ReadPresence(c)
             \/ SendPresence(c) \/ \E ch \in Channels : RecvJoin(c, ch)
      PROVE HubInv'
  <2>1. Steady
    BY <1>8, SteadySteps
  <2>2. calls' = calls /\ live' = live
    BY <1>8 DEF ListCalls, SendRoster, ReadMembers, ReadPresence, SendPresence, RecvJoin, hub
  <2> QED BY <2>1, <2>2, SteadyInv DEF HubInv, LiveInCall
<1>9. ASSUME NEW u \in Users, AcceptInvite(u) \/ RemoveMember(u) PROVE HubInv'
  BY <1>9 DEF AcceptInvite, RemoveMember, HubInv, ConnsMatchTasks, NoGhost, LiveInCall,
              Registered, Leaving, hub
<1> QED
  BY <1>1, <1>2, <1>3, <1>4, <1>5, <1>6, <1>7, <1>8, <1>9 DEF HubNext, Arrival, Handler

\* The invariant of the hub, for every interleaving of the handlers.
THEOREM HubCorrect == HubSpec => []HubInv
<1>1. HubInit => HubInv
  BY HubAssumption
  DEF HubInit, AtStart, HubInv, ConnsMatchTasks, NoGhost, LiveInCall, Registered, Leaving, Closed, Idle
<1> QED BY <1>1, HubStep, HubTypeCorrect, PTL DEF HubSpec

\* No user stays in a call without a connection or a task about to remove it.
THEOREM NoGhostHolds == HubSpec => []NoGhost
<1>1. HubInv => NoGhost
  BY DEF HubInv
<1> QED BY <1>1, HubCorrect, PTL

\* Only participants are LIVE.
THEOREM LiveInCallHolds == HubSpec => []LiveInCall
<1>1. HubInv => LiveInCall
  BY DEF HubInv
<1> QED BY <1>1, HubCorrect, PTL

-----------------------------------------------------------------------------
\* The users the one-step roster takes to be online.
Online == {u \in Users : conns[u] # {} \/ Leaving(u)}

\* Every section of CallHub is a step of the one-step roster or invisible to it.
LEMMA RosterStep == HubTypeOK /\ HubInv /\ [HubNext]_hubVars => [R!Next]_(R!vars)
<1> SUFFICES ASSUME HubTypeOK, HubInv, [HubNext]_hubVars PROVE [R!Next]_(R!vars)
  OBVIOUS
<1> USE HubAssumption DEF R!Next, R!vars
<1>1. ASSUME Online' = Online, calls' = calls, live' = live PROVE UNCHANGED R!vars
  BY <1>1 DEF Online
<1>2. ASSUME Steady PROVE Online' = Online
  BY <1>2 DEF Steady, Online
<1>3. CASE UNCHANGED hubVars
  BY <1>1, <1>3 DEF hubVars, hub, Online, Leaving
<1>4. ASSUME NEW c \in Conns, Register(c) PROVE R!Next
  <2> DEFINE u == ConnUser[c]
  <2>1. /\ task'[c].pc = "list"
        /\ \A d \in Conns : d # c => task'[d] = task[d]
        /\ task[c].pc = "closed"
    BY <1>4 DEF Register, Goto, HubTypeOK, Idle
  <2>2. \A v \in Users : Leaving(v)' <=> Leaving(v)
    BY <2>1 DEF Leaving
  <2>3. /\ conns' = [conns EXCEPT ![u] = @ \union {c}]
        /\ calls' = calls /\ live' = live
    BY <1>4 DEF Register
  <2>4. Online' = Online \union {u}
    BY <2>2, <2>3 DEF Online, HubTypeOK
  <2>5. R!Connect(u)
    BY <2>3, <2>4 DEF R!Connect, Online
  <2> QED BY <2>5
<1>5. ASSUME NEW c \in Conns, Unregister(c) PROVE UNCHANGED R!vars
  <2> DEFINE u == ConnUser[c]
             left == conns[u] \ {c}
  <2>1. /\ task'[c] = IF left = {} THEN Idle("leaveAll", "leave") ELSE Closed
        /\ \A d \in Conns : d # c => task'[d] = task[d]
        /\ task[c].pc = "idle" /\ task[c].kind = "message"
    BY <1>5 DEF Unregister, Goto, HubTypeOK, WellPlaced
  <2>2. c \in conns[u]
    BY <2>1 DEF HubInv, ConnsMatchTasks, Registered
  <2>3. \A v \in Users : v # u => (Leaving(v)' <=> Leaving(v))
    BY <2>1 DEF Leaving
  <2>4. left = {} => Leaving(u)'
    BY <2>1 DEF Leaving, Idle
  <2>5. conns' = [conns EXCEPT ![u] = left] /\ calls' = calls /\ live' = live
    BY <1>5 DEF Unregister
  <2>6. u \in Online /\ u \in Online'
    BY <2>2, <2>4, <2>5 DEF Online, HubTypeOK
  <2>7. Online' = Online
    BY <2>3, <2>5, <2>6 DEF Online, HubTypeOK
  <2> QED BY <1>1, <2>5, <2>7
<1>6. ASSUME NEW c \in Conns, LeaveAll(c) PROVE R!Next
  <2> DEFINE u == ConnUser[c]
  <2>1. \A d \in Conns : d # c => task'[d] = task[d]
    BY <1>6, ProceedType, TodoType DEF LeaveAll, Kinds
  <2>2. task'[c].pc # "leaveAll"
    BY <1>6, ProceedType, TodoType DEF LeaveAll, Kinds
  <2>3. conns' = conns
    BY <1>6 DEF LeaveAll
  <2>4. \A v \in Users : v # u => (Leaving(v)' <=> Leaving(v))
    BY <2>1, <2>2 DEF Leaving
  <2>5. u \in Online
    BY <1>6 DEF Online, Leaving, LeaveAll
  <2>6. Online' = Online \/ Online' = Online \ {u}
    BY <2>3, <2>4, <2>5 DEF Online
  <2>7. R!HangUp(u)
    BY <1>6, <2>6 DEF R!HangUp, LeaveAll, Online
  <2> QED BY <2>7
<1>7. ASSUME NEW c \in Conns, CallJoin(c) PROVE R!Next
  <2> DEFINE u == ConnUser[c]
             ch == task[c].ch
  <2>1. Registered(c) /\ ch \in Channels
    BY <1>7 DEF CallJoin, HubTypeOK, WellPlaced, Registered
  <2>2. u \in Online
    BY <2>1 DEF HubInv, ConnsMatchTasks, Online
  <2>3. Online' = Online
    BY <1>2, <1>7, SteadySteps
  <2>4. R!Join(u, ch)
    BY <1>7, <2>2, <2>3 DEF R!Join, CallJoin, Online
  <2> QED BY <2>1, <2>4
<1>8. ASSUME NEW c \in Conns, NEW ch \in Channels, RecvLeave(c, ch) PROVE R!Next
  <2>1. Online' = Online
    BY <1>2, <1>8, SteadySteps
  <2>2. R!Leave(ConnUser[c], ch)
    BY <1>8, <2>1 DEF R!Leave, RecvLeave, Online, HubTypeOK
  <2> QED BY <2>2
<1>9. ASSUME NEW c \in Conns, NEW ch \in Channels, NEW streaming \in BOOLEAN,
             RecvStreaming(c, ch, streaming)
      PROVE R!Next
  <2>1. Online' = Online
    BY <1>2, <1>9, SteadySteps
  <2>2. R!Stream(ConnUser[c], ch)
    BY <1>9, <2>1 DEF R!Stream, RecvStreaming, Online
  <2> QED BY <2>2
<1>10. ASSUME NEW c \in Conns,
              \/ ListCalls(c) \/ SendRoster(c) \/ ReadMembers(c) \/ ReadPresence(c)
              \/ SendPresence(c) \/ \E ch \in Channels : RecvJoin(c, ch)
       PROVE UNCHANGED R!vars
  <2>1. Online' = Online
    BY <1>2, <1>10, SteadySteps
  <2>2. calls' = calls /\ live' = live
    BY <1>10 DEF ListCalls, SendRoster, ReadMembers, ReadPresence, SendPresence, RecvJoin, hub
  <2> QED BY <1>1, <2>1, <2>2
<1>11. ASSUME NEW u \in Users, AcceptInvite(u) \/ RemoveMember(u) PROVE UNCHANGED R!vars
  BY <1>1, <1>11 DEF AcceptInvite, RemoveMember, Online, Leaving, hub
<1> QED
  BY <1>3, <1>4, <1>5, <1>6, <1>7, <1>8, <1>9, <1>10, <1>11 DEF HubNext, Arrival, Handler

\* The separately locked sections of the hub implement the one-step roster.
THEOREM RosterImplemented == HubSpec => ImplementsRoster
<1>1. HubInit => R!Init
  BY HubAssumption DEF HubInit, AtStart, R!Init, Leaving, Closed, Idle
<1> QED BY <1>1, RosterStep, HubCorrect, HubTypeCorrect, PTL DEF HubSpec, ImplementsRoster, R!Spec

-----------------------------------------------------------------------------
(***************************************************************************)
(* What a task has still to send is all that anybody is owed: that a client  *)
(* was told what is true is not inductive without it.  Handlers may overlap; *)
(* of a channel whose rosters have not crossed, at most one task has one to  *)
(* send, and it is the last one made.                                        *)
(***************************************************************************)

\* What a task still carries of the rosters of a channel is what its roster is.
Carried(t, ch) ==
  /\ t.pc = "roster" /\ t.ch = ch => t.roster = calls[ch]
  /\ t.kind = "leave" => \A e \in t.todo : e.ch = ch => e.roster = calls[ch]

\* Who is in a call, and not about to be put on its roster, knows the roster.
RosterKnown(ch) ==
  \A c \in Conns : /\ ch \in joined[c] /\ ConnUser[c] \in calls[ch]
                   /\ ~(task[c].pc = "join" /\ task[c].ch = ch)
                   => lastRoster[c][ch] = calls[ch]

RosterTold(ch) ==
  /\ \A b, d \in Conns : OwesRoster(b, ch) /\ OwesRoster(d, ch) => b = d
  /\ \A b \in Conns : Carried(task[b], ch)
  /\ RosterKnown(ch) \/ \E b \in Conns : OwesRoster(b, ch)

\* Only the loops carry channels still to do, and only open connections are in calls.
TasksOK ==
  /\ \A c \in Conns : task[c].pc \in {"closed", "idle", "list", "join", "leaveAll"} => task[c].todo = {}
  /\ \A c \in Conns : joined[c] # {} => Registered(c)

RosterInv == \A ch \in Channels \ rosterCrossed : RosterTold(ch)

\* Where Proceed goes, and with which locals.
LEMMA ProceedTask ==
  ASSUME HubTypeOK, NEW c \in Conns, NEW kind \in Kinds, NEW todo,
         Proceed(c, kind, todo)
  PROVE  /\ \A d \in Conns : d # c => task'[d] = task[d]
         /\ \/ todo = {} /\ task'[c] = (IF kind = "leave" THEN Closed ELSE Reading)
            \/ \E e \in todo :
                 /\ task'[c].pc = (IF kind = "leave" THEN "roster" ELSE "members") /\ task'[c].kind = kind
                 /\ task'[c].ch = e.ch /\ task'[c].roster = e.roster /\ task'[c].todo = todo \ {e}
<1>1. CASE todo = {} /\ Goto(c, IF kind = "leave" THEN Closed ELSE Reading)
  BY <1>1 DEF Goto, HubTypeOK
<1>2. ASSUME NEW e \in todo,
             Goto(c, [Idle(IF kind = "leave" THEN "roster" ELSE "members", kind)
                        EXCEPT !.ch = e.ch, !.roster = e.roster, !.todo = todo \ {e}])
      PROVE  /\ \A d \in Conns : d # c => task'[d] = task[d]
             /\ task'[c].pc = (IF kind = "leave" THEN "roster" ELSE "members") /\ task'[c].kind = kind
             /\ task'[c].ch = e.ch /\ task'[c].roster = e.roster /\ task'[c].todo = todo \ {e}
  <2> DEFINE pc == IF kind = "leave" THEN "roster" ELSE "members"
             t == [Idle(pc, kind) EXCEPT !.ch = e.ch, !.roster = e.roster, !.todo = todo \ {e}]
  <2>1. t.pc = pc /\ t.kind = kind /\ t.ch = e.ch /\ t.roster = e.roster /\ t.todo = todo \ {e}
    BY DEF Idle
  <2>2. task'[c] = t /\ \A d \in Conns : d # c => task'[d] = task[d]
    BY <1>2 DEF Goto, HubTypeOK
  <2> HIDE DEF t
  <2> QED BY <2>1, <2>2
<1> QED BY <1>1, <1>2 DEF Proceed

-----------------------------------------------------------------------------
(* Each action once, in the form the three invariants below need it.         *)

\* A message is read by an open connection, and no step disturbs another task.
LEMMA OthersSame ==
  ASSUME HubTypeOK, NEW c \in Conns, Arrival(c) \/ Handler(c)
  PROVE  \A d \in Conns : d # c => task'[d] = task[d]
<1>1. CASE ListCalls(c)
  BY <1>1, ProceedTask DEF ListCalls, Kinds
<1>2. CASE LeaveAll(c)
  BY <1>2, ProceedTask DEF LeaveAll, Kinds
<1>3. CASE SendPresence(c)
  BY <1>3, ProceedTask, TaskFields DEF SendPresence
<1>4. CASE (\E t : Goto(c, t)) \/ UNCHANGED task
  BY <1>4 DEF Goto, HubTypeOK
<1>5. ListCalls(c) \/ LeaveAll(c) \/ SendPresence(c) \/ (\E t : Goto(c, t)) \/ UNCHANGED task
  BY DEF Arrival, Handler, Register, Unregister, RecvJoin, RecvLeave, RecvStreaming, CallJoin, SendRoster,
         ReadMembers, ReadPresence
<1> QED BY <1>1, <1>2, <1>3, <1>4, <1>5

LEMMA RegisterDoes ==
  ASSUME HubTypeOK, NEW c \in Conns, Register(c)
  PROVE  /\ task[c].pc = "closed" /\ task[c].kind = "snapshot" /\ ~Registered(c)
         /\ task'[c].pc = "list" /\ task'[c].kind = "snapshot" /\ task'[c].todo = {}
         /\ UNCHANGED <<calls, live, joined, members, rosterCrossed, presenceCrossed>>
         /\ \A ch \in Channels : lastPresence'[c][ch] = Empty
         /\ \A d \in Conns : d # c => lastRoster'[d] = lastRoster[d] /\ lastPresence'[d] = lastPresence[d]
         /\ untold' = {p \in untold : p[1] # c}
         /\ conns' = [conns EXCEPT ![ConnUser[c]] = @ \union {c}]
  BY DEF Register, Goto, HubTypeOK, WellPlaced, Registered, Idle, space, crossed

LEMMA ListDoes ==
  ASSUME HubTypeOK, NEW c \in Conns, ListCalls(c)
  PROVE  /\ task[c].pc = "list" /\ task[c].kind = "snapshot"
         /\ UNCHANGED <<conns, calls, live, joined, members, lastRoster, lastPresence, rosterCrossed,
                        presenceCrossed, untold>>
         /\ \/ ActiveCalls = {} /\ task'[c] = Reading
            \/ \E x \in ActiveCalls :
                 /\ task'[c].pc = "members" /\ task'[c].kind = "snapshot" /\ task'[c].ch = x
                 /\ \A y \in ActiveCalls : y = x \/ \E e \in task'[c].todo : e.ch = y
<1> DEFINE todo == {[ch |-> ch, roster |-> {}] : ch \in ActiveCalls}
<1>1. /\ task[c].pc = "list" /\ task[c].kind = "snapshot" /\ Proceed(c, "snapshot", todo)
      /\ UNCHANGED <<conns, calls, live, joined, members, lastRoster, lastPresence, rosterCrossed,
                     presenceCrossed, untold>>
  BY DEF ListCalls, HubTypeOK, WellPlaced, hub, views, space, past, crossed
<1>2. \A x \in ActiveCalls : [ch |-> x, roster |-> {}] \in todo
  OBVIOUS
<1>3. \A e \in todo : e.ch \in ActiveCalls /\ e = [ch |-> e.ch, roster |-> {}]
  OBVIOUS
<1>4. todo = {} => ActiveCalls = {}
  BY <1>2
<1> HIDE DEF todo
<1>5. CASE todo = {} /\ task'[c] = Reading
  BY <1>1, <1>4, <1>5
<1>6. ASSUME NEW e \in todo, task'[c].pc = "members", task'[c].kind = "snapshot", task'[c].ch = e.ch,
             task'[c].todo = todo \ {e}
      PROVE  \E x \in ActiveCalls :
               /\ task'[c].pc = "members" /\ task'[c].kind = "snapshot" /\ task'[c].ch = x
               /\ \A y \in ActiveCalls : y = x \/ \E f \in task'[c].todo : f.ch = y
  <2>1. ASSUME NEW y \in ActiveCalls, y # e.ch PROVE \E f \in task'[c].todo : f.ch = y
    <3>1. [ch |-> y, roster |-> {}] \in todo \ {e} /\ [ch |-> y, roster |-> {}].ch = y
      BY <1>2, <2>1
    <3> QED BY <1>6, <3>1
  <2> QED BY <1>3, <1>6, <2>1
<1> QED BY <1>1, <1>5, <1>6, ProceedTask DEF Kinds

LEMMA RecvJoinDoes ==
  ASSUME HubTypeOK, NEW c \in Conns, NEW ch \in Channels, RecvJoin(c, ch)
  PROVE  /\ task[c].pc = "idle" /\ task[c].kind = "message"
         /\ task'[c].pc = "join" /\ task'[c].kind = "message" /\ task'[c].ch = ch /\ task'[c].todo = {}
         /\ joined'[c] = joined[c] \union {ch} /\ \A d \in Conns : d # c => joined'[d] = joined[d]
         /\ UNCHANGED <<conns, calls, live, members, lastRoster, lastPresence, rosterCrossed, presenceCrossed,
                        untold, alone>>
<1>1. /\ task[c].pc = "idle" /\ task[c].kind = "message"
      /\ task'[c] = [Idle("join", "message") EXCEPT !.ch = ch]
      /\ joined' = [joined EXCEPT ![c] = @ \union {ch}]
      /\ UNCHANGED <<conns, calls, live, members, lastRoster, lastPresence, rosterCrossed, presenceCrossed,
                     untold, alone>>
  BY DEF RecvJoin, Goto, HubTypeOK, WellPlaced, hub, views, space, past, crossed
<1>2. joined'[c] = joined[c] \union {ch} /\ \A d \in Conns : d # c => joined'[d] = joined[d]
  BY <1>1 DEF HubTypeOK
<1> QED BY <1>1, <1>2 DEF Idle

LEMMA CallJoinDoes ==
  ASSUME HubTypeOK, NEW c \in Conns, CallJoin(c)
  PROVE  \E ch \in Channels :
           /\ task[c].pc = "join" /\ task[c].kind = "message" /\ task[c].ch = ch
           /\ task'[c].pc = "roster" /\ task'[c].kind = "message" /\ task'[c].ch = ch
           /\ task'[c].roster = calls'[ch]
           /\ calls' = [calls EXCEPT ![ch] = @ \union {ConnUser[c]}]
           /\ NewRosters(c, {ch}) /\ NewPresences(c, {ch})
           /\ UNCHANGED <<conns, live, joined, members, lastRoster, lastPresence, alone>>
<1>1. PICK ch \in Channels : ch = task[c].ch
  BY DEF CallJoin, HubTypeOK, WellPlaced
<1> DEFINE roster == calls[ch] \union {ConnUser[c]}
           t == [task[c] EXCEPT !.pc = "roster", !.roster = roster]
<1>2. /\ task[c].pc = "join" /\ task[c].kind = "message" /\ task'[c] = t
      /\ calls' = [calls EXCEPT ![ch] = roster]
      /\ NewRosters(c, {ch}) /\ NewPresences(c, {ch})
      /\ UNCHANGED <<conns, live, joined, members, lastRoster, lastPresence, alone>>
  BY <1>1 DEF CallJoin, Goto, HubTypeOK, WellPlaced, views, space
<1>3. t.pc = "roster" /\ t.kind = "message" /\ t.ch = ch /\ t.roster = roster
  BY <1>1, <1>2, TaskFields DEF Task
<1>4. calls'[ch] = roster
  BY <1>2 DEF HubTypeOK
<1> HIDE DEF t
<1> QED BY <1>1, <1>2, <1>3, <1>4

LEMMA RecvLeaveDrops ==
  ASSUME HubTypeOK, NEW c \in Conns, NEW ch \in Channels, RecvLeave(c, ch)
  PROVE  /\ task[c].pc = "idle" /\ task[c].kind = "message"
         /\ joined'[c] = joined[c] \ {ch} /\ \A d \in Conns : d # c => joined'[d] = joined[d]
         /\ calls'[ch] = calls[ch] \ {ConnUser[c]} /\ \A x \in Channels : x # ch => calls'[x] = calls[x]
         /\ live'[ch] = live[ch] \ {ConnUser[c]} /\ \A x \in Channels : x # ch => live'[x] = live[x]
         /\ UNCHANGED <<conns, members, lastRoster, lastPresence, alone>>
  BY DEF RecvLeave, HubTypeOK, WellPlaced, views, space

LEMMA RecvLeaveTells ==
  ASSUME HubTypeOK, NEW c \in Conns, NEW ch \in Channels, RecvLeave(c, ch)
  PROVE  \/ /\ ConnUser[c] \in calls[ch] /\ NewRosters(c, {ch}) /\ NewPresences(c, {ch})
            /\ task'[c].pc = "roster" /\ task'[c].kind = "message" /\ task'[c].ch = ch
            /\ task'[c].roster = calls'[ch]
         \/ /\ ConnUser[c] \notin calls[ch] /\ NewRosters(c, {}) /\ NewPresences(c, {})
            /\ UNCHANGED task
<1> DEFINE remaining == calls[ch] \ {ConnUser[c]}
           t == [Idle("roster", "message") EXCEPT !.ch = ch, !.roster = remaining]
<1>1. /\ NewRosters(c, {ch} \intersect CallsOf(ConnUser[c]))
      /\ NewPresences(c, {ch} \intersect CallsOf(ConnUser[c]))
      /\ IF ConnUser[c] \in calls[ch] THEN task'[c] = t ELSE UNCHANGED task
  BY DEF RecvLeave, Goto, HubTypeOK
<1>2. t.pc = "roster" /\ t.kind = "message" /\ t.ch = ch /\ t.roster = remaining
  BY DEF Idle
<1>3. calls'[ch] = remaining
  BY RecvLeaveDrops
<1> HIDE DEF t, remaining
<1>4. CASE ConnUser[c] \in calls[ch]
  <2>1. {ch} \intersect CallsOf(ConnUser[c]) = {ch}
    BY <1>4 DEF CallsOf
  <2> QED BY <1>1, <1>2, <1>3, <1>4, <2>1
<1>5. CASE ConnUser[c] \notin calls[ch]
  <2>1. {ch} \intersect CallsOf(ConnUser[c]) = {}
    BY <1>5 DEF CallsOf
  <2> QED BY <1>1, <1>5, <2>1
<1> QED BY <1>4, <1>5

LEMMA RecvStreamingDoes ==
  ASSUME HubTypeOK, NEW c \in Conns, NEW ch \in Channels, NEW streaming \in BOOLEAN,
         RecvStreaming(c, ch, streaming)
  PROVE  /\ task[c].pc = "idle" /\ task[c].kind = "message"
         /\ task'[c].pc = "members" /\ task'[c].kind = "message" /\ task'[c].ch = ch
         /\ \A x \in Channels : x # ch => live'[x] = live[x]
         /\ NewPresences(c, {ch})
         /\ UNCHANGED <<conns, calls, joined, members, lastRoster, lastPresence, rosterCrossed, alone>>
<1>1. /\ task[c].pc = "idle" /\ task[c].kind = "message"
      /\ task'[c] = [Idle("members", "message") EXCEPT !.ch = ch]
      /\ \A x \in Channels : x # ch => live'[x] = live[x]
      /\ NewPresences(c, {ch})
      /\ UNCHANGED <<conns, calls, joined, members, lastRoster, lastPresence, rosterCrossed, alone>>
  BY DEF RecvStreaming, Goto, HubTypeOK, WellPlaced, views, space
<1> QED BY <1>1 DEF Idle

LEMMA UnregisterDoes ==
  ASSUME HubTypeOK, NEW c \in Conns, Unregister(c)
  PROVE  /\ task[c].pc = "idle" /\ task[c].kind = "message"
         /\ \/ task'[c].pc = "leaveAll" /\ task'[c].kind = "leave"
            \/ task'[c].pc = "closed" /\ task'[c].kind = "snapshot"
         /\ task'[c].todo = {} /\ ~Registered(c)'
         /\ joined' = [joined EXCEPT ![c] = {}]
         /\ UNCHANGED <<calls, live, members, lastRoster, lastPresence, rosterCrossed, presenceCrossed, untold, alone>>
<1>1. /\ task[c].pc = "idle" /\ task[c].kind = "message"
      /\ task'[c] = Idle("leaveAll", "leave") \/ task'[c] = Closed
      /\ joined' = [joined EXCEPT ![c] = {}]
      /\ UNCHANGED <<calls, live, members, lastRoster, lastPresence, rosterCrossed, presenceCrossed, untold, alone>>
  BY DEF Unregister, Goto, HubTypeOK, WellPlaced, views, space, past, crossed
<1> QED BY <1>1 DEF Idle, Closed, Registered

LEMMA LeaveAllDoes ==
  ASSUME HubTypeOK, NEW c \in Conns, LeaveAll(c)
  PROVE  LET u == ConnUser[c]
         IN /\ task[c].pc = "leaveAll" /\ task[c].kind = "leave"
            /\ \A x \in Channels : calls'[x] = calls[x] \ {u} /\ live'[x] = live[x] \ {u}
            /\ NewRosters(c, CallsOf(u)) /\ NewPresences(c, CallsOf(u))
            /\ UNCHANGED <<conns, joined, members, lastRoster, lastPresence, alone>>
            /\ \/ CallsOf(u) = {} /\ task'[c] = Closed
               \/ \E x \in CallsOf(u) :
                    /\ task'[c].pc = "roster" /\ task'[c].kind = "leave" /\ task'[c].ch = x
                    /\ task'[c].roster = calls'[x]
                    /\ \A e \in task'[c].todo : e.ch \in CallsOf(u) /\ e.roster = calls'[e.ch]
                    /\ \A y \in CallsOf(u) : y = x \/ \E e \in task'[c].todo : e.ch = y
<1> DEFINE u == ConnUser[c]
           todo == {[ch |-> ch, roster |-> calls[ch] \ {u}] : ch \in CallsOf(u)}
<1>1. /\ task[c].pc = "leaveAll" /\ task[c].kind = "leave" /\ Proceed(c, "leave", todo)
      /\ calls' = [ch \in Channels |-> calls[ch] \ {u}]
      /\ live' = [ch \in Channels |-> live[ch] \ {u}]
      /\ NewRosters(c, CallsOf(u)) /\ NewPresences(c, CallsOf(u))
      /\ UNCHANGED <<conns, joined, members, lastRoster, lastPresence, alone>>
  BY DEF LeaveAll, HubTypeOK, WellPlaced, views, space
<1>2. \A x \in CallsOf(u) : x \in Channels /\ [ch |-> x, roster |-> calls[x] \ {u}] \in todo
  BY DEF CallsOf
<1>3. \A e \in todo : e.ch \in CallsOf(u) /\ e.roster = calls[e.ch] \ {u}
  OBVIOUS
<1>7. \A x \in Channels : calls'[x] = calls[x] \ {u} /\ live'[x] = live[x] \ {u}
  BY <1>1
<1>4. todo = {} => CallsOf(u) = {}
  BY <1>2
<1>5. \A e \in todo : e.ch \in CallsOf(u) /\ e.roster = calls'[e.ch]
  BY <1>1, <1>2, <1>3
<1> HIDE DEF todo
<1>6. ASSUME NEW e \in todo, task'[c].pc = "roster", task'[c].kind = "leave", task'[c].ch = e.ch,
             task'[c].roster = e.roster, task'[c].todo = todo \ {e}
      PROVE  \E x \in CallsOf(u) :
               /\ task'[c].pc = "roster" /\ task'[c].kind = "leave" /\ task'[c].ch = x
               /\ task'[c].roster = calls'[x]
               /\ \A f \in task'[c].todo : f.ch \in CallsOf(u) /\ f.roster = calls'[f.ch]
               /\ \A y \in CallsOf(u) : y = x \/ \E f \in task'[c].todo : f.ch = y
  <2>1. ASSUME NEW y \in CallsOf(u), y # e.ch PROVE \E f \in task'[c].todo : f.ch = y
    <3> DEFINE f == [ch |-> y, roster |-> calls[y] \ {u}]
    <3>1. f \in todo /\ f.ch = y
      BY <1>2
    <3> HIDE DEF f
    <3> QED BY <1>6, <2>1, <3>1
  <2> QED BY <1>5, <1>6, <2>1
<1> QED BY <1>1, <1>4, <1>6, <1>7, ProceedTask DEF Kinds

LEMMA SendRosterDoes ==
  ASSUME HubTypeOK, NEW c \in Conns, SendRoster(c)
  PROVE  \E ch \in Channels :
           /\ task[c].pc = "roster" /\ task[c].ch = ch
           /\ task'[c].pc = "members" /\ task'[c].ch = ch
           /\ task'[c].kind = task[c].kind /\ task'[c].todo = task[c].todo
           /\ UNCHANGED <<conns, calls, live, joined, members, lastPresence, rosterCrossed, presenceCrossed,
                          untold, alone>>
           /\ \A d \in Conns : lastRoster'[d] = IF d \in ConnsOf(task[c].roster)
                                                  THEN [lastRoster[d] EXCEPT ![ch] = task[c].roster]
                                                  ELSE lastRoster[d]
<1> DEFINE t == [task[c] EXCEPT !.pc = "members", !.roster = {}]
<1>1. PICK ch \in Channels : ch = task[c].ch
  BY DEF SendRoster, HubTypeOK, WellPlaced
<1>2. /\ task[c].pc = "roster" /\ task'[c] = t
      /\ UNCHANGED <<conns, calls, live, joined, members, lastPresence, rosterCrossed, presenceCrossed,
                     untold, alone>>
      /\ \A d \in Conns : lastRoster'[d] = IF d \in ConnsOf(task[c].roster)
                                             THEN [lastRoster[d] EXCEPT ![ch] = task[c].roster]
                                             ELSE lastRoster[d]
  BY <1>1 DEF SendRoster, Goto, HubTypeOK, hub, space, past, crossed
<1>3. t.pc = "members" /\ t.ch = task[c].ch /\ t.kind = task[c].kind /\ t.todo = task[c].todo
  BY TaskFields DEF Task
<1> HIDE DEF t
<1> QED BY <1>1, <1>2, <1>3

LEMMA ReadMembersDoes ==
  ASSUME HubTypeOK, NEW c \in Conns, ReadMembers(c)
  PROVE  /\ task[c].pc = "members" /\ task'[c].pc = "presence" /\ task'[c].audience = members
         /\ task'[c].ch = task[c].ch /\ task'[c].kind = task[c].kind /\ task'[c].todo = task[c].todo
         /\ UNCHANGED <<conns, calls, live, joined, members, lastRoster, lastPresence, rosterCrossed,
                        presenceCrossed, untold, alone>>
<1> DEFINE t == [task[c] EXCEPT !.pc = "presence", !.audience = members]
<1>1. /\ task[c].pc = "members" /\ task'[c] = t
      /\ UNCHANGED <<conns, calls, live, joined, members, lastRoster, lastPresence, rosterCrossed,
                     presenceCrossed, untold, alone>>
  BY DEF ReadMembers, Goto, HubTypeOK, hub, views, space, past, crossed
<1>2. /\ t.pc = "presence" /\ t.audience = members
      /\ t.ch = task[c].ch /\ t.kind = task[c].kind /\ t.todo = task[c].todo
  BY TaskFields DEF Task
<1> HIDE DEF t
<1> QED BY <1>1, <1>2

LEMMA ReadPresenceDoes ==
  ASSUME HubTypeOK, NEW c \in Conns, ReadPresence(c)
  PROVE  /\ task[c].pc = "presence" /\ task'[c].pc = "send" /\ task'[c].audience = task[c].audience
         /\ task'[c].ch = task[c].ch /\ task'[c].kind = task[c].kind /\ task'[c].todo = task[c].todo
         /\ task'[c].seen = [parts |-> calls[task[c].ch], live |-> live[task[c].ch]]
         /\ UNCHANGED <<conns, calls, live, joined, members, lastRoster, lastPresence, rosterCrossed,
                        presenceCrossed, untold, alone>>
<1> DEFINE seen == [parts |-> calls[task[c].ch], live |-> live[task[c].ch]]
           t == [task[c] EXCEPT !.pc = "send", !.seen = seen]
<1>1. /\ task[c].pc = "presence" /\ task'[c] = t
      /\ UNCHANGED <<conns, calls, live, joined, members, lastRoster, lastPresence, rosterCrossed,
                     presenceCrossed, untold, alone>>
  BY DEF ReadPresence, Goto, HubTypeOK, hub, views, space, past, crossed
<1> HIDE DEF seen
<1>2. /\ t.pc = "send" /\ t.audience = task[c].audience /\ t.seen = seen
      /\ t.ch = task[c].ch /\ t.kind = task[c].kind /\ t.todo = task[c].todo
  BY TaskFields DEF Task
<1> HIDE DEF t
<1> QED BY <1>1, <1>2 DEF seen

LEMMA SendPresenceDoes ==
  ASSUME HubTypeOK, NEW c \in Conns, SendPresence(c)
  PROVE  /\ task[c].pc = "send" /\ task[c].ch \in Channels
         /\ UNCHANGED <<conns, calls, live, joined, members, lastRoster, rosterCrossed, presenceCrossed,
                        untold, alone>>
         /\ LET reached == IF task[c].kind = "snapshot"
                             THEN {c} \intersect ConnsOf({ConnUser[c]} \intersect task[c].audience)
                             ELSE ConnsOf(task[c].audience)
            IN \A d \in Conns : lastPresence'[d] = IF d \in reached
                                                     THEN [lastPresence[d] EXCEPT ![task[c].ch] = task[c].seen]
                                                     ELSE lastPresence[d]
         /\ \/ /\ task[c].todo = {}
               /\ task'[c] = (IF task[c].kind = "leave" THEN Closed ELSE Reading)
            \/ \E e \in task[c].todo :
                 /\ task'[c].pc = (IF task[c].kind = "leave" THEN "roster" ELSE "members")
                 /\ task'[c].kind = task[c].kind /\ task'[c].ch = e.ch /\ task'[c].roster = e.roster
                 /\ task'[c].todo = task[c].todo \ {e}
<1>1. /\ task[c].pc = "send" /\ Proceed(c, task[c].kind, task[c].todo)
      /\ UNCHANGED <<conns, calls, live, joined, members, lastRoster, rosterCrossed, presenceCrossed,
                     untold, alone>>
  BY DEF SendPresence, hub, space, past, crossed
<1>2. LET reached == IF task[c].kind = "snapshot"
                       THEN {c} \intersect ConnsOf({ConnUser[c]} \intersect task[c].audience)
                       ELSE ConnsOf(task[c].audience)
      IN \A d \in Conns : lastPresence'[d] = IF d \in reached
                                               THEN [lastPresence[d] EXCEPT ![task[c].ch] = task[c].seen]
                                               ELSE lastPresence[d]
  BY DEF SendPresence
<1>3. task[c].kind \in Kinds /\ task[c].ch \in Channels
  BY <1>1, TaskFields DEF WellPlaced
<1>4. \/ /\ task[c].todo = {}
         /\ task'[c] = (IF task[c].kind = "leave" THEN Closed ELSE Reading)
      \/ \E e \in task[c].todo :
           /\ task'[c].pc = (IF task[c].kind = "leave" THEN "roster" ELSE "members")
           /\ task'[c].kind = task[c].kind /\ task'[c].ch = e.ch /\ task'[c].roster = e.roster
           /\ task'[c].todo = task[c].todo \ {e}
  BY <1>1, <1>3, ProceedTask
<1> QED BY <1>1, <1>2, <1>3, <1>4

\* Memberships change in the database only.
LEMMA MembersDo ==
  ASSUME HubTypeOK, NEW u \in Users, AcceptInvite(u) \/ RemoveMember(u)
  PROVE  /\ UNCHANGED <<task, conns, calls, live, joined, lastRoster, lastPresence, rosterCrossed,
                        presenceCrossed, alone>>
         /\ \/ members' = members \union {u} /\ untold' = untold \union (conns[u] \X Channels)
            \/ members' = members \ {u} /\ untold' = untold
  BY DEF AcceptInvite, RemoveMember, hub, views, past, crossed

\* What the history says of a channel that has not crossed.
LEMMA NotCrossed ==
  ASSUME HubTypeOK, NEW c \in Conns, NEW chs \in SUBSET Channels, NEW ch \in Channels
  PROVE  /\ NewRosters(c, chs) /\ ch \notin rosterCrossed' =>
              IF ch \in chs THEN \A d \in Conns : d # c => ~OwesRoster(d, ch) ELSE ch \notin rosterCrossed
         /\ NewPresences(c, chs) /\ ch \notin presenceCrossed' =>
              IF ch \in chs THEN \A d \in Conns : d # c => ~SendsPresence(d, ch)
              ELSE /\ ch \notin presenceCrossed
                   /\ \A d \in Conns : <<d, ch>> \in untold => <<d, ch>> \in untold'
  BY DEF HubTypeOK, NewRosters, NewPresences, Crossings

-----------------------------------------------------------------------------
(* Rosters.                                                                  *)

LEMMA TasksStep == HubTypeOK /\ HubTypeOK' /\ TasksOK /\ [HubNext]_hubVars => TasksOK'
<1> SUFFICES ASSUME HubTypeOK, HubTypeOK', TasksOK, [HubNext]_hubVars PROVE TasksOK'
  OBVIOUS
<1> USE HubAssumption
\* A step of one task that joins nothing, or that joins as an open connection.
<1>1. ASSUME NEW c \in Conns, Arrival(c) \/ Handler(c),
             \A d \in Conns : d # c => joined'[d] = joined[d],
             joined'[c] # {} => Registered(c)',
             task'[c].pc \in {"closed", "idle", "list", "join", "leaveAll"} => task'[c].todo = {}
      PROVE  TasksOK'
  <2>1. \A d \in Conns : d # c => task'[d] = task[d]
    BY <1>1, OthersSame
  <2> QED BY <1>1, <2>1 DEF TasksOK, Registered
<1>2. ASSUME NEW c \in Conns, Register(c) PROVE TasksOK'
  BY <1>1, <1>2, RegisterDoes DEF Arrival, Registered
<1>3. ASSUME NEW c \in Conns, ListCalls(c) PROVE TasksOK'
  <2>1. task'[c].pc \in {"idle", "members"} /\ task'[c].kind # "leave" /\ joined' = joined
    BY <1>3, ListDoes DEF Reading, Idle
  <2>2. task'[c].pc = "idle" => task'[c].todo = {}
    BY <1>3, ListDoes DEF Reading, Idle
  <2> QED BY <1>1, <1>3, <2>1, <2>2 DEF Handler, Registered
<1>4. ASSUME NEW c \in Conns, NEW ch \in Channels, RecvJoin(c, ch) PROVE TasksOK'
  <2>1. \A d \in Conns : d # c => joined'[d] = joined[d]
    BY <1>4, RecvJoinDoes
  <2> QED BY <1>1, <1>4, <2>1, RecvJoinDoes DEF Arrival, Registered
<1>5. ASSUME NEW c \in Conns, CallJoin(c) PROVE TasksOK'
  <2>1. task'[c].pc = "roster" /\ task'[c].kind = "message" /\ joined' = joined
    BY <1>5, CallJoinDoes
  <2> QED BY <1>1, <1>5, <2>1 DEF Handler, Registered
<1>6. ASSUME NEW c \in Conns, NEW ch \in Channels, RecvLeave(c, ch) PROVE TasksOK'
  <2>1. /\ \A d \in Conns : d # c => joined'[d] = joined[d]
        /\ task'[c].pc # "closed" /\ task'[c].kind = "message"
    BY <1>6, RecvLeaveDrops, RecvLeaveTells
  <2>2. task'[c].pc \in {"closed", "idle", "list", "join", "leaveAll"} => task'[c].todo = {}
    BY <1>6, RecvLeaveDrops, RecvLeaveTells DEF TasksOK
  <2> QED BY <1>1, <1>6, <2>1, <2>2 DEF Arrival, Registered
<1>7. ASSUME NEW c \in Conns, NEW ch \in Channels, NEW streaming \in BOOLEAN, RecvStreaming(c, ch, streaming)
      PROVE TasksOK'
  BY <1>1, <1>7, RecvStreamingDoes DEF Arrival, Registered
<1>8. ASSUME NEW c \in Conns, Unregister(c) PROVE TasksOK'
  <2>1. \A d \in Conns : d # c => joined'[d] = joined[d]
    BY <1>8, UnregisterDoes DEF HubTypeOK
  <2>2. joined'[c] = {}
    BY <1>8, UnregisterDoes DEF HubTypeOK
  <2> QED BY <1>1, <1>8, <2>1, <2>2, UnregisterDoes DEF Arrival
<1>9. ASSUME NEW c \in Conns, LeaveAll(c) PROVE TasksOK'
  <2>1. task[c].kind = "leave" /\ joined' = joined
    BY <1>9, LeaveAllDoes
  <2>2. joined'[c] = {}
    BY <2>1 DEF TasksOK, Registered
  <2>3. task'[c].pc \in {"closed", "roster"} /\ (task'[c].pc = "closed" => task'[c].todo = {})
    BY <1>9, LeaveAllDoes DEF Closed, Idle
  <2> QED BY <1>1, <1>9, <2>1, <2>2, <2>3 DEF Handler
<1>10. ASSUME NEW c \in Conns, SendRoster(c) \/ ReadMembers(c) \/ ReadPresence(c) PROVE TasksOK'
  <2>1. /\ task[c].pc \in {"roster", "members", "presence"}
        /\ task'[c].pc \in {"members", "presence", "send"} /\ task'[c].kind = task[c].kind /\ joined' = joined
    BY <1>10, SendRosterDoes, ReadMembersDoes, ReadPresenceDoes
  <2>2. joined'[c] # {} => Registered(c)'
    BY <2>1 DEF TasksOK, Registered
  <2> QED BY <1>1, <1>10, <2>1, <2>2 DEF Handler
<1>11. ASSUME NEW c \in Conns, SendPresence(c) PROVE TasksOK'
  <2>0. /\ task[c].pc = "send" /\ joined' = joined
        /\ \/ task'[c] = (IF task[c].kind = "leave" THEN Closed ELSE Reading)
           \/ task'[c].pc = (IF task[c].kind = "leave" THEN "roster" ELSE "members") /\ task'[c].kind = task[c].kind
    BY <1>11, SendPresenceDoes
  <2>1. /\ task[c].kind # "leave" => task'[c].pc \in {"idle", "members"} /\ task'[c].kind # "leave"
        /\ task'[c].pc \in {"closed", "idle", "list", "join", "leaveAll"} => task'[c].todo = {}
    BY <2>0 DEF Closed, Reading, Idle
  <2>2. joined'[c] # {} => Registered(c)'
    BY <2>0, <2>1 DEF TasksOK, Registered
  <2> QED BY <1>1, <1>11, <2>0, <2>1, <2>2 DEF Handler
<1>12. ASSUME UNCHANGED <<task, joined>> PROVE TasksOK'
  BY <1>12 DEF TasksOK, Registered
<1>13. ASSUME NEW u \in Users, AcceptInvite(u) \/ RemoveMember(u) PROVE TasksOK'
  BY <1>12, <1>13, MembersDo
<1>14. CASE UNCHANGED hubVars
  BY <1>12, <1>14 DEF hubVars
<1> QED
  BY <1>2, <1>3, <1>4, <1>5, <1>6, <1>7, <1>8, <1>9, <1>10, <1>11, <1>13, <1>14 DEF HubNext, Arrival, Handler

\* A step of one task keeps a channel told: it makes a new roster while nobody
\* else has one to send, or it leaves the roster as it is.
LEMMA RosterKeeps ==
  ASSUME RosterInv, NEW c \in Conns, NEW ch \in Channels,
         \A d \in Conns : d # c => task'[d] = task[d],
         \/ /\ \A d \in Conns : d # c => ~OwesRoster(d, ch)
            /\ OwesRoster(c, ch)' /\ Carried(task[c], ch)'
         \/ /\ ch \notin rosterCrossed /\ calls'[ch] = calls[ch]
            /\ OwesRoster(c, ch)' => OwesRoster(c, ch)
            /\ Carried(task[c], ch) => Carried(task[c], ch)'
            /\ \/ RosterKnown(ch)' \/ OwesRoster(c, ch)'
               \/ ~OwesRoster(c, ch) /\ (RosterKnown(ch) => RosterKnown(ch)')
  PROVE  RosterTold(ch)'
<1>1. \A d \in Conns : d # c => (OwesRoster(d, ch)' <=> OwesRoster(d, ch))
  BY DEF OwesRoster
<1>2. CASE /\ \A d \in Conns : d # c => ~OwesRoster(d, ch)
           /\ OwesRoster(c, ch)' /\ Carried(task[c], ch)'
  <2>1. \A d \in Conns : d # c => Carried(task[d], ch)'
    BY <1>2 DEF Carried, OwesRoster
  <2> QED BY <1>1, <1>2, <2>1 DEF RosterTold
<1>3. CASE /\ ch \notin rosterCrossed /\ calls'[ch] = calls[ch]
           /\ OwesRoster(c, ch)' => OwesRoster(c, ch)
           /\ Carried(task[c], ch) => Carried(task[c], ch)'
           /\ \/ RosterKnown(ch)' \/ OwesRoster(c, ch)'
              \/ ~OwesRoster(c, ch) /\ (RosterKnown(ch) => RosterKnown(ch)')
  <2>1. RosterTold(ch)
    BY <1>3 DEF RosterInv
  <2>2. \A d \in Conns : Carried(task[d], ch)'
    <3>1. \A d \in Conns : d # c => Carried(task[d], ch)'
      BY <1>3, <2>1 DEF RosterTold, Carried
    <3> QED BY <1>3, <2>1, <3>1 DEF RosterTold
  <2>3. \A b, d \in Conns : OwesRoster(b, ch)' /\ OwesRoster(d, ch)' => b = d
    BY <1>1, <1>3, <2>1 DEF RosterTold
  <2>4. RosterKnown(ch)' \/ \E b \in Conns : OwesRoster(b, ch)'
    BY <1>1, <1>3, <2>1 DEF RosterTold
  <2> QED BY <2>2, <2>3, <2>4 DEF RosterTold
<1> QED BY <1>2, <1>3

\* A step that touches no roster and none of the rosters to send.
LEMMA RosterSame ==
  ASSUME HubTypeOK, RosterInv, NEW c \in Conns, Arrival(c) \/ Handler(c),
         UNCHANGED <<calls, rosterCrossed>>,
         \A ch \in Channels : /\ OwesRoster(c, ch)' <=> OwesRoster(c, ch)
                              /\ Carried(task[c], ch) => Carried(task[c], ch)'
                              /\ RosterKnown(ch) => RosterKnown(ch)'
  PROVE  RosterInv'
<1>1. \A d \in Conns : d # c => task'[d] = task[d]
  BY OthersSame
<1> SUFFICES ASSUME NEW ch \in Channels, ch \notin rosterCrossed PROVE RosterTold(ch)'
  BY DEF RosterInv
<1> QED BY <1>1, RosterKeeps

LEMMA RosterFreshStep ==
  HubTypeOK /\ HubTypeOK' /\ HubInv /\ TasksOK /\ RosterInv /\ [HubNext]_hubVars => RosterInv'
<1> SUFFICES ASSUME HubTypeOK, HubTypeOK', HubInv, TasksOK, RosterInv, [HubNext]_hubVars PROVE RosterInv'
  OBVIOUS
<1> USE HubAssumption
<1>1. ASSUME NEW c \in Conns, Arrival(c) \/ Handler(c) PROVE \A d \in Conns : d # c => task'[d] = task[d]
  BY <1>1, OthersSame
\* What is known stays known where nobody joins and nobody is told otherwise.
<1>2. ASSUME NEW c \in Conns, \A d \in Conns : d # c => task'[d] = task[d], NEW ch \in Channels,
             calls'[ch] = calls[ch], \A d \in Conns : joined'[d] \subseteq joined[d],
             \A d \in Conns : ch \in joined[d] => lastRoster'[d][ch] = lastRoster[d][ch],
             task[c].pc # "join" \/ task[c].ch # ch
      PROVE  RosterKnown(ch) => RosterKnown(ch)'
  BY <1>2 DEF RosterKnown
<1>3. ASSUME NEW c \in Conns, Register(c) PROVE RosterInv'
  <2>1. \A ch \in Channels : ~OwesRoster(c, ch) /\ ~OwesRoster(c, ch)' /\ Carried(task[c], ch)'
    BY <1>3, RegisterDoes DEF OwesRoster, Carried
  <2>2. joined[c] = {}
    BY <1>3, RegisterDoes DEF TasksOK
  <2>3. \A ch \in Channels : RosterKnown(ch) => RosterKnown(ch)'
    BY <1>1, <1>2, <1>3, <2>2, RegisterDoes DEF Arrival
  <2> QED BY <1>3, <2>1, <2>3, RosterSame, RegisterDoes DEF Arrival
<1>4. ASSUME NEW c \in Conns, ListCalls(c) PROVE RosterInv'
  <2>1. task[c].pc = "list" /\ task[c].kind = "snapshot" /\ task'[c].pc \in {"idle", "members"} /\ task'[c].kind # "leave"
        /\ UNCHANGED <<calls, joined, lastRoster, rosterCrossed>>
    BY <1>4, ListDoes DEF Reading, Idle
  <2>2. \A ch \in Channels : ~OwesRoster(c, ch) /\ ~OwesRoster(c, ch)' /\ Carried(task[c], ch)'
    BY <2>1 DEF OwesRoster, Carried
  <2>3. \A ch \in Channels : RosterKnown(ch) => RosterKnown(ch)'
    BY <1>1, <1>2, <1>4, <2>1 DEF Handler
  <2> QED BY <1>4, <2>1, <2>2, <2>3, RosterSame DEF Handler
<1>5. ASSUME NEW c \in Conns, NEW ch \in Channels, RecvJoin(c, ch) PROVE RosterInv'
  <2>1. \A x \in Channels : ~OwesRoster(c, x) /\ ~OwesRoster(c, x)' /\ Carried(task[c], x)'
    BY <1>5, RecvJoinDoes DEF OwesRoster, Carried
  <2>2. ASSUME NEW x \in Channels, RosterKnown(x) PROVE RosterKnown(x)'
    <3>1. ASSUME NEW d \in Conns, x \in joined'[d], ~(task'[d].pc = "join" /\ task'[d].ch = x)
          PROVE  x \in joined[d] /\ ~(task[d].pc = "join" /\ task[d].ch = x)
      BY <1>1, <1>5, <3>1, RecvJoinDoes DEF Arrival
    <3> QED BY <1>5, <2>2, <3>1, RecvJoinDoes DEF RosterKnown
  <2> QED BY <1>5, <2>1, <2>2, RosterSame, RecvJoinDoes DEF Arrival
\* The new roster of one channel, to be sent by this task.
<1>6. ASSUME NEW c \in Conns, NEW ch \in Channels, Arrival(c) \/ Handler(c), NewRosters(c, {ch}),
             task[c].pc \in {"idle", "join"}, task[c].kind = "message", task[c].pc = "join" => task[c].ch = ch,
             task'[c].pc = "roster", task'[c].kind = "message", task'[c].ch = ch, task'[c].roster = calls'[ch],
             \A x \in Channels : x # ch => calls'[x] = calls[x],
             \A d \in Conns : joined'[d] \subseteq joined[d], lastRoster' = lastRoster
      PROVE  RosterInv'
  <2> SUFFICES ASSUME NEW x \in Channels, x \notin rosterCrossed' PROVE RosterTold(x)'
    BY DEF RosterInv
  <2>1. {ch} \in SUBSET Channels
    OBVIOUS
  <2>2. CASE x = ch
    <3>1. \A d \in Conns : d # c => ~OwesRoster(d, ch)
      BY <1>6, <2>1, <2>2, NotCrossed
    <3>2. OwesRoster(c, ch)' /\ Carried(task[c], ch)'
      BY <1>6 DEF OwesRoster, Carried
    <3> QED BY <1>1, <1>6, <2>2, <3>1, <3>2, RosterKeeps
  <2>3. CASE x # ch
    <3>1. x \notin rosterCrossed
      BY <1>6, <2>1, <2>3, NotCrossed
    <3>2. ~OwesRoster(c, x) /\ ~OwesRoster(c, x)' /\ Carried(task[c], x)'
      BY <1>6, <2>3 DEF OwesRoster, Carried
    <3>3. RosterKnown(x) => RosterKnown(x)'
      BY <1>1, <1>2, <1>6, <2>3
    <3> QED BY <1>1, <1>6, <2>3, <3>1, <3>2, <3>3, RosterKeeps
  <2> QED BY <2>2, <2>3
<1>7. ASSUME NEW c \in Conns, CallJoin(c) PROVE RosterInv'
  <2>1. PICK ch \in Channels :
           /\ task[c].pc = "join" /\ task[c].kind = "message" /\ task[c].ch = ch
           /\ task'[c].pc = "roster" /\ task'[c].kind = "message" /\ task'[c].ch = ch
           /\ task'[c].roster = calls'[ch]
           /\ calls' = [calls EXCEPT ![ch] = @ \union {ConnUser[c]}]
           /\ NewRosters(c, {ch}) /\ UNCHANGED <<joined, lastRoster>>
    BY <1>7, CallJoinDoes
  <2> QED BY <1>6, <1>7, <2>1 DEF Handler, HubTypeOK
<1>8. ASSUME NEW c \in Conns, NEW ch \in Channels, RecvLeave(c, ch) PROVE RosterInv'
  <2>1. \A d \in Conns : joined'[d] \subseteq joined[d]
    <3>1. joined'[c] = joined[c] \ {ch} /\ \A d \in Conns : d # c => joined'[d] = joined[d]
      BY <1>8, RecvLeaveDrops
    <3> QED BY <3>1
  <2>2. calls'[ch] = calls[ch] \ {ConnUser[c]} /\ \A x \in Channels : x # ch => calls'[x] = calls[x]
    BY <1>8, RecvLeaveDrops
  <2>3. CASE ConnUser[c] \in calls[ch]
    <3>1. /\ task[c].pc = "idle" /\ task[c].kind = "message" /\ NewRosters(c, {ch}) /\ lastRoster' = lastRoster
          /\ task'[c].pc = "roster" /\ task'[c].kind = "message" /\ task'[c].ch = ch /\ task'[c].roster = calls'[ch]
      BY <1>8, <2>3, RecvLeaveDrops, RecvLeaveTells
    <3> QED BY <1>6, <1>8, <2>1, <2>2, <3>1 DEF Arrival
  <2>4. CASE ConnUser[c] \notin calls[ch]
    <3>1. UNCHANGED <<task, lastRoster>> /\ NewRosters(c, {}) /\ task[c].pc = "idle"
      BY <1>8, <2>4, RecvLeaveDrops, RecvLeaveTells
    <3>2. rosterCrossed' = rosterCrossed
      BY <3>1 DEF NewRosters, Crossings
    <3>3. calls'[ch] = calls[ch]
      BY <2>2, <2>4
    <3>4. \A x \in Channels : calls'[x] = calls[x]
      BY <2>2, <3>3
    <3>5. \A x \in Channels : /\ OwesRoster(c, x)' <=> OwesRoster(c, x)
                              /\ Carried(task[c], x) => Carried(task[c], x)'
      BY <3>1, <3>4 DEF OwesRoster, Carried, HubTypeOK, Task, Todo
    <3>6. \A x \in Channels : RosterKnown(x) => RosterKnown(x)'
      BY <1>2, <2>1, <3>1, <3>4
    <3>7. calls' = calls
      BY <3>4 DEF HubTypeOK
    <3> QED BY <1>8, <3>2, <3>5, <3>6, <3>7, RosterSame DEF Arrival
  <2> QED BY <2>3, <2>4
<1>9. ASSUME NEW c \in Conns, NEW ch \in Channels, NEW streaming \in BOOLEAN, RecvStreaming(c, ch, streaming)
      PROVE RosterInv'
  <2>1. \A x \in Channels : ~OwesRoster(c, x) /\ ~OwesRoster(c, x)' /\ Carried(task[c], x)'
    BY <1>9, RecvStreamingDoes DEF OwesRoster, Carried
  <2>2. \A x \in Channels : RosterKnown(x) => RosterKnown(x)'
    BY <1>1, <1>2, <1>9, RecvStreamingDoes DEF Arrival
  <2> QED BY <1>9, <2>1, <2>2, RosterSame, RecvStreamingDoes DEF Arrival
<1>10. ASSUME NEW c \in Conns, Unregister(c) PROVE RosterInv'
  <2>1. \A x \in Channels : ~OwesRoster(c, x) /\ ~OwesRoster(c, x)' /\ Carried(task[c], x)'
    BY <1>10, UnregisterDoes DEF OwesRoster, Carried
  <2>2. \A d \in Conns : joined'[d] \subseteq joined[d]
    BY <1>10, UnregisterDoes DEF HubTypeOK
  <2>3. \A x \in Channels : RosterKnown(x) => RosterKnown(x)'
    BY <1>1, <1>2, <1>10, <2>2, UnregisterDoes DEF Arrival
  <2> QED BY <1>10, <2>1, <2>3, RosterSame, UnregisterDoes DEF Arrival
<1>11. ASSUME NEW c \in Conns, LeaveAll(c) PROVE RosterInv'
  <2> DEFINE u == ConnUser[c]
             left == CallsOf(u)
  <2>1. left \in SUBSET Channels /\ \A x \in Channels : x \in left <=> u \in calls[x]
    BY DEF CallsOf
  <2>2. /\ task[c].pc = "leaveAll" /\ task[c].kind = "leave" /\ NewRosters(c, left)
        /\ \A x \in Channels : calls'[x] = calls[x] \ {u}
        /\ UNCHANGED <<joined, lastRoster>>
        /\ \/ left = {} /\ task'[c] = Closed
           \/ \E x \in left :
                /\ task'[c].pc = "roster" /\ task'[c].kind = "leave" /\ task'[c].ch = x
                /\ task'[c].roster = calls'[x]
                /\ \A e \in task'[c].todo : e.ch \in left /\ e.roster = calls'[e.ch]
                /\ \A y \in left : y = x \/ \E e \in task'[c].todo : e.ch = y
    BY <1>11, LeaveAllDoes
  <2> HIDE DEF left
  <2>3. \A x : ~OwesRoster(c, x)
    BY <2>2 DEF TasksOK, OwesRoster
  <2>4. \A x \in Channels : (OwesRoster(c, x)' <=> x \in left) /\ Carried(task[c], x)'
    <3>1. CASE left = {} /\ task'[c] = Closed
      BY <3>1 DEF OwesRoster, Carried, Closed, Idle
    <3>2. ASSUME NEW y \in left, task'[c].pc = "roster", task'[c].kind = "leave", task'[c].ch = y,
                 task'[c].roster = calls'[y],
                 \A e \in task'[c].todo : e.ch \in left /\ e.roster = calls'[e.ch],
                 \A z \in left : z = y \/ \E e \in task'[c].todo : e.ch = z
          PROVE  \A x \in Channels : (OwesRoster(c, x)' <=> x \in left) /\ Carried(task[c], x)'
      BY <3>2 DEF OwesRoster, Carried
    <3> QED BY <2>2, <3>1, <3>2
  <2> SUFFICES ASSUME NEW x \in Channels, x \notin rosterCrossed' PROVE RosterTold(x)'
    BY DEF RosterInv
  <2>5. CASE x \in left
    <3>1. \A d \in Conns : d # c => ~OwesRoster(d, x)
      BY <2>1, <2>2, <2>5, NotCrossed
    <3> QED BY <1>1, <1>11, <2>4, <2>5, <3>1, RosterKeeps DEF Handler
  <2>6. CASE x \notin left
    <3>1. x \notin rosterCrossed
      BY <2>1, <2>2, <2>6, NotCrossed
    <3>2. calls'[x] = calls[x]
      <4>1. u \notin calls[x] /\ calls'[x] = calls[x] \ {u}
        BY <2>1, <2>2, <2>6
      <4> QED BY <4>1
    <3>3. RosterKnown(x) => RosterKnown(x)'
      BY <1>1, <1>2, <1>11, <2>2, <3>2 DEF Handler
    <3> QED BY <1>1, <1>11, <2>3, <2>4, <2>6, <3>1, <3>2, <3>3, RosterKeeps DEF Handler
  <2> QED BY <2>5, <2>6
<1>12. ASSUME NEW c \in Conns, SendRoster(c) PROVE RosterInv'
  <2>1. PICK ch \in Channels :
           /\ task[c].pc = "roster" /\ task[c].ch = ch
           /\ task'[c].pc = "members" /\ task'[c].ch = ch
           /\ task'[c].kind = task[c].kind /\ task'[c].todo = task[c].todo
           /\ UNCHANGED <<conns, calls, joined, rosterCrossed>>
           /\ \A d \in Conns : lastRoster'[d] = IF d \in ConnsOf(task[c].roster)
                                                  THEN [lastRoster[d] EXCEPT ![ch] = task[c].roster]
                                                  ELSE lastRoster[d]
    BY <1>12, SendRosterDoes
  <2> SUFFICES ASSUME NEW x \in Channels, x \notin rosterCrossed PROVE RosterTold(x)'
    BY <2>1 DEF RosterInv
  <2>2. /\ Carried(task[c], x) => Carried(task[c], x)'
        /\ OwesRoster(c, x)' => OwesRoster(c, x)
    BY <2>1 DEF Carried, OwesRoster
  <2>3. CASE x = ch
    <3>1. task[c].roster = calls[ch]
      BY <2>1, <2>3 DEF RosterInv, RosterTold, Carried
    <3>2. ASSUME NEW d \in Conns, ch \in joined[d], ConnUser[d] \in calls[ch]
          PROVE  lastRoster'[d][ch] = calls[ch]
      <4>1. d \in conns[ConnUser[d]]
        BY <3>2 DEF TasksOK, HubInv, ConnsMatchTasks
      <4>2. d \in ConnsOf(task[c].roster)
        BY <3>1, <3>2, <4>1 DEF ConnsOf
      <4> QED BY <2>1, <3>1, <4>2 DEF HubTypeOK
    <3>3. RosterKnown(x)'
      BY <2>1, <2>3, <3>2 DEF RosterKnown
    <3> QED BY <1>1, <1>12, <2>1, <2>2, <3>3, RosterKeeps DEF Handler
  <2>4. CASE x # ch
    <3>1. \A d \in Conns : lastRoster'[d][x] = lastRoster[d][x]
      BY <2>1, <2>4 DEF HubTypeOK
    <3>2. RosterKnown(x) => RosterKnown(x)'
      BY <1>1, <1>2, <1>12, <2>1, <3>1 DEF Handler
    <3>3. OwesRoster(c, x)' <=> OwesRoster(c, x)
      BY <2>1, <2>4 DEF OwesRoster
    <3> QED BY <1>1, <1>12, <2>1, <2>2, <3>2, <3>3, RosterKeeps DEF Handler
  <2> QED BY <2>3, <2>4
<1>13. ASSUME NEW c \in Conns, ReadMembers(c) \/ ReadPresence(c) PROVE RosterInv'
  <2>1. /\ task[c].pc \in {"members", "presence"} /\ task'[c].pc \in {"presence", "send"}
        /\ task'[c].kind = task[c].kind /\ task'[c].todo = task[c].todo
        /\ UNCHANGED <<calls, joined, lastRoster, rosterCrossed>>
    BY <1>13, ReadMembersDoes, ReadPresenceDoes
  <2>2. \A x \in Channels : /\ OwesRoster(c, x)' <=> OwesRoster(c, x)
                            /\ Carried(task[c], x) => Carried(task[c], x)'
    BY <2>1 DEF OwesRoster, Carried
  <2>3. \A x \in Channels : RosterKnown(x) => RosterKnown(x)'
    BY <1>1, <1>2, <1>13, <2>1 DEF Handler
  <2> QED BY <1>13, <2>1, <2>2, <2>3, RosterSame DEF Handler
<1>14. ASSUME NEW c \in Conns, SendPresence(c) PROVE RosterInv'
  <2>1. /\ task[c].pc = "send" /\ UNCHANGED <<calls, joined, lastRoster, rosterCrossed>>
        /\ \/ /\ task[c].todo = {}
              /\ task'[c] = (IF task[c].kind = "leave" THEN Closed ELSE Reading)
           \/ \E e \in task[c].todo :
                /\ task'[c].pc = (IF task[c].kind = "leave" THEN "roster" ELSE "members")
                /\ task'[c].kind = task[c].kind /\ task'[c].ch = e.ch /\ task'[c].roster = e.roster
                /\ task'[c].todo = task[c].todo \ {e}
    BY <1>14, SendPresenceDoes
  <2>2. \A x \in Channels : /\ OwesRoster(c, x)' <=> OwesRoster(c, x)
                            /\ Carried(task[c], x) => Carried(task[c], x)'
    <3>1. CASE task[c].todo = {} /\ task'[c] = (IF task[c].kind = "leave" THEN Closed ELSE Reading)
      BY <2>1, <3>1 DEF OwesRoster, Carried, Closed, Reading, Idle
    <3>2. ASSUME NEW e \in task[c].todo,
                 task'[c].pc = (IF task[c].kind = "leave" THEN "roster" ELSE "members"),
                 task'[c].kind = task[c].kind, task'[c].ch = e.ch, task'[c].roster = e.roster,
                 task'[c].todo = task[c].todo \ {e}
          PROVE  \A x \in Channels : /\ OwesRoster(c, x)' <=> OwesRoster(c, x)
                                     /\ Carried(task[c], x) => Carried(task[c], x)'
      <4>1. CASE task[c].kind = "leave"
        BY <2>1, <3>2, <4>1 DEF OwesRoster, Carried
      <4>2. CASE task[c].kind # "leave"
        BY <2>1, <3>2, <4>2 DEF OwesRoster, Carried
      <4> QED BY <4>1, <4>2
    <3> QED BY <2>1, <3>1, <3>2
  <2>3. \A x \in Channels : RosterKnown(x) => RosterKnown(x)'
    BY <1>1, <1>2, <1>14, <2>1 DEF Handler
  <2> QED BY <1>14, <2>1, <2>2, <2>3, RosterSame DEF Handler
<1>15. ASSUME UNCHANGED <<task, joined, calls, lastRoster, rosterCrossed>> PROVE RosterInv'
  BY <1>15 DEF RosterInv, RosterTold, RosterKnown, Carried, OwesRoster
<1>16. ASSUME NEW u \in Users, AcceptInvite(u) \/ RemoveMember(u) PROVE RosterInv'
  BY <1>15, <1>16, MembersDo
<1>17. CASE UNCHANGED hubVars
  BY <1>15, <1>17 DEF hubVars, hub, views, past, crossed
<1> QED
  BY <1>3, <1>4, <1>5, <1>7, <1>8, <1>9, <1>10, <1>11, <1>12, <1>13, <1>14, <1>16, <1>17
  DEF HubNext, Arrival, Handler

LEMMA RosterInit == HubInit => TasksOK /\ RosterInv
<1> SUFFICES ASSUME HubInit PROVE TasksOK /\ RosterInv
  OBVIOUS
<1>1. \A c \in Conns : task[c] = Closed /\ joined[c] = {}
  BY DEF HubInit, AtStart
<1>2. \A ch \in Channels : RosterKnown(ch)
  BY <1>1 DEF RosterKnown
<1>3. \A c \in Conns, ch \in Channels : ~OwesRoster(c, ch) /\ Carried(task[c], ch)
  BY <1>1 DEF OwesRoster, Carried, Closed, Idle
<1>4. TasksOK
  BY <1>1 DEF TasksOK, Closed, Idle
<1> QED BY <1>2, <1>3, <1>4 DEF RosterInv, RosterTold

\* For any number of worker threads and connections and any changes of membership:
\* when no handler runs, whoever is joined and on a roster was last sent that very
\* roster, of every channel whose rosters were sent in the order they were made.
THEOREM RosterFreshHolds == HubSpec => []RosterFresh
<1>1. HubTypeOK /\ TasksOK /\ RosterInv => RosterFresh
  <2> SUFFICES ASSUME HubTypeOK, TasksOK, RosterInv, Quiescent,
                      NEW c \in Conns, NEW ch \in joined[c] \ rosterCrossed, ConnUser[c] \in calls[ch]
               PROVE  lastRoster[c][ch] = calls[ch]
    BY DEF RosterFresh
  <2>1. \A b \in Conns : ~OwesRoster(b, ch) /\ task[b].pc # "join"
    BY DEF TasksOK, OwesRoster, Quiescent, Busy
  <2>2. ch \in Channels
    BY DEF HubTypeOK
  <2> QED BY <2>1, <2>2 DEF RosterInv, RosterTold, RosterKnown
<1> QED BY <1>1, RosterInit, TasksStep, RosterFreshStep, HubTypeCorrect, HubCorrect, PTL DEF HubSpec

-----------------------------------------------------------------------------
(***************************************************************************)
(* Presence: a broadcast owes every connection, a snapshot its own, and once  *)
(* the members are read, only theirs.                                        *)
(***************************************************************************)
Now(ch) == [parts |-> calls[ch], live |-> live[ch]]
PresenceKnown(c, ch) == lastPresence[c][ch] = Now(ch)

PresenceOwes(b, c, ch) ==
  /\ task[b].kind # "snapshot" \/ b = c
  /\ \/ task[b].pc = "list" /\ calls[ch] # {}
     \/ task[b].pc \in {"roster", "members"} /\ task[b].ch = ch
     \/ task[b].pc \in {"presence", "send"} /\ task[b].ch = ch /\ ConnUser[c] \in task[b].audience
     \/ \E e \in task[b].todo : e.ch = ch

PresenceTold(c, ch) == PresenceKnown(c, ch) \/ \E b \in Conns : PresenceOwes(b, c, ch)

PresenceInv ==
  \A ch \in Channels \ presenceCrossed :
    /\ \A b \in Conns : SendsPresence(b, ch) => task[b].seen = Now(ch)
    /\ \A c \in Conns : Registered(c) /\ ConnUser[c] \in members /\ <<c, ch>> \notin untold =>
         PresenceTold(c, ch)

\* A step of one task keeps presence told: it changes the presence of a channel
\* while nobody sends an older one and owes it to everybody, or it leaves the
\* presence as it is.
LEMMA PresenceKeeps ==
  ASSUME PresenceInv, NEW c \in Conns, \A d \in Conns : d # c => task'[d] = task[d], members' = members,
         \A ch \in Channels \ presenceCrossed' :
           \/ /\ \A d \in Conns : d # c => ~SendsPresence(d, ch)
              /\ ~SendsPresence(c, ch)' /\ \A d \in Conns : PresenceOwes(c, d, ch)'
           \/ /\ ch \notin presenceCrossed /\ calls'[ch] = calls[ch] /\ live'[ch] = live[ch]
              /\ SendsPresence(c, ch)' => task'[c].seen = Now(ch)
              /\ \A d \in Conns : Registered(d)' /\ ConnUser[d] \in members /\ <<d, ch>> \notin untold' =>
                   \/ PresenceKnown(d, ch)' \/ PresenceOwes(c, d, ch)'
                   \/ /\ Registered(d) /\ <<d, ch>> \notin untold
                      /\ PresenceKnown(d, ch) => PresenceKnown(d, ch)' \/ PresenceOwes(c, d, ch)'
                      /\ ~PresenceOwes(c, d, ch)
  PROVE  PresenceInv'
<1> SUFFICES ASSUME NEW ch \in Channels \ presenceCrossed'
             PROVE  /\ \A b \in Conns : SendsPresence(b, ch)' => task'[b].seen = Now(ch)'
                    /\ \A d \in Conns : Registered(d)' /\ ConnUser[d] \in members /\ <<d, ch>> \notin untold' =>
                         PresenceTold(d, ch)'
  BY DEF PresenceInv
<1>1. \A d \in Conns : d # c => (SendsPresence(d, ch)' <=> SendsPresence(d, ch))
  BY DEF SendsPresence
<1>2. CASE /\ \A d \in Conns : d # c => ~SendsPresence(d, ch)
           /\ ~SendsPresence(c, ch)' /\ \A d \in Conns : PresenceOwes(c, d, ch)'
  <2>1. \A b \in Conns : ~SendsPresence(b, ch)'
    BY <1>1, <1>2
  <2> QED BY <1>2, <2>1 DEF PresenceTold
<1>3. CASE /\ ch \notin presenceCrossed /\ calls'[ch] = calls[ch] /\ live'[ch] = live[ch]
           /\ SendsPresence(c, ch)' => task'[c].seen = Now(ch)
           /\ \A d \in Conns : Registered(d)' /\ ConnUser[d] \in members /\ <<d, ch>> \notin untold' =>
                \/ PresenceKnown(d, ch)' \/ PresenceOwes(c, d, ch)'
                \/ /\ Registered(d) /\ <<d, ch>> \notin untold
                   /\ PresenceKnown(d, ch) => PresenceKnown(d, ch)' \/ PresenceOwes(c, d, ch)'
                   /\ ~PresenceOwes(c, d, ch)
  <2>1. Now(ch)' = Now(ch)
    BY <1>3 DEF Now
  <2>2. \A b \in Conns : SendsPresence(b, ch)' => task'[b].seen = Now(ch)'
    BY <1>1, <1>3, <2>1 DEF PresenceInv
  <2>3. ASSUME NEW d \in Conns, Registered(d)', ConnUser[d] \in members, <<d, ch>> \notin untold'
        PROVE  PresenceTold(d, ch)'
    <3>1. CASE PresenceKnown(d, ch)' \/ PresenceOwes(c, d, ch)'
      BY <3>1 DEF PresenceTold
    <3>2. CASE /\ Registered(d) /\ <<d, ch>> \notin untold
               /\ PresenceKnown(d, ch) => PresenceKnown(d, ch)' \/ PresenceOwes(c, d, ch)'
               /\ ~PresenceOwes(c, d, ch)
      <4>1. PresenceTold(d, ch)
        BY <1>3, <2>3, <3>2 DEF PresenceInv
      <4>2. \A b \in Conns : b # c /\ PresenceOwes(b, d, ch) => PresenceOwes(b, d, ch)'
        BY <1>3 DEF PresenceOwes
      <4> QED BY <3>2, <4>1, <4>2 DEF PresenceTold
    <3> QED BY <1>3, <2>3, <3>1, <3>2
  <2> QED BY <2>2, <2>3
<1> QED BY <1>2, <1>3

\* A step that changes no presence and tells nobody anything.
LEMMA PresenceSame ==
  ASSUME HubTypeOK, PresenceInv, NEW c \in Conns, Arrival(c) \/ Handler(c),
         UNCHANGED <<calls, live, lastPresence, members, presenceCrossed, untold>>,
         Registered(c)' => Registered(c),
         \A ch \in Channels :
           /\ SendsPresence(c, ch)' /\ ch \notin presenceCrossed => task'[c].seen = Now(ch)
           /\ \A d \in Conns : Registered(d) /\ ConnUser[d] \in members /\ PresenceOwes(c, d, ch) =>
                PresenceOwes(c, d, ch)'
  PROVE  PresenceInv'
<1>1. \A d \in Conns : d # c => task'[d] = task[d]
  BY OthersSame
<1>2. \A d \in Conns : Registered(d)' => Registered(d)
  BY <1>1 DEF Registered
<1>3. \A d \in Conns, ch \in Channels : PresenceKnown(d, ch)' <=> PresenceKnown(d, ch)
  BY DEF PresenceKnown, Now
<1> QED BY <1>1, <1>2, <1>3, PresenceKeeps

\* A step that changes the presence of a set of channels and owes it to everybody.
LEMMA PresenceNew ==
  ASSUME HubTypeOK, PresenceInv, NEW c \in Conns, Arrival(c) \/ Handler(c), NEW chs \in SUBSET Channels,
         NewPresences(c, chs), UNCHANGED <<lastPresence, members>>,
         \A ch \in Channels \ chs : calls'[ch] = calls[ch] /\ live'[ch] = live[ch],
         Registered(c)' => Registered(c), task'[c].pc # "send",
         \A ch \in Channels \ chs, d \in Conns : ~PresenceOwes(c, d, ch),
         \A ch \in chs, d \in Conns : PresenceOwes(c, d, ch)'
  PROVE  PresenceInv'
<1>1. \A d \in Conns : d # c => task'[d] = task[d]
  BY OthersSame
<1>2. \A d \in Conns : Registered(d)' => Registered(d)
  BY <1>1 DEF Registered
<1>3. \A ch \in Channels : ~SendsPresence(c, ch)'
  BY DEF SendsPresence
<1>4. ASSUME NEW ch \in Channels \ presenceCrossed', ch \in chs
      PROVE  \A d \in Conns : d # c => ~SendsPresence(d, ch)
  BY <1>4, NotCrossed
<1>5. ASSUME NEW ch \in Channels \ presenceCrossed', ch \notin chs
      PROVE  /\ ch \notin presenceCrossed /\ \A d \in Conns : <<d, ch>> \in untold => <<d, ch>> \in untold'
             /\ \A d \in Conns : PresenceKnown(d, ch) => PresenceKnown(d, ch)'
  <2>1. ch \notin presenceCrossed /\ \A d \in Conns : <<d, ch>> \in untold => <<d, ch>> \in untold'
    BY <1>5, NotCrossed
  <2>2. Now(ch)' = Now(ch)
    BY <1>5 DEF Now
  <2>3. \A d \in Conns : PresenceKnown(d, ch) => PresenceKnown(d, ch)'
    BY <2>2 DEF PresenceKnown
  <2> QED BY <2>1, <2>3
<1>6. ASSUME NEW ch \in Channels \ presenceCrossed'
      PROVE  \/ /\ \A d \in Conns : d # c => ~SendsPresence(d, ch)
                /\ ~SendsPresence(c, ch)' /\ \A d \in Conns : PresenceOwes(c, d, ch)'
             \/ /\ ch \notin presenceCrossed /\ calls'[ch] = calls[ch] /\ live'[ch] = live[ch]
                /\ SendsPresence(c, ch)' => task'[c].seen = Now(ch)
                /\ \A d \in Conns : Registered(d)' /\ ConnUser[d] \in members /\ <<d, ch>> \notin untold' =>
                     \/ PresenceKnown(d, ch)' \/ PresenceOwes(c, d, ch)'
                     \/ /\ Registered(d) /\ <<d, ch>> \notin untold
                        /\ PresenceKnown(d, ch) => PresenceKnown(d, ch)' \/ PresenceOwes(c, d, ch)'
                        /\ ~PresenceOwes(c, d, ch)
  <2>1. CASE ch \in chs
    BY <1>3, <1>4, <2>1
  <2>2. CASE ch \notin chs
    BY <1>2, <1>3, <1>5, <2>2
  <2> QED BY <2>1, <2>2
<1> QED BY <1>1, <1>6, PresenceKeeps

LEMMA PresenceFreshStep ==
  HubTypeOK /\ HubTypeOK' /\ HubInv /\ TasksOK /\ PresenceInv /\ [HubNext]_hubVars => PresenceInv'
<1> SUFFICES ASSUME HubTypeOK, HubTypeOK', HubInv, TasksOK, PresenceInv, [HubNext]_hubVars PROVE PresenceInv'
  OBVIOUS
<1> USE HubAssumption
<1>1. \A x \in Channels : live[x] \subseteq calls[x]
  BY DEF HubInv, LiveInCall
<1>2. ASSUME NEW c \in Conns, task[c].pc \in {"idle", "join", "leaveAll"}
      PROVE  \A d \in Conns, x \in Channels : ~PresenceOwes(c, d, x)
  BY <1>2 DEF PresenceOwes, TasksOK
\* A new connection has been told nothing, and the list of the calls is still to come.
<1>3. ASSUME NEW c \in Conns, Register(c) PROVE PresenceInv'
  <2>1. \A d \in Conns : d # c => task'[d] = task[d]
    BY <1>3, OthersSame DEF Arrival
  <2>2. /\ task'[c].pc = "list" /\ task'[c].kind = "snapshot"
        /\ UNCHANGED <<calls, live, members, presenceCrossed>>
        /\ \A x \in Channels : lastPresence'[c][x] = Empty
        /\ \A d \in Conns : d # c => lastPresence'[d] = lastPresence[d]
    BY <1>3, RegisterDoes
  <2>3. \A d \in Conns, x \in Channels : d # c => (<<d, x>> \in untold => <<d, x>> \in untold')
    BY <1>3, RegisterDoes
  <2>4. \A d \in Conns, x \in Channels : d # c => ~PresenceOwes(c, d, x)
    <3>1. task[c].pc = "closed" /\ task[c].kind = "snapshot"
      BY <1>3, RegisterDoes
    <3> QED BY <3>1 DEF PresenceOwes
  <2>5. \A x \in Channels : PresenceKnown(c, x)' \/ PresenceOwes(c, c, x)'
    <3> TAKE x \in Channels
    <3>1. CASE calls[x] = {}
      <4>1. live[x] = {}
        BY <1>1, <3>1
      <4> QED BY <2>2, <3>1, <4>1 DEF PresenceKnown, Now, Empty
    <3>2. CASE calls[x] # {}
      BY <2>2, <3>2 DEF PresenceOwes
    <3> QED BY <3>1, <3>2
  <2>6. \A d \in Conns, x \in Channels : d # c /\ PresenceKnown(d, x) => PresenceKnown(d, x)'
    BY <2>2 DEF PresenceKnown, Now
  <2>7. \A d \in Conns : d # c /\ Registered(d)' => Registered(d)
    BY <2>1 DEF Registered
  <2>8. \A x \in Channels : ~SendsPresence(c, x)'
    BY <2>2 DEF SendsPresence
  <2> QED BY <2>1, <2>2, <2>3, <2>4, <2>5, <2>6, <2>7, <2>8, PresenceKeeps
<1>4. ASSUME NEW c \in Conns, ListCalls(c) PROVE PresenceInv'
  <2>1. /\ task[c].pc = "list" /\ task[c].kind = "snapshot"
        /\ UNCHANGED <<calls, live, lastPresence, members, presenceCrossed, untold>>
    BY <1>4, ListDoes
  <2>2. Registered(c)
    BY <2>1 DEF Registered
  <2>3. \A x \in Channels : ~SendsPresence(c, x)'
    BY <1>4, ListDoes DEF SendsPresence, Reading, Idle
  <2>4. ASSUME NEW x \in Channels, PresenceOwes(c, c, x) PROVE PresenceOwes(c, c, x)'
    <3>1. x \in ActiveCalls
      BY <2>1, <2>4 DEF PresenceOwes, ActiveCalls, TasksOK
    <3>2. PICK y \in ActiveCalls :
             /\ task'[c].pc = "members" /\ task'[c].kind = "snapshot" /\ task'[c].ch = y
             /\ \A z \in ActiveCalls : z = y \/ \E e \in task'[c].todo : e.ch = z
      BY <1>4, <3>1, ListDoes
    <3> QED BY <3>1, <3>2 DEF PresenceOwes
  <2>5. \A d \in Conns, x \in Channels : PresenceOwes(c, d, x) => d = c
    BY <2>1 DEF PresenceOwes
  <2> QED BY <1>4, <2>1, <2>2, <2>3, <2>4, <2>5, PresenceSame DEF Handler
<1>5. ASSUME NEW c \in Conns, NEW ch \in Channels, RecvJoin(c, ch) PROVE PresenceInv'
  <2>1. /\ task[c].pc = "idle" /\ task[c].kind = "message" /\ task'[c].pc = "join"
        /\ UNCHANGED <<calls, live, lastPresence, members, presenceCrossed, untold>>
    BY <1>5, RecvJoinDoes
  <2>2. Registered(c) /\ \A x \in Channels : ~SendsPresence(c, x)'
    BY <2>1 DEF Registered, SendsPresence
  <2> QED BY <1>2, <1>5, <2>1, <2>2, PresenceSame DEF Arrival
\* What a message does to one channel, it owes to everybody.
<1>6. ASSUME NEW c \in Conns, NEW ch \in Channels, Arrival(c) \/ Handler(c), NewPresences(c, {ch}),
             task[c].pc \in {"idle", "join"}, task[c].kind = "message",
             task'[c].pc \in {"roster", "members"}, task'[c].kind = "message", task'[c].ch = ch,
             \A x \in Channels : x # ch => calls'[x] = calls[x] /\ live'[x] = live[x],
             UNCHANGED <<lastPresence, members>>
      PROVE  PresenceInv'
  <2>1. {ch} \in SUBSET Channels /\ Registered(c) /\ task'[c].pc # "send"
    BY <1>6 DEF Registered
  <2>2. \A x \in {ch}, d \in Conns : PresenceOwes(c, d, x)'
    BY <1>6 DEF PresenceOwes
  <2>3. \A x \in Channels \ {ch}, d \in Conns : ~PresenceOwes(c, d, x)
    BY <1>2, <1>6
  <2>4. \A x \in Channels \ {ch} : calls'[x] = calls[x] /\ live'[x] = live[x]
    BY <1>6
  <2> QED BY <1>6, <2>1, <2>2, <2>3, <2>4, PresenceNew
<1>7. ASSUME NEW c \in Conns, CallJoin(c) PROVE PresenceInv'
  <2>1. PICK ch \in Channels :
           /\ task[c].pc = "join" /\ task[c].kind = "message" /\ task[c].ch = ch
           /\ task'[c].pc = "roster" /\ task'[c].kind = "message" /\ task'[c].ch = ch
           /\ calls' = [calls EXCEPT ![ch] = @ \union {ConnUser[c]}]
           /\ NewPresences(c, {ch}) /\ UNCHANGED <<live, lastPresence, members>>
    BY <1>7, CallJoinDoes
  <2>2. \A x \in Channels : x # ch => calls'[x] = calls[x] /\ live'[x] = live[x]
    BY <2>1 DEF HubTypeOK
  <2> QED BY <1>6, <1>7, <2>1, <2>2 DEF Handler
<1>8. ASSUME NEW c \in Conns, NEW ch \in Channels, RecvLeave(c, ch) PROVE PresenceInv'
  <2>1. /\ task[c].pc = "idle" /\ task[c].kind = "message" /\ UNCHANGED <<lastPresence, members>>
        /\ \A x \in Channels : x # ch => calls'[x] = calls[x] /\ live'[x] = live[x]
    BY <1>8, RecvLeaveDrops
  <2>2. CASE ConnUser[c] \in calls[ch]
    <3>1. /\ NewPresences(c, {ch}) /\ task'[c].pc = "roster" /\ task'[c].kind = "message" /\ task'[c].ch = ch
      BY <1>8, <2>2, RecvLeaveTells
    <3> QED BY <1>6, <1>8, <2>1, <3>1 DEF Arrival
  <2>3. CASE ConnUser[c] \notin calls[ch]
    <3>1. NewPresences(c, {}) /\ UNCHANGED task
      BY <1>8, <2>3, RecvLeaveTells
    <3>2. {} \in SUBSET Channels /\ Registered(c) /\ task'[c].pc # "send"
      BY <2>1, <3>1 DEF Registered
    <3>3. calls'[ch] = calls[ch] \ {ConnUser[c]} /\ live'[ch] = live[ch] \ {ConnUser[c]}
      BY <1>8, RecvLeaveDrops
    <3>4. ConnUser[c] \notin live[ch]
      BY <1>1, <2>3
    <3>5. calls'[ch] = calls[ch] /\ live'[ch] = live[ch]
      BY <2>3, <3>3, <3>4
    <3>6. \A x \in Channels \ {} : calls'[x] = calls[x] /\ live'[x] = live[x]
      BY <2>1, <3>5
    <3>7. \A x \in Channels \ {}, d \in Conns : ~PresenceOwes(c, d, x)
      BY <1>2, <2>1
    <3>8. Arrival(c) \/ Handler(c)
      BY <1>8 DEF Arrival
    <3> QED BY <2>1, <3>1, <3>2, <3>6, <3>7, <3>8, PresenceNew
  <2> QED BY <2>2, <2>3
<1>9. ASSUME NEW c \in Conns, NEW ch \in Channels, NEW streaming \in BOOLEAN, RecvStreaming(c, ch, streaming)
      PROVE PresenceInv'
  <2>1. /\ task[c].pc = "idle" /\ task[c].kind = "message"
        /\ task'[c].pc = "members" /\ task'[c].kind = "message" /\ task'[c].ch = ch
        /\ \A x \in Channels : x # ch => live'[x] = live[x]
        /\ NewPresences(c, {ch}) /\ UNCHANGED <<calls, lastPresence, members>>
    BY <1>9, RecvStreamingDoes
  <2> QED BY <1>6, <1>9, <2>1 DEF Arrival
<1>10. ASSUME NEW c \in Conns, Unregister(c) PROVE PresenceInv'
  <2>1. /\ task[c].pc = "idle" /\ ~Registered(c)' /\ task'[c].pc # "send"
        /\ UNCHANGED <<calls, live, lastPresence, members, presenceCrossed, untold>>
    BY <1>10, UnregisterDoes
  <2>2. \A x \in Channels : ~SendsPresence(c, x)'
    BY <2>1 DEF SendsPresence
  <2> QED BY <1>2, <1>10, <2>1, <2>2, PresenceSame DEF Arrival
<1>11. ASSUME NEW c \in Conns, LeaveAll(c) PROVE PresenceInv'
  <2> DEFINE u == ConnUser[c]
             left == CallsOf(u)
  <2>1. left \in SUBSET Channels /\ \A x \in Channels : x \in left <=> u \in calls[x]
    BY DEF CallsOf
  <2>2. /\ task[c].pc = "leaveAll" /\ task[c].kind = "leave" /\ NewPresences(c, left)
        /\ \A x \in Channels : calls'[x] = calls[x] \ {u} /\ live'[x] = live[x] \ {u}
        /\ UNCHANGED <<lastPresence, members>>
        /\ \/ left = {} /\ task'[c] = Closed
           \/ \E x \in left :
                /\ task'[c].pc = "roster" /\ task'[c].kind = "leave" /\ task'[c].ch = x
                /\ \A y \in left : y = x \/ \E e \in task'[c].todo : e.ch = y
    BY <1>11, LeaveAllDoes
  <2> HIDE DEF left
  <2>3. ASSUME NEW x \in Channels \ left PROVE calls'[x] = calls[x] /\ live'[x] = live[x]
    <3>1. u \notin calls[x] /\ u \notin live[x]
      BY <1>1, <2>1
    <3>2. calls'[x] = calls[x] \ {u} /\ live'[x] = live[x] \ {u}
      BY <2>2
    <3> QED BY <3>1, <3>2
  <2>4. \A x \in left, d \in Conns : PresenceOwes(c, d, x)'
    BY <2>2 DEF PresenceOwes
  <2>5. ~Registered(c)' /\ task'[c].pc # "send"
    BY <2>2 DEF Registered, Closed, Idle
  <2>6. \A x \in Channels \ left, d \in Conns : ~PresenceOwes(c, d, x)
    BY <1>2, <2>2
  <2>7. Arrival(c) \/ Handler(c)
    BY <1>11 DEF Handler
  <2> QED BY <2>1, <2>2, <2>3, <2>4, <2>5, <2>6, <2>7, PresenceNew
<1>12. ASSUME NEW c \in Conns, SendRoster(c) PROVE PresenceInv'
  <2>1. /\ task[c].pc = "roster" /\ task'[c].pc = "members" /\ task'[c].ch = task[c].ch
        /\ task'[c].kind = task[c].kind /\ task'[c].todo = task[c].todo
        /\ UNCHANGED <<calls, live, lastPresence, members, presenceCrossed, untold>>
    BY <1>12, SendRosterDoes
  <2>2. /\ Registered(c)' => Registered(c)
        /\ \A x \in Channels : ~SendsPresence(c, x)'
    BY <2>1 DEF Registered, SendsPresence
  <2>3. \A x \in Channels, d \in Conns : PresenceOwes(c, d, x) => PresenceOwes(c, d, x)'
    BY <2>1 DEF PresenceOwes
  <2> QED BY <1>12, <2>1, <2>2, <2>3, PresenceSame DEF Handler
<1>13. ASSUME NEW c \in Conns, ReadMembers(c) PROVE PresenceInv'
  <2>1. /\ task[c].pc = "members" /\ task'[c].pc = "presence" /\ task'[c].audience = members
        /\ task'[c].ch = task[c].ch /\ task'[c].kind = task[c].kind /\ task'[c].todo = task[c].todo
        /\ UNCHANGED <<calls, live, lastPresence, members, presenceCrossed, untold>>
    BY <1>13, ReadMembersDoes
  <2>2. /\ Registered(c)' => Registered(c)
        /\ \A x \in Channels : ~SendsPresence(c, x)'
    BY <2>1 DEF Registered, SendsPresence
  <2>3. \A x \in Channels, d \in Conns : ConnUser[d] \in members /\ PresenceOwes(c, d, x) => PresenceOwes(c, d, x)'
    BY <2>1 DEF PresenceOwes
  <2> QED BY <1>13, <2>1, <2>2, <2>3, PresenceSame DEF Handler
<1>14. ASSUME NEW c \in Conns, ReadPresence(c) PROVE PresenceInv'
  <2>1. /\ task[c].pc = "presence" /\ task'[c].pc = "send" /\ task'[c].audience = task[c].audience
        /\ task'[c].ch = task[c].ch /\ task'[c].kind = task[c].kind /\ task'[c].todo = task[c].todo
        /\ task'[c].seen = Now(task[c].ch)
        /\ UNCHANGED <<calls, live, lastPresence, members, presenceCrossed, untold>>
    BY <1>14, ReadPresenceDoes DEF Now
  <2>2. /\ Registered(c)' => Registered(c)
        /\ \A x \in Channels : SendsPresence(c, x)' => task'[c].seen = Now(x)
    BY <2>1 DEF Registered, SendsPresence
  <2>3. \A x \in Channels, d \in Conns : PresenceOwes(c, d, x) => PresenceOwes(c, d, x)'
    BY <2>1 DEF PresenceOwes
  <2> QED BY <1>14, <2>1, <2>2, <2>3, PresenceSame DEF Handler
<1>15. ASSUME NEW c \in Conns, SendPresence(c) PROVE PresenceInv'
  <2>0. PICK ch \in Channels : ch = task[c].ch
    BY <1>15, SendPresenceDoes
  <2> DEFINE reached == IF task[c].kind = "snapshot"
                          THEN {c} \intersect ConnsOf({ConnUser[c]} \intersect task[c].audience)
                          ELSE ConnsOf(task[c].audience)
  <2>1. /\ task[c].pc = "send" /\ UNCHANGED <<calls, live, members, presenceCrossed, untold>>
        /\ \A d \in Conns : lastPresence'[d] = IF d \in reached
                                                 THEN [lastPresence[d] EXCEPT ![ch] = task[c].seen]
                                                 ELSE lastPresence[d]
    BY <1>15, <2>0, SendPresenceDoes
  <2>2. \/ task[c].todo = {} /\ task'[c] = (IF task[c].kind = "leave" THEN Closed ELSE Reading)
        \/ \E e \in task[c].todo :
             /\ task'[c].pc = (IF task[c].kind = "leave" THEN "roster" ELSE "members")
             /\ task'[c].kind = task[c].kind /\ task'[c].ch = e.ch /\ task'[c].todo = task[c].todo \ {e}
    BY <1>15, SendPresenceDoes
  <2>3. task'[c].pc \in {"closed", "idle", "roster", "members"}
    BY <2>2 DEF Closed, Reading, Idle
  <2>4. ASSUME NEW f \in task[c].todo, NEW d \in Conns, task[c].kind # "snapshot" \/ d = c
        PROVE  PresenceOwes(c, d, f.ch)'
    <3>1. PICK e \in task[c].todo :
             /\ task'[c].pc \in {"roster", "members"}
             /\ task'[c].kind = task[c].kind /\ task'[c].ch = e.ch /\ task'[c].todo = task[c].todo \ {e}
      BY <2>2
    <3> QED BY <2>4, <3>1 DEF PresenceOwes
  <2>5. ASSUME NEW d \in Conns, Registered(d), ConnUser[d] \in task[c].audience, task[c].kind # "snapshot" \/ d = c
        PROVE  d \in reached
    <3>1. d \in conns[ConnUser[d]]
      BY <2>5 DEF HubInv, ConnsMatchTasks
    <3>2. d \in ConnsOf(task[c].audience) /\ d \in ConnsOf({ConnUser[d]} \intersect task[c].audience)
      BY <2>5, <3>1 DEF ConnsOf
    <3> QED BY <2>5, <3>2
  <2> HIDE DEF reached
  <2>6. \A d \in Conns : d # c => task'[d] = task[d]
    BY <1>15, OthersSame DEF Handler
  <2>7. \A d \in Conns : Registered(d)' => Registered(d)
    <3>1. task[c].kind = "leave" => ~Registered(c)'
      BY <2>2 DEF Registered, Closed, Idle
    <3>2. task[c].kind # "leave" => Registered(c)
      BY <2>1 DEF Registered
    <3> QED BY <2>6, <3>1, <3>2 DEF Registered
  <2>8. \A x \in Channels : ~SendsPresence(c, x)'
    BY <2>3 DEF SendsPresence
  <2>9. ASSUME NEW x \in Channels \ presenceCrossed, NEW d \in Conns, Registered(d)
        PROVE  \/ PresenceKnown(d, x)' \/ PresenceOwes(c, d, x)'
               \/ /\ PresenceKnown(d, x) => PresenceKnown(d, x)'
                  /\ ~PresenceOwes(c, d, x)
    <3>1. Now(x)' = Now(x)
      BY <2>1 DEF Now
    <3>2. lastPresence[d] \in [Channels -> Presence]
      BY DEF HubTypeOK
    <3>3. CASE x = ch /\ d \in reached
      <4>1. task[c].seen = Now(x)
        BY <2>0, <2>1, <3>3 DEF PresenceInv, SendsPresence
      <4> QED BY <2>1, <3>1, <3>2, <3>3, <4>1 DEF PresenceKnown
    <3>4. CASE x # ch \/ d \notin reached
      <4>1. lastPresence'[d][x] = lastPresence[d][x]
        BY <2>1, <3>2, <3>4
      <4>2. PresenceKnown(d, x) => PresenceKnown(d, x)'
        BY <3>1, <4>1 DEF PresenceKnown
      <4>3. ASSUME PresenceOwes(c, d, x) PROVE PresenceOwes(c, d, x)'
        <5>1. x # ch \/ ConnUser[d] \notin task[c].audience
          BY <2>5, <2>9, <3>4, <4>3 DEF PresenceOwes
        <5>2. \E e \in task[c].todo : e.ch = x
          BY <2>0, <2>1, <4>3, <5>1 DEF PresenceOwes
        <5> QED BY <2>4, <4>3, <5>2 DEF PresenceOwes
      <4> QED BY <4>2, <4>3
    <3> QED BY <3>3, <3>4
  <2> QED BY <2>1, <2>6, <2>7, <2>8, <2>9, PresenceKeeps
<1>16. ASSUME NEW u \in Users, AcceptInvite(u) \/ RemoveMember(u) PROVE PresenceInv'
  <2>1. /\ UNCHANGED <<task, conns, calls, live, lastPresence, presenceCrossed>>
        /\ \/ members' = members \union {u} /\ untold' = untold \union (conns[u] \X Channels)
           \/ members' = members \ {u} /\ untold' = untold
    BY <1>16, MembersDo
  <2>2. ASSUME NEW d \in Conns, Registered(d), ConnUser[d] \in members', NEW x \in Channels, <<d, x>> \notin untold'
        PROVE  ConnUser[d] \in members /\ <<d, x>> \notin untold
    <3>1. d \in conns[ConnUser[d]]
      BY <2>2 DEF HubInv, ConnsMatchTasks
    <3> QED BY <2>1, <2>2, <3>1
  <2>3. \A d \in Conns : Registered(d)' <=> Registered(d)
    BY <2>1 DEF Registered
  <2>4. \A d \in Conns, x \in Channels : (PresenceTold(d, x)' <=> PresenceTold(d, x)) /\ (SendsPresence(d, x)' <=> SendsPresence(d, x))
    BY <2>1 DEF PresenceTold, PresenceKnown, Now, PresenceOwes, SendsPresence
  <2>5. \A x \in Channels : Now(x)' = Now(x)
    BY <2>1 DEF Now
  <2> QED BY <2>1, <2>2, <2>3, <2>4, <2>5 DEF PresenceInv
<1>17. CASE UNCHANGED hubVars
  <2>1. UNCHANGED <<task, calls, live, members, lastPresence, presenceCrossed, untold>>
    BY <1>17 DEF hubVars, hub, views, space, past, crossed
  <2> QED BY <2>1 DEF PresenceInv, PresenceTold, PresenceKnown, Now, PresenceOwes, SendsPresence, Registered
<1> QED
  BY <1>3, <1>4, <1>5, <1>7, <1>8, <1>9, <1>10, <1>11, <1>12, <1>13, <1>14, <1>15, <1>16, <1>17
  DEF HubNext, Arrival, Handler

\* For any number of worker threads and connections and any changes of membership:
\* when no handler runs, every connected member was last told who is in each call
\* and who is LIVE, but of a channel whose presences crossed, and but for a new
\* member of what has not changed since.
THEOREM PresenceFreshHolds == HubSpec => []PresenceFresh
<1>1. HubTypeOK /\ TasksOK /\ PresenceInv => PresenceFresh
  <2> SUFFICES ASSUME HubTypeOK, TasksOK, PresenceInv, Quiescent,
                      NEW c \in Conns, task[c].pc = "idle", ConnUser[c] \in members,
                      NEW ch \in Channels \ presenceCrossed, <<c, ch>> \notin untold
               PROVE  lastPresence[c][ch] = Now(ch)
    BY DEF PresenceFresh, Now
  <2>1. \A b \in Conns : ~PresenceOwes(b, c, ch)
    BY DEF TasksOK, PresenceOwes, Quiescent, Busy
  <2>2. Registered(c)
    BY DEF Registered, HubTypeOK, WellPlaced
  <2> QED BY <2>1, <2>2 DEF PresenceInv, PresenceTold, PresenceKnown
<1>2. HubInit => PresenceInv
  BY DEF HubInit, AtStart, PresenceInv, SendsPresence, Registered, Closed, Idle
<1> QED BY <1>1, <1>2, RosterInit, TasksStep, PresenceFreshStep, HubTypeCorrect, HubCorrect, PTL DEF HubSpec

-----------------------------------------------------------------------------
(***************************************************************************)
(* A user beside whose connection there was no other: no other task can take *)
(* it off a roster.                                                          *)
(***************************************************************************)

\* A channel is joined before the roster of the hub is: only the join of the
\* connection's own handler may still be under way.
OnRoster(c) ==
  \A ch \in joined[c] : ConnUser[c] \in calls[ch] \/ (task[c].pc = "join" /\ task[c].ch = ch)

JoinInv == \A c \in alone : OnRoster(c) /\ \A d \in OthersOf(c) : ~Open(d)

\* A step of c that opens nothing, and takes a user off rosters only while c is open.
LEMMA JoinKeeps ==
  ASSUME HubTypeOK, TasksOK, JoinInv, NEW c \in Conns, Arrival(c) \/ Handler(c), alone' = alone,
         Open(c)' => Open(c),
         \A d \in Conns : d # c => joined'[d] = joined[d],
         \/ \A ch \in Channels : calls[ch] \subseteq calls'[ch]
         \/ Open(c) /\ \A ch \in Channels, u \in Users : u # ConnUser[c] /\ u \in calls[ch] => u \in calls'[ch],
         c \in alone => OnRoster(c)'
  PROVE  JoinInv'
<1> USE HubAssumption
<1>1. \A d \in Conns : d # c => task'[d] = task[d]
  BY OthersSame
<1>2. \A d \in Conns : Open(d)' => Open(d)
  BY <1>1 DEF Open, Registered
<1>3. ASSUME NEW d \in alone, d # c PROVE OnRoster(d)'
  <2>1. d \in Conns /\ OnRoster(d) /\ joined'[d] = joined[d] /\ task'[d] = task[d] /\ joined[d] \subseteq Channels
    BY <1>1, <1>3 DEF JoinInv, HubTypeOK
  <2>2. CASE \A ch \in Channels : calls[ch] \subseteq calls'[ch]
    BY <2>1, <2>2 DEF OnRoster
  <2>3. CASE /\ Open(c)
             /\ \A ch \in Channels, u \in Users : u # ConnUser[c] /\ u \in calls[ch] => u \in calls'[ch]
    <3>1. ConnUser[d] # ConnUser[c] /\ ConnUser[d] \in Users
      BY <1>3, <2>1, <2>3 DEF JoinInv, OthersOf
    <3> QED BY <2>1, <2>3, <3>1 DEF OnRoster
  <2> QED BY <2>2, <2>3
<1>4. \A d \in alone : OnRoster(d)'
  BY <1>3
<1>5. \A d \in alone : \A b \in OthersOf(d) : ~Open(b)'
  BY <1>2 DEF JoinInv, OthersOf
<1> QED BY <1>4, <1>5 DEF JoinInv, OthersOf

\* HubNext preserves JoinInv: the join of call_join before the roster is sent, a
\* leave that takes the channel off both, and leave_all after the unregistering.
LEMMA JoinStep == HubTypeOK /\ HubTypeOK' /\ TasksOK /\ JoinInv /\ [HubNext]_hubVars => JoinInv'
<1> SUFFICES ASSUME HubTypeOK, HubTypeOK', TasksOK, JoinInv, [HubNext]_hubVars PROVE JoinInv'
  OBVIOUS
<1> USE HubAssumption
<1>1. ASSUME NEW c \in Conns, Register(c) PROVE JoinInv'
  <2>1. \A d \in Conns : d # c => task'[d] = task[d]
    BY <1>1, OthersSame DEF Arrival
  <2>2. UNCHANGED <<calls, joined>> /\ joined[c] = {}
    BY <1>1, RegisterDoes DEF TasksOK
  <2>3. alone' = (alone \ OthersOf(c)) \union {d \in {c} : ~ \E b \in OthersOf(c) : Open(b)}
    BY <1>1 DEF Register
  <2>4. ASSUME NEW d \in alone', d # c PROVE OnRoster(d)' /\ \A b \in OthersOf(d) : ~Open(b)'
    <3>1. d \in alone /\ d \in Conns /\ d \notin OthersOf(c)
      BY <2>3, <2>4 DEF HubTypeOK
    <3>2. ConnUser[d] # ConnUser[c] /\ c \notin OthersOf(d)
      BY <2>4, <3>1 DEF OthersOf
    <3>3. \A b \in OthersOf(d) : ~Open(b)'
      BY <2>1, <3>1, <3>2 DEF JoinInv, OthersOf, Open, Registered
    <3>4. OnRoster(d)'
      BY <2>1, <2>2, <2>4, <3>1 DEF JoinInv, OnRoster
    <3> QED BY <3>3, <3>4
  <2>5. ASSUME c \in alone' PROVE \A b \in OthersOf(c) : ~Open(b)'
    <3>1. \A b \in OthersOf(c) : ~Open(b)
      BY <2>3, <2>5 DEF JoinInv
    <3> QED BY <2>1, <3>1 DEF OthersOf, Open, Registered
  <2>6. OnRoster(c)'
    BY <2>2 DEF OnRoster
  <2> QED BY <2>4, <2>5, <2>6 DEF JoinInv, OthersOf
<1>2. ASSUME NEW c \in Conns, NEW ch \in Channels, RecvJoin(c, ch) PROVE JoinInv'
  <2>1. /\ task[c].pc = "idle" /\ task[c].kind = "message" /\ UNCHANGED <<calls, alone>>
        /\ joined'[c] = joined[c] \union {ch} /\ \A d \in Conns : d # c => joined'[d] = joined[d]
        /\ task'[c].pc = "join" /\ task'[c].kind = "message" /\ task'[c].ch = ch
    BY <1>2, RecvJoinDoes
  <2>2. c \in alone => OnRoster(c)'
    BY <2>1 DEF JoinInv, OnRoster
  <2>3. Open(c)
    BY <2>1 DEF Open, Registered
  <2> QED BY <1>2, <2>1, <2>2, <2>3, JoinKeeps DEF Arrival
<1>3. ASSUME NEW c \in Conns, CallJoin(c) PROVE JoinInv'
  <2>1. PICK ch \in Channels :
           /\ task[c].pc = "join" /\ task[c].kind = "message" /\ task[c].ch = ch
           /\ calls' = [calls EXCEPT ![ch] = @ \union {ConnUser[c]}]
           /\ UNCHANGED <<joined, alone>>
    BY <1>3, CallJoinDoes
  <2>2. ConnUser[c] \in calls'[ch] /\ \A x \in Channels : calls[x] \subseteq calls'[x]
    BY <2>1 DEF HubTypeOK
  <2>3. ASSUME c \in alone, NEW x \in joined[c] PROVE ConnUser[c] \in calls'[x]
    <3>1. x \in Channels /\ (ConnUser[c] \in calls[x] \/ x = ch)
      BY <2>1, <2>3 DEF JoinInv, OnRoster, HubTypeOK
    <3> QED BY <2>2, <3>1
  <2>4. c \in alone => OnRoster(c)'
    BY <2>1, <2>3 DEF OnRoster
  <2>5. Open(c)
    BY <2>1 DEF Open, Registered
  <2> QED BY <1>3, <2>1, <2>2, <2>4, <2>5, JoinKeeps DEF Handler
<1>4. ASSUME NEW c \in Conns, NEW ch \in Channels, RecvLeave(c, ch) PROVE JoinInv'
  <2>1. /\ task[c].pc = "idle" /\ task[c].kind = "message" /\ alone' = alone
        /\ joined'[c] = joined[c] \ {ch} /\ \A d \in Conns : d # c => joined'[d] = joined[d]
        /\ calls'[ch] = calls[ch] \ {ConnUser[c]} /\ \A x \in Channels : x # ch => calls'[x] = calls[x]
    BY <1>4, RecvLeaveDrops
  <2>2. c \in alone => OnRoster(c)'
    BY <2>1 DEF JoinInv, OnRoster, HubTypeOK
  <2>3. \A x \in Channels, u \in Users : u # ConnUser[c] /\ u \in calls[x] => u \in calls'[x]
    BY <2>1
  <2>4. Open(c)
    BY <2>1 DEF Open, Registered
  <2> QED BY <1>4, <2>1, <2>2, <2>3, <2>4, JoinKeeps DEF Arrival
<1>5. ASSUME NEW c \in Conns, Unregister(c) PROVE JoinInv'
  <2>1. /\ task[c].pc = "idle" /\ task[c].kind = "message" /\ UNCHANGED <<calls, alone>>
        /\ joined' = [joined EXCEPT ![c] = {}]
    BY <1>5, UnregisterDoes
  <2>2. joined'[c] = {} /\ \A d \in Conns : d # c => joined'[d] = joined[d]
    BY <2>1 DEF HubTypeOK
  <2>3. OnRoster(c)' /\ Open(c)
    BY <2>1, <2>2 DEF OnRoster, Open, Registered
  <2> QED BY <1>5, <2>1, <2>2, <2>3, JoinKeeps DEF Arrival
<1>6. ASSUME NEW c \in Conns, LeaveAll(c) PROVE JoinInv'
  <2>1. /\ task[c].pc = "leaveAll" /\ task[c].kind = "leave" /\ UNCHANGED <<joined, alone>>
        /\ \A x \in Channels : calls'[x] = calls[x] \ {ConnUser[c]}
    BY <1>6, LeaveAllDoes
  <2>2. joined[c] = {} /\ Open(c)
    BY <2>1 DEF TasksOK, Registered, Open
  <2>3. OnRoster(c)'
    BY <2>1, <2>2 DEF OnRoster
  <2>4. \A x \in Channels, u \in Users : u # ConnUser[c] /\ u \in calls[x] => u \in calls'[x]
    BY <2>1
  <2> QED BY <1>6, <2>1, <2>2, <2>3, <2>4, JoinKeeps DEF Handler
\* The sections that change no roster and join nothing.
<1>7. ASSUME NEW c \in Conns, Arrival(c) \/ Handler(c), UNCHANGED <<calls, joined, alone>>, task[c].pc # "join",
             Open(c)' => Open(c)
      PROVE  JoinInv'
  <2>1. c \in alone => OnRoster(c)'
    BY <1>7 DEF JoinInv, OnRoster
  <2> QED BY <1>7, <2>1, JoinKeeps
<1>8. ASSUME NEW c \in Conns, ListCalls(c) PROVE JoinInv'
  <2>1. task[c].pc = "list" /\ UNCHANGED <<calls, joined, alone>> /\ Open(c)
    BY <1>8, TaskFields DEF ListCalls, hub, past, Open, Registered, WellPlaced
  <2> QED BY <1>7, <1>8, <2>1 DEF Handler
<1>9. ASSUME NEW c \in Conns, NEW ch \in Channels, NEW streaming \in BOOLEAN, RecvStreaming(c, ch, streaming)
      PROVE JoinInv'
  <2>1. task[c].pc = "idle" /\ task[c].kind = "message" /\ UNCHANGED <<calls, joined, alone>>
    BY <1>9, RecvStreamingDoes
  <2>2. Open(c)
    BY <2>1 DEF Open, Registered
  <2> QED BY <1>7, <1>9, <2>1, <2>2 DEF Arrival
<1>10. ASSUME NEW c \in Conns, SendRoster(c) \/ ReadMembers(c) \/ ReadPresence(c) PROVE JoinInv'
  <2>1. /\ task[c].pc \in {"roster", "members", "presence"} /\ task'[c].pc \in {"members", "presence", "send"}
        /\ task'[c].kind = task[c].kind /\ UNCHANGED <<calls, joined, alone>>
    BY <1>10, SendRosterDoes, ReadMembersDoes, ReadPresenceDoes
  <2>2. Open(c)' => Open(c)
    BY <2>1 DEF Open, Registered
  <2> QED BY <1>7, <1>10, <2>1, <2>2 DEF Handler
<1>11. ASSUME NEW c \in Conns, SendPresence(c) PROVE JoinInv'
  <2>1. /\ task[c].pc = "send" /\ UNCHANGED <<calls, joined, alone>>
        /\ \/ task'[c] = (IF task[c].kind = "leave" THEN Closed ELSE Reading)
           \/ task'[c].kind = task[c].kind /\ task'[c].pc # "leaveAll"
    BY <1>11, SendPresenceDoes
  <2>2. Open(c)' => Open(c)
    BY <2>1 DEF Open, Registered, Closed, Reading, Idle
  <2> QED BY <1>7, <1>11, <2>1, <2>2 DEF Handler
<1>12. ASSUME UNCHANGED <<calls, joined, task, alone>> PROVE JoinInv'
  BY <1>12 DEF JoinInv, OnRoster, OthersOf, Open, Registered
<1>13. ASSUME NEW u \in Users, AcceptInvite(u) \/ RemoveMember(u) PROVE JoinInv'
  BY <1>12, <1>13, MembersDo
<1>14. CASE UNCHANGED hubVars
  BY <1>12, <1>14 DEF hubVars, hub, past
<1> QED
  BY <1>1, <1>2, <1>3, <1>4, <1>5, <1>6, <1>8, <1>9, <1>10, <1>11, <1>13, <1>14 DEF HubNext, Arrival, Handler

\* A client that joined a call and has sent no leave is on its roster whenever no
\* handler is running, whatever the others do: only a second connection of the same
\* user could take it off, the hub keeping one entry per user on a roster.
THEOREM JoinedIsOnRosterHolds == HubSpec => []JoinedIsOnRoster
<1>1. HubInit => JoinInv
  BY DEF HubInit, AtStart, JoinInv
<1>2. HubTypeOK /\ JoinInv => JoinedIsOnRoster
  BY DEF HubTypeOK, JoinInv, OnRoster, JoinedIsOnRoster, Quiescent, Busy
<1> QED BY <1>1, <1>2, RosterInit, TasksStep, JoinStep, HubTypeCorrect, PTL DEF HubSpec

-----------------------------------------------------------------------------
(* The client: the inductive invariant.                                      *)

\* Types of what is not in the managers.
ClientTypes ==
  /\ flow \in [Ids -> {"none", "turn", "joinMic", "test", "done"}]
  /\ chan \in [Ids -> CallChannels \union {None}]
  /\ mics \in [Ids -> [caps : 0..1, pending : 0..MaxActs, muted : BOOLEAN]]
  /\ mgr \in [Ids -> Managers]
  /\ mic \in Ids \union {None} /\ call \in Ids \union {None}
  /\ micTestWanted \in BOOLEAN /\ micMuted \in BOOLEAN /\ deafened \in BOOLEAN
  /\ preDeafenMicMuted \in BOOLEAN /\ open \in BOOLEAN
  /\ used \in [ids : 0..MaxIds, acts : 0..MaxActs, shares : 0..MaxShares, drops : Nat]
  /\ rosters \subseteq CallChannels /\ liveIn \subseteq rosters

\* One manager: a screen is captured only in its call and after the picker, and
\* the one start that is under way waits for its run in the queue.
HasStart(q) == \E n \in DOMAIN q : q[n] = "start"
OneStart(q) == \A n, k \in DOMAIN q : q[n] = "start" /\ q[k] = "start" => n = k
MgrOK(m) ==
  /\ m \in Managers
  /\ ~m.joined \/ m.start = "picker" => m.screen = None
  /\ m.starting <=> (m.start # "idle")
  /\ m.run # "none" => m.queue # <<>>
  /\ (m.start = "settings") <=> HasStart(m.queue)
  /\ OneStart(m.queue)

\* A flow that is not done has made nothing; ids are given out in order, and a
\* join knows its channel.
FlowInv ==
  /\ \A i \in Ids : i > used.ids => flow[i] = "none"
  /\ \A i \in Ids : flow[i] # "done" => mgr[i] = NoMgr
  /\ \A i \in Ids : flow[i] \in {"turn", "joinMic"} \/ mgr[i].joined => chan[i] \in CallChannels
  /\ \A i \in Ids : mics[i].pending <= used.acts

\* Managers own the captured screens, each its own one.
ScreensInv ==
  /\ \A i \in Ids : MgrOK(mgr[i]) /\ mgr[i].screen <= used.shares
  /\ \A i, j \in Ids : mgr[i].screen = mgr[j].screen /\ mgr[i].screen # None => i = j
  /\ screens = {mgr[i].screen : i \in Ids} \ {None}

\* One call at a time, with the microphone of its manager; only joins that cross
\* each other can make two.
Entering(i) == flow[i] \in {"turn", "joinMic"}
Crossed == Odd("twoJoins")
CallInv ==
  /\ call # None => mgr[call].joined /\ mic = call
  /\ ~open => rosters = {}
  /\ ~Crossed => /\ \A i, j \in Ids : Entering(i) /\ Entering(j) => i = j
                 /\ \A i \in Ids : Entering(i) => call = None
                 /\ \A i \in InCall : i = call
                 /\ rosters \subseteq {chan[i] : i \in InCall}

MuteInv ==
  /\ deafened => micMuted
  /\ ~Crossed /\ micMuted => \A i \in InCall : mics[i].muted

\* The store holds every microphone, those that are still being asked for too.
MicInv ==
  odd \intersect {"twoJoins", "testWhileJoining", "closedWhileApplying"} = {} =>
    /\ \A i \in Ids : mics[i].caps > 0 \/ mics[i].pending > 0 => i = mic
    /\ mic # None => call # None \/ micTestWanted

\* What a manager in its call says of its share, while the encoder starts too.
ShareOK(m) ==
  /\ m.start # "encoder" => m.streaming = (m.screen # None)
  /\ m.out => m.enc # "none"
  /\ m.enc # "none" => m.screen # None
  /\ m.start = "idle" => m.shown = (m.screen # None)
  /\ m.start = "encoder" => m.screen # None /\ m.enc = "starting" /\ ~m.out /\ m.run # "encoder"
  /\ m.run = "encoder" => m.screen # None /\ m.enc = "starting"
LiveOK(i) ==
  open => /\ chan[i] \in rosters
          /\ mgr[i].start # "encoder" => (chan[i] \in liveIn <=> mgr[i].screen # None)
Outlived == Odd("startOutlivesShare")
ShareInv ==
  ~Crossed /\ ~Outlived => \A i \in InCall : ShareOK(mgr[i]) /\ LiveOK(i)

ClientInv == ClientTypes /\ FlowInv /\ ScreensInv /\ CallInv /\ MuteInv /\ MicInv /\ ShareInv

-----------------------------------------------------------------------------
(* The queue of applySenderSettings.                                         *)

Entries == {"start", "user"}

LEMMA QueueUser ==
  ASSUME NEW q \in Seq(Entries)
  PROVE  /\ Append(q, "user") \in Seq(Entries) /\ Append(q, "user") # <<>>
         /\ HasStart(Append(q, "user")) <=> HasStart(q)
         /\ OneStart(q) => OneStart(Append(q, "user"))
<1> DEFINE a == Append(q, "user")
<1>1. /\ a \in Seq(Entries) /\ a # <<>> /\ a[Len(q) + 1] = "user"
      /\ \A n \in DOMAIN q : n \in DOMAIN a /\ a[n] = q[n]
      /\ \A n \in DOMAIN a : n \in DOMAIN q \/ n = Len(q) + 1
  BY DEF Entries
<1> HIDE DEF a
<1> QED BY <1>1 DEF HasStart, OneStart, a

LEMMA QueueStart ==
  ASSUME NEW q \in Seq(Entries), ~HasStart(q)
  PROVE  /\ Append(q, "start") \in Seq(Entries) /\ Append(q, "start") # <<>>
         /\ HasStart(Append(q, "start")) /\ OneStart(Append(q, "start"))
<1> DEFINE a == Append(q, "start")
<1>1. /\ a \in Seq(Entries) /\ a # <<>> /\ a[Len(q) + 1] = "start" /\ Len(q) + 1 \in DOMAIN a
      /\ \A n \in DOMAIN q : n \in DOMAIN a /\ a[n] = q[n]
      /\ \A n \in DOMAIN a : n \in DOMAIN q \/ n = Len(q) + 1
  BY DEF Entries
<1> HIDE DEF a
<1> QED BY <1>1 DEF HasStart, OneStart, a

LEMMA QueueTail ==
  ASSUME NEW q \in Seq(Entries), q # <<>>, OneStart(q)
  PROVE  /\ Tail(q) \in Seq(Entries) /\ OneStart(Tail(q))
         /\ Head(q) = "start" => ~HasStart(Tail(q)) /\ HasStart(q)
         /\ Head(q) # "start" => (HasStart(Tail(q)) <=> HasStart(q))
<1> DEFINE t == Tail(q)
<1>1. /\ t \in Seq(Entries) /\ Head(q) = q[1] /\ 1 \in DOMAIN q
      /\ \A n \in DOMAIN t : n \in Nat /\ n + 1 \in DOMAIN q /\ n + 1 # 1 /\ t[n] = q[n + 1]
      /\ \A n \in DOMAIN q : n # 1 => n - 1 \in DOMAIN t /\ t[n - 1] = q[n]
  OBVIOUS
<1> HIDE DEF t
<1>2. ASSUME NEW n \in DOMAIN t, NEW k \in DOMAIN t, t[n] = "start", t[k] = "start"
      PROVE  n = k
  <2>1. n + 1 = k + 1
    BY <1>1, <1>2 DEF OneStart
  <2> QED BY <1>1, <2>1
<1>3. HasStart(t) => HasStart(q) /\ Head(q) # "start"
  BY <1>1 DEF HasStart, OneStart
<1>4. HasStart(q) /\ Head(q) # "start" => HasStart(t)
  BY <1>1 DEF HasStart
<1> QED BY <1>1, <1>2, <1>3, <1>4 DEF HasStart, OneStart, t

-----------------------------------------------------------------------------
(* What happens to one manager.                                              *)

LEMMA NewMgr == MgrOK(NoMgr) /\ ShareOK(NoMgr)
<1>1. 0 \in 0..MaxShares /\ <<>> \in Seq({"start", "user"}) /\ DOMAIN <<>> = {}
  BY CallAssumption
<1>2. NoMgr \in Managers
  BY <1>1 DEF NoMgr, Managers, None
<1>3. ~HasStart(NoMgr.queue) /\ OneStart(NoMgr.queue)
  BY <1>1 DEF HasStart, OneStart, NoMgr
<1> QED BY <1>2, <1>3 DEF MgrOK, ShareOK, NoMgr, None

LEMMA MgrShown ==
  ASSUME NEW m, MgrOK(m), NEW b \in BOOLEAN
  PROVE  LET n == [m EXCEPT !.shown = b]
         IN MgrOK(n) /\ n.joined = m.joined /\ n.screen = m.screen
  BY DEF MgrOK, Managers

LEMMA MgrQueued ==
  ASSUME NEW m, MgrOK(m)
  PROVE  LET n == [m EXCEPT !.queue = Append(@, "user")]
         IN MgrOK(n) /\ (ShareOK(m) => ShareOK(n))
<1> DEFINE q == Append(m.queue, "user")
           n == [m EXCEPT !.queue = q]
<1>1. q \in Seq(Entries) /\ q # <<>> /\ (HasStart(q) <=> HasStart(m.queue)) /\ OneStart(q)
  BY QueueUser DEF MgrOK, Managers, Entries
<1> HIDE DEF q
<1>2. n \in Managers
  BY <1>1 DEF MgrOK, Managers, Entries
<1>3. MgrOK(n)
  BY <1>1, <1>2 DEF MgrOK, Managers
<1> QED BY <1>3 DEF ShareOK, MgrOK, Managers, q

LEMMA MgrRuns ==
  ASSUME NEW m, MgrOK(m), m.queue # <<>>
  PROVE  LET n == [m EXCEPT !.run = "constraints"]
         IN MgrOK(n) /\ (ShareOK(m) => ShareOK(n))
  BY DEF MgrOK, Managers, ShareOK

LEMMA MgrOver ==
  ASSUME NEW m, MgrOK(m), m.start = "picker"
  PROVE  MgrOK(Over(m)) /\ (ShareOK(m) => ShareOK(Over(m)))
         /\ Over(m).joined = m.joined /\ Over(m).screen = m.screen
  BY DEF MgrOK, Managers, ShareOK, Over

\* Viewers are told: after the picker with a screen, or with the encoder.
LEMMA MgrTold ==
  ASSUME NEW m, m \in Managers, ~m.joined => m.screen = None, m.starting, m.run # "none" => m.queue # <<>>,
         ~HasStart(m.queue), OneStart(m.queue)
  PROVE  MgrOK(Told(m)) /\ Told(m).joined = m.joined /\ Told(m).screen = m.screen
<1> DEFINE q == Append(m.queue, "start")
           n == [m EXCEPT !.streaming = TRUE, !.start = "settings", !.queue = q]
<1>1. q \in Seq(Entries) /\ q # <<>> /\ HasStart(q) /\ OneStart(q)
  BY QueueStart DEF Managers, Entries
<1>2. n = Told(m)
  BY DEF Told
<1> HIDE DEF q
<1>3. n \in Managers
  BY <1>1 DEF Managers, Entries
<1>4. MgrOK(n) /\ n.joined = m.joined /\ n.screen = m.screen
  BY <1>1, <1>3 DEF MgrOK, Managers
<1> QED BY <1>2, <1>4

\* The share ends.
LEMMA MgrStop ==
  ASSUME NEW m, MgrOK(m)
  PROVE  /\ MgrOK(Stopped(m)) /\ Stopped(m).joined = m.joined /\ Stopped(m).screen = None
         /\ MgrOK([Stopped(m) EXCEPT !.shown = FALSE])
         /\ ShareOK(m) /\ ~Encoding(m) => ShareOK([Stopped(m) EXCEPT !.shown = FALSE])
<1>1. Stopped(m) \in Managers
  <2>1. m \in Managers /\ 0 \in 0..MaxShares
    BY CallAssumption DEF MgrOK
  <2>2. (m.out /\ m.enc = "none") \in BOOLEAN /\ (m.startCancelled \/ m.start # "idle") \in BOOLEAN
    OBVIOUS
  <2> QED BY <2>1, <2>2 DEF Managers, Stopped, None
<1>2. MgrOK(Stopped(m)) /\ Stopped(m).joined = m.joined /\ Stopped(m).screen = None
  BY <1>1 DEF MgrOK, Managers, Stopped
<1>3. MgrOK([Stopped(m) EXCEPT !.shown = FALSE])
  BY <1>2, MgrShown
<1>4. ShareOK(m) /\ ~Encoding(m) => ShareOK([Stopped(m) EXCEPT !.shown = FALSE])
  <2> DEFINE n == [Stopped(m) EXCEPT !.shown = FALSE]
  <2>1. m \in Managers
    BY DEF MgrOK
  <2>2. /\ n.screen = None /\ n.enc = "none" /\ n.streaming = FALSE /\ n.shown = FALSE
        /\ n.start = m.start /\ n.run = m.run /\ (n.out <=> m.out /\ m.enc = "none")
    BY <2>1 DEF Stopped, Managers
  <2> HIDE DEF n
  <2>3. ShareOK(m) /\ ~Encoding(m) => ShareOK(n)
    BY <2>2 DEF ShareOK, Encoding
  <2> QED BY <2>3 DEF n
<1> QED BY <1>2, <1>3, <1>4

\* A run ends; the start that waited for it is over.
LEMMA MgrFinish ==
  ASSUME NEW m, MgrOK(m), m.queue # <<>>, m.run # "none"
  PROVE  LET n == [m EXCEPT !.queue = Tail(@), !.run = "none"]
         IN /\ Head(m.queue) = "start" => MgrOK(Over(n)) /\ Over(n).joined = m.joined /\ Over(n).screen = m.screen
            /\ Head(m.queue) # "start" => MgrOK(n) /\ n.joined = m.joined /\ n.screen = m.screen
            /\ Head(m.queue) = "start" => m.start = "settings"
            /\ ShareOK(m) => ShareOK(n)
            /\ ShareOK(m) /\ Head(m.queue) = "start" => ShareOK(Over(n))
<1> DEFINE q == Tail(m.queue)
           n == [m EXCEPT !.queue = q, !.run = "none"]
<1>1. /\ q \in Seq(Entries) /\ OneStart(q)
      /\ Head(m.queue) = "start" => ~HasStart(q) /\ HasStart(m.queue)
      /\ Head(m.queue) # "start" => (HasStart(q) <=> HasStart(m.queue))
  BY QueueTail DEF MgrOK, Managers, Entries
<1> HIDE DEF q
<1>2. n \in Managers
  BY <1>1 DEF MgrOK, Managers, Entries
<1>3. ASSUME Head(m.queue) = "start"
      PROVE  MgrOK(Over(n)) /\ Over(n).joined = m.joined /\ Over(n).screen = m.screen /\ m.start = "settings"
  BY <1>1, <1>2, <1>3 DEF MgrOK, Managers, Over
<1>4. ASSUME Head(m.queue) # "start"
      PROVE  MgrOK(n) /\ n.joined = m.joined /\ n.screen = m.screen
  BY <1>1, <1>2, <1>4 DEF MgrOK, Managers
<1>5. ShareOK(m) => ShareOK(n)
  BY <1>2 DEF ShareOK, MgrOK, Managers
<1>6. ShareOK(m) /\ m.start = "settings" => ShareOK(Over(n))
  BY <1>2 DEF ShareOK, MgrOK, Managers, Over
<1> QED BY <1>3, <1>4, <1>5, <1>6 DEF q

-----------------------------------------------------------------------------
(* Steps of the broadcast of one manager.                                    *)

LEMMA DoneManagers ==
  ASSUME ClientInv, NEW i \in Ids,
         mgr[i].screen # None \/ mgr[i].start # "idle" \/ mgr[i].queue # <<>> \/ mgr[i].run # "none" \/ mgr[i].joined
  PROVE  flow[i] = "done"
  BY DEF ClientInv, FlowInv, NoMgr, None

Broadcasts(i) ==
  /\ UNCHANGED <<flow, chan, mics, mic, call, self, open, rosters>>
  /\ \A what \in odd : what \in odd'
  /\ \A what \in odd' : what \in odd \/ what = "startOutlivesShare"
  /\ used' \in [ids : 0..MaxIds, acts : 0..MaxActs, shares : 0..MaxShares, drops : Nat]
  /\ used'.ids = used.ids /\ used.acts <= used'.acts /\ used.shares <= used'.shares
  /\ liveIn' \subseteq rosters

Captures(i) ==
  \/ screens' = screens /\ mgr'[i].screen = mgr[i].screen
  \/ screens' = screens \ {mgr[i].screen} /\ mgr'[i].screen = None
  \/ /\ screens' = screens \union {mgr'[i].screen}
     /\ mgr[i].screen = None /\ used.shares < mgr'[i].screen /\ mgr'[i].screen <= used'.shares

LEMMA BroadcastStep ==
  ASSUME ClientInv, NEW i \in Ids, flow[i] = "done", Broadcasts(i), Captures(i),
         mgr' \in [Ids -> Managers],
         \A k \in Ids : MgrOK(mgr[k])' /\ mgr'[k].joined = mgr[k].joined,
         \A k \in Ids : k # i => mgr'[k].screen = mgr[k].screen,
         \A k \in Ids : k # i /\ (flow[k] # "done" \/ (~Crossed /\ ~Outlived')) => mgr'[k] = mgr[k],
         i \notin InCall /\ ~Outlived' => liveIn' = liveIn,
         i \in InCall /\ ShareOK(mgr[i]) /\ LiveOK(i) /\ ~Crossed /\ ~Outlived' =>
           ShareOK(mgr[i])' /\ LiveOK(i)'
  PROVE  ClientInv'
<1>1. /\ UNCHANGED <<flow, chan, mics, mic, call, micTestWanted, micMuted, deafened, preDeafenMicMuted, open, rosters>>
      /\ InCall' = InCall /\ (Crossed' <=> Crossed) /\ (~Outlived' => ~Outlived)
      /\ odd' \intersect {"twoJoins", "testWhileJoining", "closedWhileApplying"}
           = odd \intersect {"twoJoins", "testWhileJoining", "closedWhileApplying"}
  BY DEF Broadcasts, self, InCall, Crossed, Outlived, Odd
<1>screens. \A k \in Ids : k # i => mgr'[k].screen = mgr[k].screen
  OBVIOUS
<1>begun. \A k \in Ids : flow[k] # "done" => mgr'[k] = mgr[k]
  OBVIOUS
<1>2. ClientTypes'
  BY <1>1 DEF ClientInv, ClientTypes, Broadcasts
<1>3. FlowInv'
  <2>1. \A k \in Ids : flow[k] # "done" => mgr'[k] = NoMgr
    BY <1>begun DEF ClientInv, FlowInv
  <2>2. \A k \in Ids : mics[k].pending <= used'.acts
    <3>1. \A k \in Ids : mics[k].pending \in Nat
      BY DEF ClientInv, ClientTypes
    <3>2. used.acts \in Nat /\ used'.acts \in Nat /\ used.acts <= used'.acts
      BY CallAssumption DEF ClientInv, ClientTypes, Broadcasts
    <3> QED BY <3>1, <3>2 DEF ClientInv, FlowInv
  <2> QED BY <1>1, <2>1, <2>2 DEF ClientInv, FlowInv, Broadcasts
<1>4. ScreensInv'
  <2>1. \A k \in Ids : mgr[k].screen \in Nat /\ mgr'[k].screen \in Nat /\ mgr[k].screen <= used.shares
    BY CallAssumption DEF ClientInv, ClientTypes, Managers, ScreensInv
  <2>2. used.shares \in Nat /\ used'.shares \in Nat /\ used.shares <= used'.shares
    BY CallAssumption DEF ClientInv, ClientTypes, Broadcasts
  <2>3. \A k \in Ids : mgr'[k].screen <= used'.shares
    BY <1>screens, <2>1, <2>2 DEF Captures, None
  <2>4. \A k, j \in Ids : mgr'[k].screen = mgr'[j].screen /\ mgr'[k].screen # None => k = j
    BY <1>screens, <2>1, <2>2 DEF Captures, ClientInv, ScreensInv, None
  <2>5. screens' = {mgr'[k].screen : k \in Ids} \ {None}
    <3>1. CASE screens' = screens /\ mgr'[i].screen = mgr[i].screen
      BY <1>screens, <3>1 DEF ClientInv, ScreensInv
    <3>2. CASE screens' = screens \ {mgr[i].screen} /\ mgr'[i].screen = None
      BY <1>screens, <3>2 DEF ClientInv, ScreensInv
    <3>3. CASE /\ screens' = screens \union {mgr'[i].screen}
               /\ mgr[i].screen = None /\ used.shares < mgr'[i].screen
      BY <1>screens, <2>2, <3>3 DEF ClientInv, ScreensInv, None
    <3> QED BY <3>1, <3>2, <3>3 DEF Captures
  <2> QED BY <2>3, <2>4, <2>5 DEF ScreensInv
<1>5. CallInv'
  BY <1>1 DEF ClientInv, CallInv, Entering, ClientTypes
<1>6. MuteInv' /\ MicInv'
  BY <1>1 DEF ClientInv, MuteInv, MicInv
<1>7. ShareInv'
  <2> SUFFICES ASSUME ~Crossed', ~Outlived', NEW k \in InCall
               PROVE  ShareOK(mgr[k])' /\ LiveOK(k)'
    BY <1>1 DEF ShareInv
  <2>1. ~Crossed /\ ~Outlived /\ k \in Ids /\ ShareOK(mgr[k]) /\ LiveOK(k)
    BY <1>1 DEF ClientInv, ShareInv, InCall
  <2>2. CASE k = i
    BY <2>1, <2>2
  <2>3. CASE k # i
    <3>1. k = call /\ i \notin InCall
      BY <2>1, <2>3 DEF ClientInv, CallInv
    <3>2. liveIn' = liveIn /\ mgr'[k] = mgr[k]
      BY <2>1, <2>3, <3>1
    <3> QED BY <1>1, <2>1, <3>2 DEF LiveOK
  <2> QED BY <2>2, <2>3
<1> QED BY <1>2, <1>3, <1>4, <1>5, <1>6, <1>7 DEF ClientInv

\* Nobody else is touched.
LEMMA OneManager ==
  ASSUME ClientInv, NEW i \in Ids, flow[i] = "done", Broadcasts(i), NEW n, MgrOK(n), n.joined = mgr[i].joined,
         mgr' = [mgr EXCEPT ![i] = n], Captures(i),
         i \notin InCall /\ ~Outlived' => liveIn' = liveIn,
         i \in InCall /\ ShareOK(mgr[i]) /\ LiveOK(i) /\ ~Crossed /\ ~Outlived' => ShareOK(n) /\ LiveOK(i)'
  PROVE  ClientInv'
<1>1. n \in Managers /\ mgr \in [Ids -> Managers] /\ \A k \in Ids : MgrOK(mgr[k])
  BY DEF MgrOK, ClientInv, ClientTypes, ScreensInv
<1>2. /\ mgr' \in [Ids -> Managers] /\ mgr'[i] = n
      /\ \A k \in Ids : k # i => mgr'[k] = mgr[k]
  BY <1>1
<1>3. ASSUME NEW k \in Ids PROVE MgrOK(mgr[k])' /\ mgr'[k].joined = mgr[k].joined
  <2>1. CASE k = i
    BY <1>2, <2>1
  <2>2. CASE k # i
    BY <1>1, <1>2, <2>2
  <2> QED BY <2>1, <2>2
<1> QED BY <1>2, <1>3, BroadcastStep

\* call_streaming.
LEMMA Streams ==
  ASSUME ClientInv, NEW i \in Ids, NEW on \in BOOLEAN, Streaming(i, on)
  PROVE  /\ liveIn' \subseteq rosters
         /\ open /\ chan[i] \in rosters => (chan[i] \in liveIn' <=> on)
  BY DEF ClientInv, ClientTypes, Streaming

LEMMA QuietActs ==
  ASSUME ClientInv, Act
  PROVE  /\ Acted \in [ids : 0..MaxIds, acts : 0..MaxActs, shares : 0..MaxShares, drops : Nat]
         /\ Acted.ids = used.ids /\ used.acts <= Acted.acts /\ used.shares <= Acted.shares
         /\ Acted.acts = used.acts + 1 /\ Acted.shares = used.shares
<1>1. used.acts \in Nat /\ used.acts < MaxActs /\ MaxActs \in Nat /\ used.shares \in Nat
  BY CallAssumption DEF ClientInv, ClientTypes, Act
<1> QED BY <1>1 DEF Acted, ClientInv, ClientTypes

LEMMA QuietUsed ==
  ASSUME ClientInv
  PROVE  /\ used \in [ids : 0..MaxIds, acts : 0..MaxActs, shares : 0..MaxShares, drops : Nat]
         /\ used.acts <= used.acts /\ used.shares <= used.shares
  BY CallAssumption DEF ClientInv, ClientTypes

LEMMA SettingsQueued ==
  ASSUME ClientInv, ApplyBroadcastSettings
  PROVE  ClientInv'
<1> DEFINE n == [mgr[call] EXCEPT !.queue = Append(@, "user")]
<1>1. /\ Act /\ call # None /\ used' = Acted /\ mgr' = [mgr EXCEPT ![call] = n]
      /\ UNCHANGED <<screens, rosters, liveIn, odd, flow, chan, mics, mic, call, self, open>>
  BY DEF ApplyBroadcastSettings, Rest, server, audio
<1>2. call \in Ids /\ mgr[call].joined /\ MgrOK(mgr[call])
  BY <1>1 DEF ClientInv, ClientTypes, CallInv, ScreensInv
<1>3. MgrOK(n) /\ (ShareOK(mgr[call]) => ShareOK(n))
  BY <1>2, MgrQueued
<1>4. n.joined = mgr[call].joined /\ n.screen = mgr[call].screen /\ n.start = mgr[call].start
  BY <1>2 DEF MgrOK, Managers
<1> HIDE DEF n
<1>5. PICK i \in Ids : i = call
  BY <1>2
<1>6. Broadcasts(i)
  BY <1>1, QuietActs DEF Broadcasts, ClientInv, ClientTypes
<1>7. mgr'[i] = n
  BY <1>1, <1>5 DEF ClientInv, ClientTypes
<1>8. Captures(i)
  BY <1>1, <1>4, <1>5, <1>7 DEF Captures
<1>9. LiveOK(i) => LiveOK(i)'
  BY <1>1, <1>4, <1>5, <1>7 DEF LiveOK
<1> QED BY <1>1, <1>2, <1>3, <1>4, <1>5, <1>6, <1>8, <1>9, OneManager, DoneManagers

LEMMA RunStep ==
  ASSUME ClientInv, NEW i \in Ids, Run(i)
  PROVE  ClientInv'
<1> DEFINE n == [mgr[i] EXCEPT !.run = "constraints"]
<1>1. /\ mgr[i].queue # <<>> /\ used' = used /\ mgr' = [mgr EXCEPT ![i] = n]
      /\ UNCHANGED <<screens, rosters, liveIn, odd, flow, chan, mics, mic, call, self, open>>
  BY DEF Run, Rest, server, audio
<1>2. MgrOK(mgr[i]) /\ flow[i] = "done"
  BY <1>1, DoneManagers DEF ClientInv, ScreensInv
<1>3. MgrOK(n) /\ (ShareOK(mgr[i]) => ShareOK(n))
  BY <1>1, <1>2, MgrRuns
<1>4. n.joined = mgr[i].joined /\ n.screen = mgr[i].screen /\ n.start = mgr[i].start
  BY <1>2 DEF MgrOK, Managers
<1> HIDE DEF n
<1>5. Broadcasts(i)
  BY <1>1, QuietUsed DEF Broadcasts, ClientInv, ClientTypes
<1>6. mgr'[i] = n
  BY <1>1 DEF ClientInv, ClientTypes
<1>7. Captures(i)
  BY <1>1, <1>4, <1>6 DEF Captures
<1>8. LiveOK(i) => LiveOK(i)'
  BY <1>1, <1>4, <1>6 DEF LiveOK
<1> QED BY <1>1, <1>2, <1>3, <1>4, <1>5, <1>7, <1>8, OneManager

LEMMA PickerClosedStep ==
  ASSUME ClientInv, NEW i \in Ids, PickerClosed(i)
  PROVE  ClientInv'
<1> DEFINE n == Over(mgr[i])
<1>1. /\ mgr[i].start = "picker" /\ used' = used /\ mgr' = [mgr EXCEPT ![i] = n]
      /\ UNCHANGED <<screens, rosters, liveIn, odd, flow, chan, mics, mic, call, self, open>>
  BY DEF PickerClosed, Rest, server, audio
<1>2. MgrOK(mgr[i]) /\ flow[i] = "done"
  BY <1>1, DoneManagers DEF ClientInv, ScreensInv
<1>3. /\ MgrOK(n) /\ (ShareOK(mgr[i]) => ShareOK(n))
      /\ n.joined = mgr[i].joined /\ n.screen = mgr[i].screen
  BY <1>1, <1>2, MgrOver
<1> HIDE DEF n
<1>4. Broadcasts(i)
  BY <1>1, QuietUsed DEF Broadcasts, ClientInv, ClientTypes
<1>5. mgr'[i] = n
  BY <1>1 DEF ClientInv, ClientTypes
<1>6. Captures(i)
  BY <1>1, <1>3, <1>5 DEF Captures
<1>7. LiveOK(i) => LiveOK(i)'
  BY <1>1, <1>3, <1>5 DEF LiveOK
<1> QED BY <1>1, <1>2, <1>3, <1>4, <1>6, <1>7, OneManager

\* stopBroadcast, by the button or by the system.
LEMMA StopStep ==
  ASSUME ClientInv, NEW i \in Ids, StopBroadcast(i), Act, used' = Acted
  PROVE  ClientInv'
<1> DEFINE m == [mgr EXCEPT ![i] = Stopped(mgr[i])]
           n == [Stopped(mgr[i]) EXCEPT !.shown = FALSE]
<1>1. /\ mgr[i].screen # None
      /\ mgr' = IF call = None THEN m ELSE [m EXCEPT ![call].shown = FALSE]
      /\ screens' = screens \ {mgr[i].screen}
      /\ mgr[i].joined => Streaming(i, FALSE)
      /\ odd' = IF Encoding(mgr[i]) THEN odd \union {"startOutlivesShare"} ELSE odd
      /\ UNCHANGED <<rosters, flow, chan, mics, mic, call, self, open>>
  BY DEF StopBroadcast, Noting, Rest, audio
<1>2. MgrOK(mgr[i]) /\ flow[i] = "done" /\ mgr[i].joined /\ i \in InCall
  BY <1>1, DoneManagers DEF ClientInv, ScreensInv, MgrOK, Managers, InCall
<1>3. /\ MgrOK(Stopped(mgr[i])) /\ Stopped(mgr[i]).joined = mgr[i].joined /\ Stopped(mgr[i]).screen = None
      /\ MgrOK(n) /\ (ShareOK(mgr[i]) /\ ~Encoding(mgr[i]) => ShareOK(n))
  BY <1>2, MgrStop
<1>4. n.joined = mgr[i].joined /\ n.screen = None /\ Stopped(mgr[i]).start = mgr[i].start /\ n.start = mgr[i].start
  BY <1>3 DEF MgrOK, Managers, Stopped
<1>5. liveIn' \subseteq rosters /\ (open /\ chan[i] \in rosters => chan[i] \notin liveIn')
  BY <1>1, <1>2, Streams
<1>6. Broadcasts(i)
  BY <1>1, <1>5, QuietActs DEF Broadcasts
<1>7. ~Outlived' => ~Encoding(mgr[i])
  BY <1>1 DEF Outlived, Odd
<1>8. ~Crossed => i = call
  BY <1>2 DEF ClientInv, CallInv
<1>9. mgr \in [Ids -> Managers] /\ call \in Ids \union {None} /\ None \notin Ids
  BY DEF ClientInv, ClientTypes, None, Ids
<1> HIDE DEF n
<1>10. CASE call = i
  <2>1. mgr' = [mgr EXCEPT ![i] = n]
    BY <1>1, <1>9, <1>10 DEF n
  <2>2. mgr'[i] = n
    BY <1>9, <2>1
  <2>3. Captures(i)
    BY <1>1, <1>4, <2>2 DEF Captures
  <2>4. ~Encoding(mgr[i]) /\ LiveOK(i) => LiveOK(i)'
    BY <1>1, <1>4, <1>5, <2>2 DEF LiveOK, Encoding
  <2> QED BY <1>2, <1>3, <1>4, <1>6, <1>7, <2>1, <2>3, <2>4, OneManager
<1>11. CASE call = None
  <2>1. mgr' = m /\ mgr'[i] = Stopped(mgr[i])
    BY <1>1, <1>9, <1>11
  <2>2. Captures(i)
    BY <1>1, <1>3, <2>1 DEF Captures
  <2> QED BY <1>2, <1>3, <1>6, <1>8, <1>9, <1>11, <2>1, <2>2, OneManager
<1>12. CASE call # i /\ call # None
  <2>1. mgr' = [m EXCEPT ![call].shown = FALSE]
    BY <1>1, <1>12
  <2>2. /\ mgr' \in [Ids -> Managers] /\ mgr'[i] = Stopped(mgr[i])
        /\ mgr'[call] = [mgr[call] EXCEPT !.shown = FALSE]
        /\ \A k \in Ids : k # i /\ k # call => mgr'[k] = mgr[k]
    <3>1. Stopped(mgr[i]) \in Managers /\ call \in Ids
      BY <1>3, <1>9, <1>12 DEF MgrOK
    <3>2. /\ m \in [Ids -> Managers] /\ m[i] = Stopped(mgr[i]) /\ m[call] = mgr[call]
          /\ \A k \in Ids : k # i => m[k] = mgr[k]
      BY <1>9, <1>12, <3>1
    <3>3. [mgr[call] EXCEPT !.shown = FALSE] \in Managers
      BY <1>9, <3>1 DEF Managers
    <3> HIDE DEF m
    <3>4. mgr' = [m EXCEPT ![call] = [mgr[call] EXCEPT !.shown = FALSE]]
      BY <2>1, <3>2
    <3> QED BY <1>12, <3>1, <3>2, <3>3, <3>4
  <2>3. MgrOK(mgr[call]) /\ mgr[call].joined /\ call \in Ids /\ flow[call] = "done"
    BY <1>9, <1>12, DoneManagers DEF ClientInv, ScreensInv, CallInv
  <2>4. /\ MgrOK([mgr[call] EXCEPT !.shown = FALSE])
        /\ [mgr[call] EXCEPT !.shown = FALSE].joined = mgr[call].joined
        /\ [mgr[call] EXCEPT !.shown = FALSE].screen = mgr[call].screen
    BY <2>3, MgrShown
  <2>5. ASSUME NEW k \in Ids PROVE MgrOK(mgr[k])' /\ mgr'[k].joined = mgr[k].joined
    <3>1. CASE k = i
      BY <1>3, <2>2, <3>1
    <3>2. CASE k = call
      BY <2>2, <2>4, <3>2
    <3>3. CASE k # i /\ k # call
      BY <2>2, <3>3 DEF ClientInv, ScreensInv
    <3> QED BY <3>1, <3>2, <3>3
  <2>6. \A k \in Ids : k # i => mgr'[k].screen = mgr[k].screen
    BY <2>2, <2>4
  <2>7. Captures(i)
    BY <1>1, <1>3, <2>2 DEF Captures
  <2>8. Crossed
    BY <1>8, <1>12
  <2>9. \A k \in Ids : k # i /\ flow[k] # "done" => mgr'[k] = mgr[k]
    BY <2>2, <2>3
  <2> QED BY <1>2, <1>6, <2>2, <2>5, <2>6, <2>7, <2>8, <2>9, BroadcastStep
<1> QED BY <1>10, <1>11, <1>12

LEMMA ToggleStep ==
  ASSUME ClientInv, ToggleBroadcast
  PROVE  ClientInv'
<1> DEFINE n == IF mgr[call].shown THEN [mgr[call] EXCEPT !.shown = FALSE]
                ELSE IF mgr[call].screen # None THEN [mgr[call] EXCEPT !.shown = TRUE]
                ELSE [mgr[call] EXCEPT !.starting = TRUE, !.start = "picker", !.startCancelled = FALSE]
<1>1. /\ Act /\ used' = Acted /\ call # None /\ ~mgr[call].starting
      /\ \/ StopBroadcast(call) /\ mgr[call].shown
         \/ /\ ~(mgr[call].shown /\ mgr[call].screen # None) /\ mgr' = [mgr EXCEPT ![call] = n]
            /\ UNCHANGED <<screens, rosters, liveIn, odd, flow, chan, mics, mic, call, self, open>>
  BY DEF ToggleBroadcast, Rest, server, audio
<1>2. call \in Ids /\ mgr[call].joined /\ MgrOK(mgr[call])
  BY <1>1 DEF ClientInv, ClientTypes, CallInv, ScreensInv
<1>3. PICK i \in Ids : i = call
  BY <1>2
<1>4. CASE StopBroadcast(call)
  BY <1>1, <1>2, <1>4, StopStep
<1>5. CASE /\ ~(mgr[call].shown /\ mgr[call].screen # None) /\ mgr' = [mgr EXCEPT ![call] = n]
           /\ UNCHANGED <<screens, rosters, liveIn, odd, flow, chan, mics, mic, call, self, open>>
  <2>1. mgr[call] \in Managers /\ mgr[call].start = "idle" /\ ~HasStart(mgr[call].queue)
    BY <1>1, <1>2 DEF MgrOK, Managers
  <2>2. n \in Managers
    BY <2>1 DEF Managers
  <2>3. /\ n.joined = mgr[call].joined /\ n.screen = mgr[call].screen /\ n.start \in {"idle", "picker"}
        /\ n.starting <=> (n.start # "idle")
        /\ n.queue = mgr[call].queue /\ n.run = mgr[call].run /\ n.enc = mgr[call].enc /\ n.out = mgr[call].out
        /\ n.streaming = mgr[call].streaming
        /\ n.start = "picker" => n.screen = None
        /\ n.start = "idle" => n.shown = (n.screen # None)
    BY <1>1, <1>5, <2>1 DEF Managers
  <2> HIDE DEF n
  <2>4. MgrOK(n)
    BY <1>2, <2>1, <2>2, <2>3 DEF MgrOK
  <2>5. ShareOK(mgr[call]) => ShareOK(n)
    BY <2>1, <2>3 DEF ShareOK
  <2>6. mgr'[i] = n /\ Broadcasts(i)
    BY <1>1, <1>3, <1>5, QuietActs DEF Broadcasts, ClientInv, ClientTypes
  <2>7. Captures(i)
    BY <1>3, <1>5, <2>3, <2>6 DEF Captures
  <2>8. LiveOK(i) => LiveOK(i)'
    BY <1>3, <1>5, <2>1, <2>3, <2>6 DEF LiveOK
  <2> QED BY <1>2, <1>3, <1>5, <2>3, <2>4, <2>5, <2>6, <2>7, <2>8, OneManager, DoneManagers
<1> QED BY <1>1, <1>4, <1>5

LEMMA EndedStep ==
  ASSUME ClientInv, NEW i \in Ids, Ended(i)
  PROVE  ClientInv'
  BY StopStep DEF Ended

LEMMA PickedStep ==
  ASSUME ClientInv, NEW i \in Ids, NEW relay \in BOOLEAN, Picked(i, relay)
  PROVE  ClientInv'
<1> DEFINE m == mgr[i]
           s == used.shares + 1
           n == [m EXCEPT !.screen = s]
           e == [n EXCEPT !.enc = "starting", !.start = "encoder"]
<1>1. /\ m.start = "picker" /\ s <= MaxShares /\ used' = [used EXCEPT !.shares = s]
      /\ UNCHANGED <<rosters, odd, flow, chan, mics, mic, call, self, open>>
  BY DEF Picked, Rest, audio
<1>2. \/ mgr' = [mgr EXCEPT ![i] = Over(m)] /\ UNCHANGED <<screens, liveIn>>
      \/ ~Discards(m) /\ screens' = screens \union {s} /\ mgr' = [mgr EXCEPT ![i] = e] /\ UNCHANGED liveIn
      \/ ~Discards(m) /\ screens' = screens \union {s} /\ mgr' = [mgr EXCEPT ![i] = Told(n)] /\ Streaming(i, TRUE)
  BY DEF Picked
<1>3. MgrOK(m) /\ flow[i] = "done" /\ mgr \in [Ids -> Managers]
  BY <1>1, DoneManagers DEF ClientInv, ScreensInv, ClientTypes
<1>4. /\ used.shares \in Nat /\ s \in 1..MaxShares /\ s # None /\ used.shares < s
      /\ used' \in [ids : 0..MaxIds, acts : 0..MaxActs, shares : 0..MaxShares, drops : Nat]
      /\ used'.ids = used.ids /\ used'.acts = used.acts /\ used'.shares = s /\ used.acts <= used'.acts
  BY <1>1, CallAssumption DEF ClientInv, ClientTypes, None
<1>5. Broadcasts(i)
  <2>1. liveIn' \subseteq rosters
    BY <1>2, Streams DEF ClientInv, ClientTypes
  <2> QED BY <1>1, <1>4, <2>1 DEF Broadcasts
<1>6. CASE mgr' = [mgr EXCEPT ![i] = Over(m)] /\ UNCHANGED <<screens, liveIn>>
  <2> DEFINE o == Over(m)
  <2>1. MgrOK(o) /\ (ShareOK(m) => ShareOK(o)) /\ o.joined = m.joined /\ o.screen = m.screen
    BY <1>1, <1>3, MgrOver
  <2> HIDE DEF o
  <2>2. mgr' = [mgr EXCEPT ![i] = o] /\ mgr'[i] = o
    BY <1>3, <1>6 DEF o
  <2>3. Captures(i)
    BY <1>6, <2>1, <2>2 DEF Captures
  <2>4. LiveOK(i) => LiveOK(i)'
    BY <1>1, <1>6, <2>1, <2>2 DEF LiveOK
  <2> QED BY <1>3, <1>5, <1>6, <2>1, <2>2, <2>3, <2>4, OneManager
<1>7. CASE ~Discards(m) /\ screens' = screens \union {s} /\ mgr' = [mgr EXCEPT ![i] = e] /\ UNCHANGED liveIn
  <2>1. /\ m \in Managers /\ m.joined /\ m.screen = None /\ m.starting /\ ~HasStart(m.queue) /\ OneStart(m.queue)
        /\ m.run # "none" => m.queue # <<>>
    BY <1>1, <1>3, <1>7 DEF MgrOK, Managers, Discards
  <2>2. /\ e \in Managers /\ e.joined = m.joined /\ e.screen = s /\ e.start = "encoder" /\ e.enc = "starting"
        /\ e.starting = m.starting /\ e.queue = m.queue /\ e.run = m.run /\ e.out = m.out
    BY <1>4, <2>1 DEF Managers
  <2> HIDE DEF e
  <2>3. MgrOK(e)
    BY <2>1, <2>2 DEF MgrOK
  <2>4. ShareOK(m) => ShareOK(e)
    BY <1>4, <2>1, <2>2 DEF ShareOK, Managers
  <2>5. mgr'[i] = e
    BY <1>3, <1>7
  <2>6. Captures(i)
    BY <1>4, <1>7, <2>1, <2>2, <2>5 DEF Captures
  <2>7. LiveOK(i) => LiveOK(i)'
    BY <1>1, <1>7, <2>2, <2>5 DEF LiveOK
  <2> QED BY <1>3, <1>5, <1>7, <2>2, <2>3, <2>4, <2>6, <2>7, OneManager
<1>8. CASE ~Discards(m) /\ screens' = screens \union {s} /\ mgr' = [mgr EXCEPT ![i] = Told(n)] /\ Streaming(i, TRUE)
  <2> DEFINE o == Told(n)
  <2>1. /\ m \in Managers /\ m.joined /\ m.screen = None /\ m.starting /\ ~HasStart(m.queue) /\ OneStart(m.queue)
        /\ m.run # "none" => m.queue # <<>>
    BY <1>1, <1>3, <1>8 DEF MgrOK, Managers, Discards
  <2>2. /\ n \in Managers /\ n.joined = m.joined /\ n.screen = s
        /\ n.starting = m.starting /\ n.queue = m.queue /\ n.run = m.run /\ n.out = m.out /\ n.enc = m.enc
    BY <1>4, <2>1 DEF Managers
  <2> HIDE DEF n
  <2>3. MgrOK(o) /\ o.joined = n.joined /\ o.screen = n.screen
    BY <2>1, <2>2, MgrTold
  <2>4. o.streaming = TRUE /\ o.start = "settings" /\ o.out = n.out /\ o.enc = n.enc /\ o.run = n.run
    BY <2>2 DEF Told, Managers
  <2> HIDE DEF o
  <2>5. ShareOK(m) => ShareOK(o)
    BY <1>4, <2>1, <2>2, <2>3, <2>4 DEF ShareOK, Managers
  <2>6. mgr'[i] = o /\ mgr' = [mgr EXCEPT ![i] = o]
    BY <1>3, <1>8 DEF o
  <2>7. Captures(i)
    BY <1>4, <1>8, <2>1, <2>2, <2>3, <2>6 DEF Captures
  <2>8. LiveOK(i) => LiveOK(i)'
    BY <1>1, <1>4, <1>8, <2>2, <2>3, <2>6, Streams DEF LiveOK
  <2>9. o.joined = mgr[i].joined /\ i \in InCall
    BY <2>1, <2>2, <2>3 DEF InCall
  <2> QED BY <1>3, <1>5, <1>8, <2>3, <2>5, <2>6, <2>7, <2>8, <2>9, OneManager
<1> QED BY <1>2, <1>6, <1>7, <1>8

LEMMA EncoderDoneStep ==
  ASSUME ClientInv, NEW i \in Ids, NEW ok \in BOOLEAN, EncoderDone(i, ok)
  PROVE  ClientInv'
<1> DEFINE m == mgr[i]
           n == IF ok THEN [m EXCEPT !.enc = IF @ = "starting" THEN "on" ELSE @, !.out = TRUE]
                      ELSE [m EXCEPT !.enc = "none"]
           o == Told(n)
<1>1. /\ m.start = "encoder" /\ mgr' = [mgr EXCEPT ![i] = o] /\ Streaming(i, TRUE)
      /\ odd' = IF m.screen = None THEN odd \union {"startOutlivesShare"} ELSE odd
      /\ UNCHANGED <<rosters, screens, used, flow, chan, mics, mic, call, self, open>>
  BY DEF EncoderDone, Noting, Rest, audio
<1>2. MgrOK(m) /\ flow[i] = "done" /\ mgr \in [Ids -> Managers] /\ m \in Managers
  BY <1>1, DoneManagers DEF ClientInv, ScreensInv, ClientTypes
<1>3. /\ n \in Managers /\ n.joined = m.joined /\ n.screen = m.screen /\ n.starting = m.starting
      /\ n.queue = m.queue /\ n.run = m.run
      /\ n.enc = (IF ok THEN IF m.enc = "starting" THEN "on" ELSE m.enc ELSE "none")
      /\ n.out <=> (ok \/ m.out)
  BY <1>2 DEF Managers
<1> HIDE DEF n
<1>4. m.starting /\ ~HasStart(m.queue) /\ OneStart(m.queue) /\ (~m.joined => m.screen = None)
      /\ (m.run # "none" => m.queue # <<>>)
  BY <1>1, <1>2 DEF MgrOK, Managers
<1>5. MgrOK(o) /\ o.joined = m.joined /\ o.screen = m.screen
  BY <1>3, <1>4, MgrTold
<1>6. o.streaming = TRUE /\ o.start = "settings" /\ o.out = n.out /\ o.enc = n.enc /\ o.run = n.run
  BY <1>3 DEF Told, Managers
<1> HIDE DEF o
<1>7. ShareOK(m) => ShareOK(o)
  BY <1>1, <1>3, <1>5, <1>6 DEF ShareOK
<1>8. mgr'[i] = o
  BY <1>1, <1>2
<1>9. Captures(i)
  BY <1>1, <1>5, <1>8 DEF Captures
<1>10. Broadcasts(i)
  BY <1>1, QuietUsed, Streams DEF Broadcasts
<1>11. ~Outlived' => m.screen # None /\ m.joined /\ i \in InCall
  BY <1>1, <1>4 DEF Outlived, Odd, InCall
<1>12. LiveOK(i) /\ ~Outlived' => LiveOK(i)'
  BY <1>1, <1>5, <1>8, <1>11, Streams DEF LiveOK
<1> QED BY <1>1, <1>2, <1>5, <1>7, <1>9, <1>10, <1>11, <1>12, OneManager

\* A run of applySenderSettings ends, and the start that waits for it.
LEMMA FinishStep ==
  ASSUME ClientInv, NEW i \in Ids, NEW m, NEW ok \in BOOLEAN, MgrOK(m), m.queue # <<>>, m.run # "none",
         m.joined = mgr[i].joined, m.screen = mgr[i].screen, m.start = mgr[i].start, flow[i] = "done",
         ShareOK(mgr[i]) => ShareOK([m EXCEPT !.run = "constraints"]),
         Finish(i, m, ok), UNCHANGED <<screens, server, used>>, Rest
  PROVE  ClientInv'
<1> DEFINE r == [m EXCEPT !.run = "constraints"]
           n == [m EXCEPT !.queue = Tail(@), !.run = "none"]
           mine == Head(m.queue) = "start"
           late == mine /\ ok /\ call \notin {None, i}
           o == IF mine THEN Over(n) ELSE n
<1>1. /\ mgr' = IF late THEN [mgr EXCEPT ![i] = Over(n), ![call].shown = TRUE] ELSE [mgr EXCEPT ![i] = o]
      /\ odd' = IF late THEN odd \union {"startOutlivesShare"} ELSE odd
      /\ UNCHANGED <<screens, rosters, liveIn, used, flow, chan, mics, mic, call, self, open>>
  BY DEF Finish, Noting, Rest, server, audio
<1>2. /\ mgr \in [Ids -> Managers] /\ m \in Managers /\ call \in Ids \union {None}
      /\ r.queue = m.queue /\ r.run = "constraints" /\ r.joined = m.joined /\ r.screen = m.screen /\ r.start = m.start
  BY DEF ClientInv, ClientTypes, MgrOK, Managers
<1>3. MgrOK(r) /\ r.queue # <<>> /\ r.run # "none"
  BY <1>2, MgrRuns
<1>4. n = [r EXCEPT !.queue = Tail(@), !.run = "none"]
  BY <1>2 DEF Managers
<1>5. /\ mine => MgrOK(Over(n)) /\ Over(n).joined = m.joined /\ Over(n).screen = m.screen
      /\ ~mine => MgrOK(n) /\ n.joined = m.joined /\ n.screen = m.screen
      /\ mine => m.start = "settings"
      /\ ShareOK(r) => ShareOK(n)
      /\ ShareOK(r) /\ mine => ShareOK(Over(n))
  BY <1>2, <1>3, <1>4, MgrFinish
<1>6. n.start = m.start
  BY <1>2 DEF Managers
<1> HIDE DEF r, n
<1>7. MgrOK(o) /\ o.joined = m.joined /\ o.screen = m.screen /\ (ShareOK(r) => ShareOK(o))
  BY <1>5
<1>8. Broadcasts(i)
  BY <1>1, QuietUsed DEF Broadcasts, ClientInv, ClientTypes
<1>9. CASE ~late
  <2>1. mgr' = [mgr EXCEPT ![i] = o] /\ mgr'[i] = o
    BY <1>1, <1>2, <1>9
  <2>2. mgr[i].start = "encoder" => o.start = "encoder"
    BY <1>5, <1>6
  <2> HIDE DEF o
  <2>3. Captures(i)
    BY <1>1, <1>7, <2>1 DEF Captures
  <2>4. LiveOK(i) => LiveOK(i)'
    BY <1>1, <1>7, <2>1, <2>2 DEF LiveOK
  <2>5. ShareOK(mgr[i]) => ShareOK(o)
    BY <1>7 DEF r
  <2> QED BY <1>1, <1>7, <1>8, <2>1, <2>3, <2>4, <2>5, OneManager
<1>10. CASE late
  <2>1. mine /\ call \in Ids /\ call # i /\ call # None
    BY <1>2, <1>10
  <2>2. /\ mgr' \in [Ids -> Managers] /\ mgr'[i] = Over(n)
        /\ mgr'[call] = [mgr[call] EXCEPT !.shown = TRUE]
        /\ \A k \in Ids : k # i /\ k # call => mgr'[k] = mgr[k]
    <3> DEFINE f == [mgr EXCEPT ![i] = Over(n)]
    <3>1. Over(n) \in Managers
      BY <1>5, <2>1 DEF MgrOK
    <3>2. /\ f \in [Ids -> Managers] /\ f[i] = Over(n) /\ f[call] = mgr[call]
          /\ \A k \in Ids : k # i => f[k] = mgr[k]
      BY <1>2, <2>1, <3>1
    <3>3. [mgr[call] EXCEPT !.shown = TRUE] \in Managers
      BY <1>2, <2>1 DEF Managers
    <3>4. mgr' = [f EXCEPT ![call].shown = TRUE]
      BY <1>1, <1>10
    <3> HIDE DEF f
    <3>5. mgr' = [f EXCEPT ![call] = [mgr[call] EXCEPT !.shown = TRUE]]
      BY <3>2, <3>4
    <3> QED BY <2>1, <3>2, <3>3, <3>5
  <2>3. MgrOK(mgr[call]) /\ mgr[call].joined /\ flow[call] = "done"
    BY <2>1, DoneManagers DEF ClientInv, ScreensInv, CallInv
  <2>4. /\ MgrOK([mgr[call] EXCEPT !.shown = TRUE])
        /\ [mgr[call] EXCEPT !.shown = TRUE].joined = mgr[call].joined
        /\ [mgr[call] EXCEPT !.shown = TRUE].screen = mgr[call].screen
    BY <2>3, MgrShown
  <2>5. ASSUME NEW k \in Ids PROVE MgrOK(mgr[k])' /\ mgr'[k].joined = mgr[k].joined
    <3>1. CASE k = i
      BY <1>5, <2>1, <2>2, <3>1
    <3>2. CASE k = call
      BY <2>2, <2>4, <3>2
    <3>3. CASE k # i /\ k # call
      BY <2>2, <3>3 DEF ClientInv, ScreensInv
    <3> QED BY <3>1, <3>2, <3>3
  <2>6. \A k \in Ids : k # i => mgr'[k].screen = mgr[k].screen
    BY <2>2, <2>4
  <2>7. Captures(i)
    BY <1>1, <1>5, <2>1, <2>2 DEF Captures
  <2>8. Outlived'
    BY <1>1, <1>10 DEF Outlived, Odd
  <2>9. \A k \in Ids : k # i /\ flow[k] # "done" => mgr'[k] = mgr[k]
    BY <2>2, <2>3
  <2> QED BY <1>8, <2>2, <2>5, <2>6, <2>7, <2>8, <2>9, BroadcastStep
<1> QED BY <1>9, <1>10

LEMMA ConstrainedStep ==
  ASSUME ClientInv, NEW i \in Ids, NEW resized \in BOOLEAN, Constrained(i, resized)
  PROVE  ClientInv'
<1> DEFINE m == mgr[i]
           n == [m EXCEPT !.enc = "starting", !.run = "encoder"]
<1>1. m.run = "constraints" /\ UNCHANGED <<screens, server, used>> /\ Rest
  BY DEF Constrained
<1>2. MgrOK(m) /\ flow[i] = "done" /\ mgr \in [Ids -> Managers] /\ m \in Managers /\ m.queue # <<>>
  BY <1>1, DoneManagers DEF ClientInv, ScreensInv, ClientTypes, MgrOK
<1>3. CASE Finish(i, m, TRUE)
  <2>1. [m EXCEPT !.run = "constraints"] = m
    BY <1>1, <1>2 DEF Managers
  <2> QED BY <1>1, <1>2, <1>3, <2>1, FinishStep
<1>4. CASE /\ m.screen # None /\ m.enc = "on"
           /\ mgr' = [mgr EXCEPT ![i].enc = "starting", ![i].run = "encoder"] /\ UNCHANGED odd
  <2>1. mgr' = [mgr EXCEPT ![i] = n]
    BY <1>2, <1>4
  <2>2. /\ n \in Managers /\ n.joined = m.joined /\ n.screen = m.screen /\ n.start = m.start /\ n.starting = m.starting
        /\ n.queue = m.queue /\ n.run = "encoder" /\ n.enc = "starting" /\ n.out = m.out /\ n.streaming = m.streaming
        /\ n.shown = m.shown
    BY <1>2 DEF Managers
  <2> HIDE DEF n
  <2>3. MgrOK(n)
    BY <1>2, <2>2 DEF MgrOK
  <2>4. ShareOK(m) => ShareOK(n)
    BY <1>4, <2>2 DEF ShareOK
  <2>5. mgr'[i] = n
    BY <1>2, <2>1
  <2>6. Broadcasts(i)
    BY <1>1, <1>4, QuietUsed DEF Broadcasts, Rest, server, audio, ClientInv, ClientTypes
  <2>7. Captures(i)
    BY <1>1, <2>2, <2>5 DEF Captures
  <2>8. LiveOK(i) => LiveOK(i)'
    BY <1>1, <2>2, <2>5 DEF LiveOK, Rest, server
  <2> QED BY <1>1, <1>2, <2>1, <2>2, <2>3, <2>4, <2>6, <2>7, <2>8, OneManager DEF server
<1> QED BY <1>3, <1>4 DEF Constrained

LEMMA ReencodedStep ==
  ASSUME ClientInv, NEW i \in Ids, NEW ok \in BOOLEAN, Reencoded(i, ok)
  PROVE  ClientInv'
<1> DEFINE m == mgr[i]
           e == [m EXCEPT !.enc = IF @ = "starting" THEN "on" ELSE @, !.out = TRUE]
<1>1. m.run = "encoder" /\ Finish(i, IF ok THEN e ELSE m, ok) /\ UNCHANGED <<screens, server, used>> /\ Rest
  BY DEF Reencoded
<1>2. MgrOK(m) /\ flow[i] = "done" /\ m \in Managers /\ m.queue # <<>>
  BY <1>1, DoneManagers DEF ClientInv, ScreensInv, ClientTypes, MgrOK
<1>3. CASE ok
  <2>1. /\ e \in Managers /\ e.joined = m.joined /\ e.screen = m.screen /\ e.start = m.start /\ e.starting = m.starting
        /\ e.queue = m.queue /\ e.run = m.run /\ e.streaming = m.streaming /\ e.shown = m.shown /\ e.out = TRUE
        /\ e.enc = (IF m.enc = "starting" THEN "on" ELSE m.enc)
    BY <1>2 DEF Managers
  <2> HIDE DEF e
  <2>2. MgrOK(e)
    BY <1>2, <2>1 DEF MgrOK
  <2>3. ShareOK(m) => ShareOK([e EXCEPT !.run = "constraints"])
    <3> DEFINE r == [e EXCEPT !.run = "constraints"]
    <3>1. /\ r.screen = m.screen /\ r.start = m.start /\ r.run = "constraints" /\ r.streaming = m.streaming
          /\ r.shown = m.shown /\ r.out = TRUE /\ r.enc = e.enc
      BY <2>1 DEF Managers
    <3> HIDE DEF r
    <3>2. ShareOK(m) => ShareOK(r)
      BY <1>1, <2>1, <3>1 DEF ShareOK
    <3> QED BY <3>2 DEF r
  <2>4. Finish(i, e, TRUE)
    BY <1>1, <1>3
  <2> QED BY <1>1, <1>2, <2>1, <2>2, <2>3, <2>4, FinishStep
<1>4. CASE ~ok
  <2>1. ShareOK(m) => ShareOK([m EXCEPT !.run = "constraints"])
    BY <1>2, MgrRuns
  <2>2. Finish(i, m, FALSE)
    BY <1>1, <1>4
  <2> QED BY <1>1, <1>2, <2>1, <2>2, FinishStep
<1> QED BY <1>3, <1>4

-----------------------------------------------------------------------------
(* Steps of joining and leaving.                                             *)

LEMMA OddGrows ==
  ASSUME NEW c, NEW what, Noting(c, what)
  PROVE  /\ \A x \in odd : x \in odd'
         /\ c => what \in odd'
         /\ odd' \subseteq odd \union {what}
  BY DEF Noting

\* Calls and shares are as they were.
LEMMA SameCalls ==
  ASSUME ClientInv, UNCHANGED <<mgr, screens, chan, open, rosters, liveIn>>, \A x \in odd : x \in odd',
         used'.shares = used.shares
  PROVE  ScreensInv' /\ ShareInv' /\ InCall' = InCall /\ (~Crossed' => ~Crossed)
         /\ mgr' \in [Ids -> Managers] /\ rosters' \subseteq CallChannels /\ liveIn' \subseteq rosters'
<1>1. InCall' = InCall /\ (~Crossed' => ~Crossed) /\ (~Outlived' => ~Outlived)
  BY DEF InCall, Crossed, Outlived, Odd
<1>2. ScreensInv'
  BY DEF ClientInv, ScreensInv
<1>3. ShareInv'
  BY <1>1 DEF ClientInv, ShareInv, LiveOK
<1> QED BY <1>1, <1>2, <1>3 DEF ClientInv, ClientTypes

LEMMA MgrLeft ==
  ASSUME NEW m, MgrOK(m)
  PROVE  LET n == [m EXCEPT !.joined = FALSE, !.screen = None,
                    !.enc = "none", !.out = FALSE, !.startCancelled = (m.start # "idle")]
         IN MgrOK(n) /\ ~n.joined /\ n.screen = None
<1> DEFINE n == [m EXCEPT !.joined = FALSE, !.screen = None,
                   !.enc = "none", !.out = FALSE, !.startCancelled = (m.start # "idle")]
<1>1. m \in Managers /\ None \in 0..MaxShares
  BY CallAssumption DEF MgrOK, None
<1>2. /\ n \in Managers /\ ~n.joined /\ n.screen = None
      /\ n.start = m.start /\ n.queue = m.queue /\ n.run = m.run /\ n.starting = m.starting
  BY <1>1 DEF Managers
<1> HIDE DEF n
<1>3. MgrOK(n)
  BY <1>2 DEF MgrOK
<1> QED BY <1>2, <1>3 DEF n

LEMMA Leaves ==
  ASSUME ClientInv, IF call # None THEN LeaveCall ELSE UNCHANGED <<mgr, server, screens, audio, call>>,
         used'.shares = used.shares
  PROVE  /\ mgr' \in [Ids -> Managers]
         /\ \A k \in Ids : mgr'[k] = mgr[k] \/ (flow[k] = "done" /\ ~mgr'[k].joined)
         /\ ScreensInv'
         /\ mics' \in [Ids -> [caps : 0..1, pending : 0..MaxActs, muted : BOOLEAN]]
         /\ \A k \in Ids : mics'[k].pending = mics[k].pending /\ mics'[k].muted = mics[k].muted
         /\ \A k \in Ids : mics'[k].caps > 0 => mics[k].caps > 0 /\ (call # None => k # mic)
         /\ mic' \in Ids \union {None} /\ call' = None
         /\ call # None => mic = call /\ mic' = None
         /\ call = None => mics' = mics /\ mic' = mic
         /\ rosters' \subseteq CallChannels /\ liveIn' \subseteq rosters' /\ (~open => rosters' = {})
         /\ InCall' \subseteq InCall
         /\ ~Crossed => InCall' = {} /\ rosters' = {}
<1>1. None \notin Ids /\ 0 \in 0..1
  BY DEF None, Ids
<1>2. CASE call = None
  <2>1. UNCHANGED <<mgr, rosters, liveIn, screens, mics, mic, call>>
    BY <1>2 DEF server, audio
  <2>2. ScreensInv' /\ InCall' = InCall
    BY <2>1 DEF ClientInv, ScreensInv, InCall
  <2>3. ~Crossed => InCall = {} /\ rosters = {}
    BY <1>1, <1>2 DEF ClientInv, CallInv, InCall
  <2> QED BY <1>2, <2>1, <2>2, <2>3 DEF ClientInv, ClientTypes, CallInv
<1>3. CASE call # None
  <2> DEFINE m == mgr[call]
             n == [m EXCEPT !.joined = FALSE, !.screen = None,
                     !.enc = "none", !.out = FALSE, !.startCancelled = (m.start # "idle")]
  <2>1. /\ mgr' = [mgr EXCEPT ![call] = n] /\ SendLeave /\ screens' = screens \ {m.screen}
        /\ mics' = MicClosed(mic) /\ mic' = None /\ call' = None
    BY <1>3 DEF LeaveCall
  <2>2. call \in Ids /\ m.joined /\ mic = call /\ flow[call] = "done" /\ MgrOK(m)
    BY <1>3, DoneManagers DEF ClientInv, ClientTypes, CallInv, ScreensInv
  <2>3. MgrOK(n) /\ ~n.joined /\ n.screen = None /\ n \in Managers
    BY <2>2, MgrLeft DEF MgrOK
  <2> HIDE DEF n
  <2>4. /\ mgr' \in [Ids -> Managers] /\ mgr'[call] = n
        /\ \A k \in Ids : k # call => mgr'[k] = mgr[k]
    BY <2>1, <2>2, <2>3 DEF ClientInv, ClientTypes
  <2>5. ScreensInv'
    <3>1. \A k \in Ids : MgrOK(mgr[k])'
      <4> TAKE k \in Ids
      <4>1. CASE k = call
        BY <2>3, <2>4, <4>1
      <4>2. CASE k # call
        BY <2>4, <4>2 DEF ClientInv, ScreensInv
      <4> QED BY <4>1, <4>2
    <3>2. \A k \in Ids : mgr'[k].screen <= used'.shares
      <4> TAKE k \in Ids
      <4>1. used.shares \in Nat
        BY DEF ClientInv, ClientTypes
      <4> QED BY <2>3, <2>4, <4>1 DEF ClientInv, ScreensInv, None
    <3>3. \A k, j \in Ids : mgr'[k].screen = mgr'[j].screen /\ mgr'[k].screen # None => k = j
      BY <2>3, <2>4 DEF ClientInv, ScreensInv
    <3>4. screens' = {mgr'[k].screen : k \in Ids} \ {None}
      BY <2>1, <2>2, <2>3, <2>4 DEF ClientInv, ScreensInv
    <3> QED BY <3>1, <3>2, <3>3, <3>4 DEF ScreensInv
  <2>6. mics' = [mics EXCEPT ![call].caps = 0]
    BY <1>3, <2>1, <2>2 DEF MicClosed
  <2>7. /\ mics' \in [Ids -> [caps : 0..1, pending : 0..MaxActs, muted : BOOLEAN]]
        /\ \A k \in Ids : mics'[k].pending = mics[k].pending /\ mics'[k].muted = mics[k].muted
        /\ \A k \in Ids : mics'[k].caps > 0 => mics[k].caps > 0 /\ k # call
    BY <1>1, <2>2, <2>6 DEF ClientInv, ClientTypes
  <2>8. /\ rosters' \subseteq CallChannels /\ liveIn' \subseteq rosters' /\ (~open => rosters' = {})
        /\ rosters' = rosters \/ rosters' = rosters \ {chan[call]}
        /\ open => rosters' = rosters \ {chan[call]}
    BY <2>1 DEF SendLeave, server, ClientInv, ClientTypes, CallInv
  <2>9. InCall' = InCall \ {call}
    BY <2>2, <2>3, <2>4 DEF InCall
  <2>10. ~Crossed => InCall = {call} /\ rosters \subseteq {chan[call]}
    BY <2>2 DEF ClientInv, CallInv, InCall
  <2>11. ~Crossed => InCall' = {} /\ rosters' = {}
    BY <2>8, <2>9, <2>10
  <2> QED BY <1>3, <2>1, <2>2, <2>3, <2>4, <2>5, <2>7, <2>8, <2>9, <2>11
<1> QED BY <1>2, <1>3

\* No microphone is left but one that is still asked for.
LEMMA LeavesMics ==
  ASSUME ClientInv, IF call # None THEN LeaveCall ELSE UNCHANGED <<mgr, server, screens, audio, call>>,
         used'.shares = used.shares, micTestWanted' = micTestWanted,
         \A x \in odd : x \in odd', call # None /\ Applying(mic) => "closedWhileApplying" \in odd'
  PROVE  MicInv'
<1>1. SUFFICES ASSUME odd' \intersect {"twoJoins", "testWhileJoining", "closedWhileApplying"} = {}
               PROVE  /\ \A i \in Ids : mics'[i].caps > 0 \/ mics'[i].pending > 0 => i = mic'
                      /\ mic' # None => call' # None \/ micTestWanted'
  BY DEF MicInv
<1>2. odd \intersect {"twoJoins", "testWhileJoining", "closedWhileApplying"} = {}
      /\ ~(call # None /\ Applying(mic))
  BY <1>1
<1>3. /\ \A i \in Ids : mics[i].caps > 0 \/ mics[i].pending > 0 => i = mic
      /\ mic # None => call # None \/ micTestWanted
  BY <1>2 DEF ClientInv, MicInv
<1> QED BY <1>2, <1>3, Leaves DEF Applying

\* The next id is new.
LEMMA Begins ==
  ASSUME ClientInv, NEW i \in Ids, NEW pc \in {"turn", "test", "done"}, Begin(i, pc)
  PROVE  /\ flow' = [flow EXCEPT ![i] = pc] /\ flow[i] = "none" /\ mgr[i] = NoMgr
         /\ flow' \in [Ids -> {"none", "turn", "joinMic", "test", "done"}]
         /\ used' \in [ids : 0..MaxIds, acts : 0..MaxActs, shares : 0..MaxShares, drops : Nat]
         /\ used'.shares = used.shares /\ used'.acts = used.acts + 1 /\ used.acts \in Nat
         /\ \A k \in Ids : k > used'.ids => flow'[k] = "none"
<1>1. /\ used.acts < MaxActs /\ i = used.ids + 1 /\ flow' = [flow EXCEPT ![i] = pc]
      /\ used' = [used EXCEPT !.ids = i, !.acts = @ + 1]
  BY DEF Begin, Act
<1>2. /\ used \in [ids : 0..MaxIds, acts : 0..MaxActs, shares : 0..MaxShares, drops : Nat]
      /\ used.ids \in Nat /\ used.acts \in Nat /\ MaxActs \in Nat /\ MaxIds \in Nat /\ i \in 1..MaxIds
  BY CallAssumption DEF ClientInv, ClientTypes, Ids
<1>3. /\ used' \in [ids : 0..MaxIds, acts : 0..MaxActs, shares : 0..MaxShares, drops : Nat]
      /\ used'.ids = i /\ used'.shares = used.shares /\ used'.acts = used.acts + 1
  <2>1. i \in 0..MaxIds /\ used.acts + 1 \in 0..MaxActs
    BY <1>1, <1>2
  <2> QED BY <1>1, <1>2, <2>1
<1>4. flow[i] = "none" /\ mgr[i] = NoMgr
  BY <1>1, <1>2 DEF ClientInv, FlowInv
<1>5. flow' \in [Ids -> {"none", "turn", "joinMic", "test", "done"}]
  BY <1>1 DEF ClientInv, ClientTypes
<1>6. \A k \in Ids : k > used'.ids => flow'[k] = "none"
  <2> SUFFICES ASSUME NEW k \in Ids, k > i PROVE flow'[k] = "none"
    BY <1>3
  <2>1. k \in Nat /\ k > used.ids /\ k # i
    BY <1>1, <1>2 DEF Ids
  <2> QED BY <1>1, <2>1 DEF ClientInv, FlowInv, ClientTypes
<1> QED BY <1>1, <1>2, <1>3, <1>4, <1>5, <1>6

LEMMA JoinCallStep ==
  ASSUME ClientInv, NEW i \in Ids, NEW c \in CallChannels, JoinCall(i, c)
  PROVE  ClientInv'
<1>1. /\ Begin(i, "turn") /\ chan' = [chan EXCEPT ![i] = c]
      /\ IF call # None THEN LeaveCall ELSE UNCHANGED <<mgr, server, screens, audio, call>>
      /\ odd' = odd \union (IF Joining THEN {"twoJoins"} ELSE {})
                 \union (IF call # None /\ Applying(mic) THEN {"closedWhileApplying"} ELSE {})
      /\ UNCHANGED <<micTestWanted, micMuted, deafened, preDeafenMicMuted, open>>
  BY DEF JoinCall, self
<1>2. /\ flow' = [flow EXCEPT ![i] = "turn"] /\ flow[i] = "none" /\ mgr[i] = NoMgr
      /\ flow' \in [Ids -> {"none", "turn", "joinMic", "test", "done"}]
      /\ used' \in [ids : 0..MaxIds, acts : 0..MaxActs, shares : 0..MaxShares, drops : Nat]
      /\ used'.shares = used.shares /\ used'.acts = used.acts + 1 /\ used.acts \in Nat
      /\ \A k \in Ids : k > used'.ids => flow'[k] = "none"
  BY <1>1, Begins
<1>3. /\ mgr' \in [Ids -> Managers]
      /\ \A k \in Ids : mgr'[k] = mgr[k] \/ (flow[k] = "done" /\ ~mgr'[k].joined)
      /\ ScreensInv'
      /\ mics' \in [Ids -> [caps : 0..1, pending : 0..MaxActs, muted : BOOLEAN]]
      /\ \A k \in Ids : mics'[k].pending = mics[k].pending /\ mics'[k].muted = mics[k].muted
      /\ mic' \in Ids \union {None} /\ call' = None
      /\ rosters' \subseteq CallChannels /\ liveIn' \subseteq rosters' /\ (~open => rosters' = {})
      /\ InCall' \subseteq InCall
      /\ ~Crossed => InCall' = {} /\ rosters' = {}
  BY <1>1, <1>2, Leaves
<1>4. /\ \A x \in odd : x \in odd'
      /\ ~Crossed' => ~Crossed /\ ~Joining
      /\ call # None /\ Applying(mic) => "closedWhileApplying" \in odd'
  BY <1>1 DEF Crossed, Odd
<1>5. /\ chan' \in [Ids -> CallChannels \union {None}] /\ chan'[i] = c
      /\ \A k \in Ids : k # i => chan'[k] = chan[k] /\ flow'[k] = flow[k]
      /\ flow'[i] = "turn"
  BY <1>1, <1>2 DEF ClientInv, ClientTypes
<1>6. ClientTypes'
  BY <1>1, <1>2, <1>3, <1>5 DEF ClientInv, ClientTypes
<1>7. FlowInv'
  <2>1. \A k \in Ids : flow'[k] # "done" => mgr'[k] = NoMgr
    BY <1>2, <1>3, <1>5 DEF ClientInv, FlowInv
  <2>2. \A k \in Ids : flow'[k] \in {"turn", "joinMic"} \/ mgr'[k].joined => chan'[k] \in CallChannels
    BY <1>3, <1>5 DEF ClientInv, FlowInv, InCall
  <2>3. \A k \in Ids : mics'[k].pending <= used'.acts
    <3>1. \A k \in Ids : mics[k].pending \in Nat /\ mics[k].pending <= used.acts
      BY CallAssumption DEF ClientInv, ClientTypes, FlowInv
    <3> QED BY <1>2, <1>3, <3>1
  <2> QED BY <1>2, <2>1, <2>2, <2>3 DEF FlowInv
<1>8. CallInv'
  BY <1>1, <1>3, <1>4, <1>5 DEF CallInv, Entering, Joining
<1>9. MuteInv'
  BY <1>1, <1>3, <1>4 DEF ClientInv, MuteInv, InCall
<1>10. MicInv'
  BY <1>1, <1>2, <1>4, LeavesMics
<1>11. ShareInv'
  BY <1>3, <1>4 DEF ShareInv
<1> QED BY <1>3, <1>6, <1>7, <1>8, <1>9, <1>10, <1>11 DEF ClientInv

LEMMA HangUpStep ==
  ASSUME ClientInv, HangUp
  PROVE  ClientInv'
<1>1. /\ Act /\ call # None /\ LeaveCall /\ used' = Acted
      /\ Noting(Applying(mic), "closedWhileApplying")
      /\ UNCHANGED <<flow, chan, micTestWanted, micMuted, deafened, preDeafenMicMuted, open>>
  BY DEF HangUp, self
<1>2. /\ used' \in [ids : 0..MaxIds, acts : 0..MaxActs, shares : 0..MaxShares, drops : Nat]
      /\ used'.ids = used.ids /\ used'.shares = used.shares /\ used'.acts = used.acts + 1
  BY <1>1, QuietActs
<1>3. /\ mgr' \in [Ids -> Managers]
      /\ \A k \in Ids : mgr'[k] = mgr[k] \/ (flow[k] = "done" /\ ~mgr'[k].joined)
      /\ ScreensInv'
      /\ mics' \in [Ids -> [caps : 0..1, pending : 0..MaxActs, muted : BOOLEAN]]
      /\ \A k \in Ids : mics'[k].pending = mics[k].pending /\ mics'[k].muted = mics[k].muted
      /\ mic' \in Ids \union {None} /\ call' = None
      /\ rosters' \subseteq CallChannels /\ liveIn' \subseteq rosters' /\ (~open => rosters' = {})
      /\ InCall' \subseteq InCall
      /\ ~Crossed => InCall' = {} /\ rosters' = {}
  BY <1>1, <1>2, Leaves
<1>4. /\ \A x \in odd : x \in odd'
      /\ ~Crossed' => ~Crossed
      /\ call # None /\ Applying(mic) => "closedWhileApplying" \in odd'
  BY <1>1, OddGrows DEF Crossed, Odd
<1>5. ClientTypes'
  BY <1>1, <1>2, <1>3 DEF ClientInv, ClientTypes
<1>6. FlowInv'
  <2>1. \A k \in Ids : flow'[k] # "done" => mgr'[k] = NoMgr
    BY <1>1, <1>3 DEF ClientInv, FlowInv
  <2>2. \A k \in Ids : flow'[k] \in {"turn", "joinMic"} \/ mgr'[k].joined => chan'[k] \in CallChannels
    BY <1>1, <1>3 DEF ClientInv, FlowInv
  <2>3. \A k \in Ids : mics'[k].pending <= used'.acts
    <3>1. \A k \in Ids : mics[k].pending \in Nat /\ mics[k].pending <= used.acts
      BY CallAssumption DEF ClientInv, ClientTypes, FlowInv
    <3>2. used.acts \in Nat
      BY DEF ClientInv, ClientTypes
    <3> QED BY <1>2, <1>3, <3>1, <3>2
  <2> QED BY <1>1, <1>2, <2>1, <2>2, <2>3 DEF ClientInv, FlowInv
<1>7. CallInv'
  BY <1>1, <1>3, <1>4 DEF ClientInv, CallInv, Entering
<1>8. MuteInv'
  BY <1>1, <1>3, <1>4 DEF ClientInv, MuteInv, InCall
<1>9. MicInv'
  BY <1>1, <1>2, <1>4, LeavesMics
<1>10. ShareInv'
  BY <1>3, <1>4 DEF ShareInv
<1> QED BY <1>3, <1>5, <1>6, <1>7, <1>8, <1>9, <1>10 DEF ClientInv

LEMMA FailStep ==
  ASSUME ClientInv, NEW i \in Ids, Fail(i)
  PROVE  ClientInv'
<1>1. /\ flow[i] \in {"turn", "joinMic", "test"} /\ flow' = [flow EXCEPT ![i] = "done"]
      /\ UNCHANGED <<chan, mics, mic, mgr, call, micTestWanted, micMuted, deafened, preDeafenMicMuted,
                     screens, open, rosters, liveIn, used, odd>>
  BY DEF Fail, audio, self, server
<1>2. ScreensInv' /\ ShareInv' /\ InCall' = InCall /\ (Crossed' <=> Crossed)
  BY <1>1, SameCalls DEF Crossed, Odd
<1>3. /\ flow' \in [Ids -> {"none", "turn", "joinMic", "test", "done"}] /\ flow'[i] = "done"
      /\ \A k \in Ids : k # i => flow'[k] = flow[k]
  BY <1>1 DEF ClientInv, ClientTypes
<1>4. ClientTypes' /\ FlowInv'
  BY <1>1, <1>3 DEF ClientInv, ClientTypes, FlowInv
<1>5. CallInv'
  BY <1>1, <1>2, <1>3 DEF ClientInv, CallInv, Entering
<1>6. MuteInv' /\ MicInv'
  BY <1>1, <1>2 DEF ClientInv, MuteInv, MicInv
<1> QED BY <1>2, <1>4, <1>5, <1>6 DEF ClientInv

LEMMA FreshMic ==
  ASSUME NEW b \in BOOLEAN
  PROVE  Opened(b) \in [caps : 0..1, pending : 0..MaxActs, muted : BOOLEAN] /\ Opened(b).pending = 0 /\ Opened(b).muted = b
<1>1. Off \in [caps : 0..1, pending : 0..MaxActs, muted : BOOLEAN] /\ Off.pending = 0
  BY CallAssumption DEF Off
<1>2. Opened(b) = [Off EXCEPT !.caps = 1, !.muted = b]
  BY DEF Opened
<1> HIDE DEF Off
<1>3. Opened(b).pending = 0
  BY <1>1, <1>2
<1>4. Opened(b).muted = b
  <2>1. "muted" \in DOMAIN [Off EXCEPT !.caps = 1]
    BY <1>1
  <2>2. [Off EXCEPT !.caps = 1, !.muted = b].muted = b
    BY <2>1, Zenon
  <2> QED BY <1>2, <2>2
<1>5. Opened(b) \in [caps : 0..1, pending : 0..MaxActs, muted : BOOLEAN]
  <2>1. [Off EXCEPT !.caps = 1] \in [caps : 0..1, pending : 0..MaxActs, muted : BOOLEAN]
    BY <1>1
  <2>2. [[Off EXCEPT !.caps = 1] EXCEPT !.muted = b] \in [caps : 0..1, pending : 0..MaxActs, muted : BOOLEAN]
    <3>1. CASE b = TRUE
      BY <2>1, <3>1
    <3>2. CASE b = FALSE
      BY <2>1, <3>2
    <3> QED BY <3>1, <3>2
  <2>3. Opened(b) = [[Off EXCEPT !.caps = 1] EXCEPT !.muted = b]
    BY <1>2
  <2> QED BY <2>2, <2>3
<1> QED BY <1>3, <1>4, <1>5

\* MicInput.open of a joinCall.
LEMMA JoinedStep ==
  ASSUME ClientInv, NEW i \in Ids, Joined(i)
  PROVE  ClientInv'
<1> DEFINE n == [NoMgr EXCEPT !.joined = TRUE]
<1>1. /\ flow[i] = "joinMic" /\ flow' = [flow EXCEPT ![i] = "done"]
      /\ mics' = [mics EXCEPT ![i] = Opened(micMuted)] /\ mic' = i /\ call' = i
      /\ mgr' = [mgr EXCEPT ![i].joined = TRUE]
      /\ rosters' = IF open THEN rosters \union {chan[i]} ELSE rosters
      /\ Noting(mic # None /\ call = None, "testWhileJoining")
      /\ UNCHANGED <<chan, micTestWanted, micMuted, deafened, preDeafenMicMuted, screens, open, liveIn, used>>
  BY DEF Joined, Takes, self
<1>2. mgr[i] = NoMgr /\ chan[i] \in CallChannels /\ Entering(i)
  BY <1>1 DEF ClientInv, FlowInv, Entering
<1>3. MgrOK(n) /\ ShareOK(n) /\ n.joined /\ n.screen = None /\ n.start = "idle" /\ n \in Managers
  BY NewMgr DEF MgrOK, ShareOK, NoMgr, Managers, None
<1>4. mgr' = [mgr EXCEPT ![i] = n]
  BY <1>1, <1>2 DEF ClientInv, ClientTypes
<1> HIDE DEF n
<1>5. /\ mgr' \in [Ids -> Managers] /\ mgr'[i] = n
      /\ \A k \in Ids : k # i => mgr'[k] = mgr[k]
  BY <1>3, <1>4 DEF ClientInv, ClientTypes
<1>6. mgr[i].screen = None /\ ~mgr[i].joined
  BY <1>2 DEF NoMgr
<1>7. InCall' = InCall \union {i}
  BY <1>3, <1>5 DEF InCall
<1>8. /\ ~Crossed' => ~Crossed
      /\ odd' \intersect {"twoJoins", "testWhileJoining", "closedWhileApplying"} = {} =>
            /\ odd \intersect {"twoJoins", "testWhileJoining", "closedWhileApplying"} = {}
            /\ ~(mic # None /\ call = None)
  BY <1>1 DEF Noting, Crossed, Odd
<1>9. ~Crossed => call = None /\ InCall = {} /\ rosters = {}
  BY <1>2 DEF ClientInv, CallInv, InCall, None, Ids
<1>10. /\ flow' \in [Ids -> {"none", "turn", "joinMic", "test", "done"}] /\ flow'[i] = "done"
       /\ \A k \in Ids : k # i => flow'[k] = flow[k]
  BY <1>1 DEF ClientInv, ClientTypes
<1>11. /\ mics' \in [Ids -> [caps : 0..1, pending : 0..MaxActs, muted : BOOLEAN]]
       /\ mics'[i] = Opened(micMuted) /\ mics'[i].pending = 0 /\ mics'[i].muted = micMuted
       /\ \A k \in Ids : k # i => mics'[k] = mics[k]
  <2>1. Opened(micMuted) \in [caps : 0..1, pending : 0..MaxActs, muted : BOOLEAN]
        /\ Opened(micMuted).pending = 0 /\ Opened(micMuted).muted = micMuted
    BY FreshMic DEF ClientInv, ClientTypes
  <2> QED BY <1>1, <2>1 DEF ClientInv, ClientTypes
<1>12. ClientTypes'
  <2>1. rosters' \subseteq CallChannels /\ liveIn' \subseteq rosters'
    BY <1>1, <1>2 DEF ClientInv, ClientTypes
  <2>2. mic' \in Ids \union {None} /\ call' \in Ids \union {None}
    BY <1>1
  <2> QED BY <1>1, <1>5, <1>10, <1>11, <2>1, <2>2 DEF ClientInv, ClientTypes
<1>13. FlowInv'
  <2>1. \A k \in Ids : flow'[k] # "done" => mgr'[k] = NoMgr
    BY <1>5, <1>10 DEF ClientInv, FlowInv
  <2>2. \A k \in Ids : flow'[k] \in {"turn", "joinMic"} \/ mgr'[k].joined => chan'[k] \in CallChannels
    BY <1>1, <1>2, <1>5, <1>10 DEF ClientInv, FlowInv
  <2>3. \A k \in Ids : mics'[k].pending <= used'.acts
    <3>1. used.acts \in Nat /\ \A k \in Ids : mics[k].pending <= used.acts
      BY DEF ClientInv, FlowInv, ClientTypes
    <3> QED BY <1>1, <1>11, <3>1
  <2>4. \A k \in Ids : k > used'.ids => flow'[k] = "none"
    BY <1>1, <1>10 DEF ClientInv, FlowInv
  <2> QED BY <2>1, <2>2, <2>3, <2>4 DEF FlowInv
<1>14. ScreensInv'
  <2>1. \A k \in Ids : MgrOK(mgr[k])' /\ mgr'[k].screen = mgr[k].screen
    <3> TAKE k \in Ids
    <3>1. CASE k = i
      BY <1>3, <1>5, <1>6, <3>1
    <3>2. CASE k # i
      BY <1>5, <3>2 DEF ClientInv, ScreensInv
    <3> QED BY <3>1, <3>2
  <2>2. {mgr'[k].screen : k \in Ids} = {mgr[k].screen : k \in Ids}
    BY <2>1
  <2> QED BY <1>1, <2>1, <2>2 DEF ClientInv, ScreensInv
<1>15. CallInv'
  <2>1. call' # None => mgr'[call'].joined /\ mic' = call'
    BY <1>1, <1>3, <1>5
  <2>2. ~open' => rosters' = {}
    BY <1>1 DEF ClientInv, CallInv
  <2>3. ASSUME ~Crossed'
        PROVE  /\ \A k, j \in Ids : Entering(k)' /\ Entering(j)' => k = j
               /\ \A k \in Ids : Entering(k)' => call' = None
               /\ \A k \in InCall' : k = call'
               /\ rosters' \subseteq {chan'[k] : k \in InCall'}
    <3>1. \A k \in Ids : ~Entering(k)'
      BY <1>2, <1>8, <1>10, <2>3 DEF ClientInv, CallInv, Entering
    <3>2. InCall' = {i} /\ rosters' \subseteq {chan[i]}
      BY <1>1, <1>7, <1>8, <1>9, <2>3
    <3> QED BY <1>1, <3>1, <3>2
  <2> QED BY <2>1, <2>2, <2>3 DEF CallInv
<1>16. MuteInv'
  BY <1>1, <1>7, <1>8, <1>11 DEF ClientInv, MuteInv
<1>17. MicInv'
  <2> SUFFICES ASSUME odd' \intersect {"twoJoins", "testWhileJoining", "closedWhileApplying"} = {}
               PROVE  /\ \A k \in Ids : mics'[k].caps > 0 \/ mics'[k].pending > 0 => k = mic'
                      /\ mic' # None => call' # None \/ micTestWanted'
    BY DEF MicInv
  <2>1. ~Crossed /\ mic = None
    BY <1>8, <1>9 DEF Crossed, Odd
  <2>2. \A k \in Ids : mics[k].caps > 0 \/ mics[k].pending > 0 => k = mic
    BY <1>8 DEF ClientInv, MicInv
  <2>3. i # None
    BY DEF Ids, None
  <2> QED BY <1>1, <1>11, <2>1, <2>2, <2>3 DEF Ids, None
<1>18. ShareInv'
  <2> SUFFICES ASSUME ~Crossed', ~Outlived', NEW k \in InCall' PROVE ShareOK(mgr[k])' /\ LiveOK(k)'
    BY DEF ShareInv
  <2>1. k = i /\ rosters = {} /\ liveIn = {}
    BY <1>7, <1>8, <1>9 DEF ClientInv, ClientTypes
  <2>2. ShareOK(mgr[k])'
    BY <1>3, <1>5, <2>1
  <2>3. LiveOK(k)'
    BY <1>1, <1>3, <1>5, <2>1 DEF LiveOK
  <2> QED BY <2>2, <2>3
<1> QED BY <1>12, <1>13, <1>14, <1>15, <1>16, <1>17, <1>18 DEF ClientInv

-----------------------------------------------------------------------------
(* Steps of the microphone.                                                  *)

\* stopMicTest: what was still asked for is noted.
LEMMA TestStops ==
  ASSUME ClientInv, StopMicTest, Noting(call = None /\ Applying(mic), "closedWhileApplying"), UNCHANGED call
  PROVE  /\ mics' \in [Ids -> [caps : 0..1, pending : 0..MaxActs, muted : BOOLEAN]]
         /\ \A k \in Ids : mics'[k].pending = mics[k].pending /\ mics'[k].muted = mics[k].muted
         /\ mic' \in Ids \union {None} /\ micTestWanted' = FALSE
         /\ call # None => mic' = mic
         /\ MicInv'
         /\ ~Crossed' <=> ~Crossed
         /\ \A x \in odd : x \in odd'
<1>1. micTestWanted' = FALSE /\ IF call # None THEN mics' = mics /\ mic' = mic ELSE mics' = MicClosed(mic) /\ mic' = None
  BY DEF StopMicTest, audio
<1>2. /\ mics \in [Ids -> [caps : 0..1, pending : 0..MaxActs, muted : BOOLEAN]]
      /\ mic \in Ids \union {None} /\ None \notin Ids /\ 0 \in 0..1
  BY DEF ClientInv, ClientTypes, None, Ids
<1>3. ~Crossed' <=> ~Crossed
  BY DEF Noting, Crossed, Odd
<1>4. /\ mics' \in [Ids -> [caps : 0..1, pending : 0..MaxActs, muted : BOOLEAN]]
      /\ \A k \in Ids : mics'[k].pending = mics[k].pending /\ mics'[k].muted = mics[k].muted
      /\ \A k \in Ids : mics'[k].caps > 0 => mics[k].caps > 0 /\ (call = None => k # mic)
  BY <1>1, <1>2 DEF MicClosed
<1>5. MicInv'
  <2> SUFFICES ASSUME odd' \intersect {"twoJoins", "testWhileJoining", "closedWhileApplying"} = {}
               PROVE  /\ \A i \in Ids : mics'[i].caps > 0 \/ mics'[i].pending > 0 => i = mic'
                      /\ mic' # None => call' # None \/ micTestWanted'
    BY DEF MicInv
  <2>1. /\ odd \intersect {"twoJoins", "testWhileJoining", "closedWhileApplying"} = {}
        /\ ~(call = None /\ Applying(mic))
    BY DEF Noting
  <2>2. \A i \in Ids : mics[i].caps > 0 \/ mics[i].pending > 0 => i = mic
    BY <2>1 DEF ClientInv, MicInv
  <2> QED BY <1>1, <1>2, <1>4, <2>1, <2>2 DEF Applying
<1> QED BY <1>1, <1>2, <1>3, <1>4, <1>5, OddGrows

LEMMA TurnAnswerStep ==
  ASSUME ClientInv, NEW i \in Ids, TurnAnswer(i)
  PROVE  ClientInv'
<1>1. /\ flow[i] = "turn" /\ flow' = [flow EXCEPT ![i] = "joinMic"] /\ StopMicTest
      /\ Noting(call = None /\ Applying(mic), "closedWhileApplying")
      /\ UNCHANGED <<chan, mgr, call, micMuted, deafened, preDeafenMicMuted, screens, open, rosters, liveIn, used>>
  BY DEF TurnAnswer, server
<1>2. /\ mics' \in [Ids -> [caps : 0..1, pending : 0..MaxActs, muted : BOOLEAN]]
      /\ \A k \in Ids : mics'[k].pending = mics[k].pending /\ mics'[k].muted = mics[k].muted
      /\ mic' \in Ids \union {None} /\ micTestWanted' = FALSE
      /\ call # None => mic' = mic
      /\ MicInv' /\ (~Crossed' <=> ~Crossed)
      /\ \A x \in odd : x \in odd'
  BY <1>1, TestStops
<1>3. ScreensInv' /\ ShareInv' /\ InCall' = InCall
  BY <1>1, <1>2, SameCalls
<1>4. /\ flow' \in [Ids -> {"none", "turn", "joinMic", "test", "done"}] /\ flow'[i] = "joinMic"
      /\ \A k \in Ids : k # i => flow'[k] = flow[k]
  BY <1>1 DEF ClientInv, ClientTypes
<1>5. ClientTypes'
  BY <1>1, <1>2, <1>4 DEF ClientInv, ClientTypes
<1>6. FlowInv'
  BY <1>1, <1>2, <1>4 DEF ClientInv, FlowInv
<1>7. CallInv'
  BY <1>1, <1>2, <1>3, <1>4 DEF ClientInv, CallInv, Entering
<1>8. MuteInv'
  BY <1>1, <1>2, <1>3 DEF ClientInv, MuteInv, InCall
<1> QED BY <1>2, <1>3, <1>5, <1>6, <1>7, <1>8 DEF ClientInv

LEMMA CloseSettingsStep ==
  ASSUME ClientInv, CloseSettings
  PROVE  ClientInv'
<1>1. /\ Act /\ used' = Acted /\ StopMicTest
      /\ Noting(call = None /\ Applying(mic), "closedWhileApplying")
      /\ UNCHANGED <<flow, chan, mgr, call, micMuted, deafened, preDeafenMicMuted, screens, open, rosters, liveIn>>
  BY DEF CloseSettings, server
<1>2. /\ mics' \in [Ids -> [caps : 0..1, pending : 0..MaxActs, muted : BOOLEAN]]
      /\ \A k \in Ids : mics'[k].pending = mics[k].pending /\ mics'[k].muted = mics[k].muted
      /\ mic' \in Ids \union {None} /\ micTestWanted' = FALSE
      /\ call # None => mic' = mic
      /\ MicInv' /\ (~Crossed' <=> ~Crossed)
      /\ \A x \in odd : x \in odd'
  BY <1>1, TestStops
<1>3. /\ used' \in [ids : 0..MaxIds, acts : 0..MaxActs, shares : 0..MaxShares, drops : Nat]
      /\ used'.ids = used.ids /\ used'.shares = used.shares /\ used'.acts = used.acts + 1
  BY <1>1, QuietActs
<1>4. ScreensInv' /\ ShareInv' /\ InCall' = InCall
  BY <1>1, <1>2, <1>3, SameCalls
<1>5. ClientTypes'
  BY <1>1, <1>2, <1>3 DEF ClientInv, ClientTypes
<1>6. FlowInv'
  <2>1. used.acts \in Nat /\ \A k \in Ids : mics[k].pending \in Nat
    BY DEF ClientInv, ClientTypes
  <2> QED BY <1>1, <1>2, <1>3, <2>1 DEF ClientInv, FlowInv
<1>7. CallInv'
  BY <1>1, <1>2, <1>4 DEF ClientInv, CallInv, Entering
<1>8. MuteInv'
  BY <1>1, <1>2, <1>4 DEF ClientInv, MuteInv, InCall
<1> QED BY <1>2, <1>4, <1>5, <1>6, <1>7, <1>8 DEF ClientInv

LEMMA StartMicTestStep ==
  ASSUME ClientInv, NEW i \in Ids, StartMicTest(i)
  PROVE  ClientInv'
<1>1. PICK pc \in {"test", "done"} :
        /\ Begin(i, pc) /\ micTestWanted' = TRUE
        /\ UNCHANGED <<chan, mics, mic, mgr, call, micMuted, deafened, preDeafenMicMuted, screens, open, rosters, liveIn, odd>>
  BY DEF StartMicTest, audio, server
<1>2. /\ flow' = [flow EXCEPT ![i] = pc] /\ flow[i] = "none" /\ mgr[i] = NoMgr
      /\ flow' \in [Ids -> {"none", "turn", "joinMic", "test", "done"}]
      /\ used' \in [ids : 0..MaxIds, acts : 0..MaxActs, shares : 0..MaxShares, drops : Nat]
      /\ used'.shares = used.shares /\ used'.acts = used.acts + 1 /\ used.acts \in Nat
      /\ \A k \in Ids : k > used'.ids => flow'[k] = "none"
  BY <1>1, Begins
<1>3. flow'[i] = pc /\ \A k \in Ids : k # i => flow'[k] = flow[k]
  BY <1>2 DEF ClientInv, ClientTypes
<1>4. ScreensInv' /\ ShareInv' /\ InCall' = InCall /\ (Crossed' <=> Crossed)
  BY <1>1, <1>2, SameCalls DEF Crossed, Odd
<1>5. ClientTypes'
  BY <1>1, <1>2 DEF ClientInv, ClientTypes
<1>6. FlowInv'
  <2>1. \A k \in Ids : mics[k].pending \in Nat
    BY DEF ClientInv, ClientTypes
  <2> QED BY <1>1, <1>2, <1>3, <2>1 DEF ClientInv, FlowInv
<1>7. CallInv'
  BY <1>1, <1>3, <1>4 DEF ClientInv, CallInv, Entering
<1>8. MuteInv' /\ MicInv'
  BY <1>1, <1>4 DEF ClientInv, MuteInv, MicInv
<1> QED BY <1>4, <1>5, <1>6, <1>7, <1>8 DEF ClientInv

LEMMA TestOpenedStep ==
  ASSUME ClientInv, NEW i \in Ids, TestOpened(i)
  PROVE  ClientInv'
<1>1. /\ flow[i] = "test" /\ flow' = [flow EXCEPT ![i] = "done"]
      /\ IF GivesWay THEN mics' = mics /\ mic' = mic
         ELSE mic' = i /\ mics' = [mics EXCEPT ![i] = Opened(FALSE)]
      /\ UNCHANGED <<chan, mgr, call, micTestWanted, micMuted, deafened, preDeafenMicMuted,
                     screens, open, rosters, liveIn, used, odd>>
  BY DEF TestOpened, audio, self, server
<1>2. ScreensInv' /\ ShareInv' /\ InCall' = InCall /\ (Crossed' <=> Crossed)
  BY <1>1, SameCalls DEF Crossed, Odd
<1>3. /\ flow' \in [Ids -> {"none", "turn", "joinMic", "test", "done"}] /\ flow'[i] = "done"
      /\ \A k \in Ids : k # i => flow'[k] = flow[k]
  BY <1>1 DEF ClientInv, ClientTypes
<1>4. i \notin InCall
  BY <1>1 DEF ClientInv, FlowInv, NoMgr, InCall
<1>5. /\ mics' \in [Ids -> [caps : 0..1, pending : 0..MaxActs, muted : BOOLEAN]]
      /\ mic' \in Ids \union {None}
      /\ \A k \in Ids : mics'[k].pending <= mics[k].pending /\ mics'[k].pending \in Nat /\ mics[k].pending \in Nat
      /\ \A k \in Ids : k # i => mics'[k] = mics[k]
  <2>1. Opened(FALSE) \in [caps : 0..1, pending : 0..MaxActs, muted : BOOLEAN] /\ Opened(FALSE).pending = 0
    BY FreshMic
  <2>2. /\ mics \in [Ids -> [caps : 0..1, pending : 0..MaxActs, muted : BOOLEAN]] /\ mic \in Ids \union {None}
        /\ \A k \in Ids : mics[k].pending \in Nat
    BY CallAssumption DEF ClientInv, ClientTypes
  <2>3. CASE GivesWay
    BY <1>1, <2>2, <2>3
  <2>4. CASE ~GivesWay
    <3>1. mics' = [mics EXCEPT ![i] = Opened(FALSE)] /\ mic' = i
      BY <1>1, <2>4
    <3>2. mics'[i] = Opened(FALSE) /\ \A k \in Ids : k # i => mics'[k] = mics[k]
      BY <2>2, <3>1
    <3>3. mics' \in [Ids -> [caps : 0..1, pending : 0..MaxActs, muted : BOOLEAN]]
      BY <2>1, <2>2, <3>1
    <3>4. mics[i].pending \in Nat /\ mics'[i].pending = 0
      BY <2>1, <2>2, <3>2
    <3>5. \A k \in Ids : mics'[k].pending <= mics[k].pending /\ mics'[k].pending \in Nat
      <4> TAKE k \in Ids
      <4>1. CASE k = i
        BY <3>4, <4>1
      <4>2. CASE k # i
        BY <2>2, <3>2, <4>2
      <4> QED BY <4>1, <4>2
    <3> QED BY <2>2, <3>1, <3>2, <3>3, <3>5
  <2> QED BY <2>3, <2>4
<1>6. ClientTypes'
  BY <1>1, <1>3, <1>5 DEF ClientInv, ClientTypes
<1>7. FlowInv'
  <2>1. used.acts \in Nat
    BY DEF ClientInv, ClientTypes
  <2> QED BY <1>1, <1>3, <1>5, <2>1 DEF ClientInv, FlowInv
<1>8. CallInv'
  <2>1. call # None => mic' = mic
    BY <1>1 DEF GivesWay
  <2> QED BY <1>1, <1>2, <1>3, <2>1 DEF ClientInv, CallInv, Entering
<1>9. MuteInv'
  BY <1>1, <1>2, <1>4, <1>5 DEF ClientInv, MuteInv, InCall
<1>10. MicInv'
  <2>1. CASE GivesWay
    BY <1>1, <2>1 DEF ClientInv, MicInv
  <2>2. CASE ~GivesWay
    <3>1. mic = None /\ micTestWanted /\ mic' = i /\ \A k \in Ids : k # None
      BY <1>1, <2>2 DEF GivesWay, Ids, None
    <3> QED BY <1>1, <1>5, <3>1 DEF ClientInv, MicInv
  <2> QED BY <2>1, <2>2
<1> QED BY <1>2, <1>6, <1>7, <1>8, <1>9, <1>10 DEF ClientInv

LEMMA ApplyVoiceStep ==
  ASSUME ClientInv, ApplyVoice
  PROVE  ClientInv'
<1>1. /\ Act /\ mic # None /\ used' = Acted /\ mics' = [mics EXCEPT ![mic].pending = @ + 1]
      /\ UNCHANGED <<flow, chan, mgr, mic, call, micTestWanted, micMuted, deafened, preDeafenMicMuted,
                     screens, open, rosters, liveIn, odd>>
  BY DEF ApplyVoice, self, server
<1>2. /\ used' \in [ids : 0..MaxIds, acts : 0..MaxActs, shares : 0..MaxShares, drops : Nat]
      /\ used'.ids = used.ids /\ used'.shares = used.shares /\ used'.acts = used.acts + 1
      /\ used.acts \in Nat /\ used.acts + 1 <= MaxActs /\ MaxActs \in Nat
  BY <1>1, QuietActs, CallAssumption DEF Act, ClientInv, ClientTypes
<1>3. /\ mics' \in [Ids -> [caps : 0..1, pending : 0..MaxActs, muted : BOOLEAN]]
      /\ \A k \in Ids : mics'[k].caps = mics[k].caps /\ mics'[k].muted = mics[k].muted
      /\ \A k \in Ids : mics'[k].pending <= used'.acts
      /\ \A k \in Ids : k # mic => mics'[k] = mics[k]
  <2>1. \A k \in Ids : mics[k].pending \in 0..MaxActs /\ mics[k].pending <= used.acts
    BY DEF ClientInv, ClientTypes, FlowInv
  <2>2. mic \in Ids /\ mics \in [Ids -> [caps : 0..1, pending : 0..MaxActs, muted : BOOLEAN]]
    BY <1>1 DEF ClientInv, ClientTypes
  <2>3. mics[mic].pending + 1 \in 0..MaxActs /\ mics[mic].pending + 1 <= used'.acts
    BY <1>2, <2>1, <2>2
  <2>4. [mics[mic] EXCEPT !.pending = @ + 1] \in [caps : 0..1, pending : 0..MaxActs, muted : BOOLEAN]
    BY <2>2, <2>3
  <2> QED BY <1>1, <1>2, <2>1, <2>2, <2>3, <2>4
<1>4. ScreensInv' /\ ShareInv' /\ InCall' = InCall /\ (Crossed' <=> Crossed)
  BY <1>1, <1>2, SameCalls DEF Crossed, Odd
<1>5. ClientTypes'
  BY <1>1, <1>2, <1>3 DEF ClientInv, ClientTypes
<1>6. FlowInv'
  BY <1>1, <1>2, <1>3 DEF ClientInv, FlowInv
<1>7. CallInv'
  BY <1>1, <1>4 DEF ClientInv, CallInv, Entering
<1>8. MuteInv' /\ MicInv'
  BY <1>1, <1>3, <1>4 DEF ClientInv, MuteInv, MicInv, InCall
<1> QED BY <1>4, <1>5, <1>6, <1>7, <1>8 DEF ClientInv

LEMMA AppliedStep ==
  ASSUME ClientInv, NEW i \in Ids, NEW ok \in BOOLEAN, Applied(i, ok)
  PROVE  ClientInv'
<1>1. /\ mics[i].pending > 0 /\ mics' = [mics EXCEPT ![i].pending = @ - 1, ![i].caps = IF ok THEN 1 ELSE @]
      /\ UNCHANGED <<flow, chan, mgr, mic, call, micTestWanted, micMuted, deafened, preDeafenMicMuted,
                     screens, open, rosters, liveIn, used, odd>>
  BY DEF Applied, self, server
<1>2. /\ mics \in [Ids -> [caps : 0..1, pending : 0..MaxActs, muted : BOOLEAN]] /\ used.acts \in Nat /\ MaxActs \in Nat
      /\ \A k \in Ids : mics[k].pending <= used.acts
  BY CallAssumption DEF ClientInv, ClientTypes, FlowInv
<1>3. /\ mics' \in [Ids -> [caps : 0..1, pending : 0..MaxActs, muted : BOOLEAN]]
      /\ \A k \in Ids : mics'[k].muted = mics[k].muted
      /\ \A k \in Ids : mics'[k].pending <= used.acts
      /\ \A k \in Ids : k # i => mics'[k] = mics[k]
  <2> DEFINE n == [mics[i] EXCEPT !.pending = @ - 1, !.caps = IF ok THEN 1 ELSE @]
  <2>1. mics[i].pending - 1 \in 0..MaxActs /\ mics[i].pending - 1 <= used.acts
    BY <1>1, <1>2
  <2>2. n \in [caps : 0..1, pending : 0..MaxActs, muted : BOOLEAN] /\ n.muted = mics[i].muted /\ n.pending <= used.acts
    <3>1. mics[i] \in [caps : 0..1, pending : 0..MaxActs, muted : BOOLEAN] /\ 1 \in 0..1
      BY <1>2
    <3>2. CASE ok
      BY <2>1, <3>1, <3>2
    <3>3. CASE ~ok
      BY <2>1, <3>1, <3>3
    <3> QED BY <3>2, <3>3
  <2>3. mics' = [mics EXCEPT ![i] = n]
    BY <1>1, <1>2
  <2> HIDE DEF n
  <2> QED BY <1>2, <2>2, <2>3
<1>4. ScreensInv' /\ ShareInv' /\ InCall' = InCall /\ (Crossed' <=> Crossed)
  BY <1>1, SameCalls DEF Crossed, Odd
<1>5. ClientTypes'
  BY <1>1, <1>3 DEF ClientInv, ClientTypes
<1>6. FlowInv'
  BY <1>1, <1>3 DEF ClientInv, FlowInv
<1>7. CallInv'
  BY <1>1, <1>4 DEF ClientInv, CallInv, Entering
<1>8. MuteInv' /\ MicInv'
  BY <1>1, <1>3, <1>4 DEF ClientInv, MuteInv, MicInv, InCall
<1> QED BY <1>4, <1>5, <1>6, <1>7, <1>8 DEF ClientInv

\* The buttons: the microphone takes the flag, and it is the one of the call.
LEMMA AnnounceStep ==
  ASSUME ClientInv, AnnounceSelf, micMuted' \in BOOLEAN, deafened' \in BOOLEAN, preDeafenMicMuted' \in BOOLEAN,
         deafened' => micMuted'
  PROVE  ClientInv'
<1>1. /\ Act /\ used' = Acted
      /\ mics' = IF mic = None THEN mics ELSE [mics EXCEPT ![mic].muted = micMuted']
      /\ UNCHANGED <<flow, chan, mgr, mic, call, micTestWanted, screens, open, rosters, liveIn, odd>>
  BY DEF AnnounceSelf, server
<1>2. /\ used' \in [ids : 0..MaxIds, acts : 0..MaxActs, shares : 0..MaxShares, drops : Nat]
      /\ used'.ids = used.ids /\ used'.shares = used.shares /\ used'.acts = used.acts + 1 /\ used.acts \in Nat
  BY <1>1, QuietActs DEF ClientInv, ClientTypes
<1>3. /\ mics' \in [Ids -> [caps : 0..1, pending : 0..MaxActs, muted : BOOLEAN]]
      /\ \A k \in Ids : mics'[k].caps = mics[k].caps /\ mics'[k].pending = mics[k].pending /\ mics[k].pending \in Nat
      /\ mic \in Ids => mics'[mic].muted = micMuted'
  <2>1. mic \in Ids \union {None} /\ None \notin Ids /\ mics \in [Ids -> [caps : 0..1, pending : 0..MaxActs, muted : BOOLEAN]]
    BY DEF ClientInv, ClientTypes, None, Ids
  <2>2. CASE mic = None
    BY <1>1, <2>1, <2>2
  <2>3. CASE mic \in Ids
    <3>1. mics' = [mics EXCEPT ![mic].muted = micMuted']
      BY <1>1, <2>1, <2>3
    <3> QED BY <2>1, <2>3, <3>1
  <2> QED BY <2>1, <2>2, <2>3
<1>4. ScreensInv' /\ ShareInv' /\ InCall' = InCall /\ (Crossed' <=> Crossed)
  BY <1>1, <1>2, SameCalls DEF Crossed, Odd
<1>5. ClientTypes'
  BY <1>1, <1>2, <1>3 DEF ClientInv, ClientTypes
<1>6. FlowInv'
  BY <1>1, <1>2, <1>3 DEF ClientInv, FlowInv
<1>7. CallInv'
  BY <1>1, <1>4 DEF ClientInv, CallInv, Entering
<1>8. MuteInv'
  <2>1. ASSUME ~Crossed, NEW k \in InCall PROVE k = mic /\ mic \in Ids
    BY <2>1 DEF ClientInv, CallInv, InCall, None, Ids
  <2> QED BY <1>3, <1>4, <2>1 DEF MuteInv
<1>9. MicInv'
  BY <1>1, <1>3 DEF ClientInv, MicInv
<1> QED BY <1>4, <1>5, <1>6, <1>7, <1>8, <1>9 DEF ClientInv

LEMMA ToggleMicStep ==
  ASSUME ClientInv, ToggleMic
  PROVE  ClientInv'
  BY AnnounceStep DEF ToggleMic, ClientInv, ClientTypes

LEMMA ToggleDeafenStep ==
  ASSUME ClientInv, ToggleDeafen
  PROVE  ClientInv'
  BY AnnounceStep DEF ToggleDeafen, ClientInv, ClientTypes

-----------------------------------------------------------------------------
(* Steps of the socket.                                                      *)

LEMMA DropStep ==
  ASSUME ClientInv, Drop
  PROVE  ClientInv'
<1>1. /\ used' = [used EXCEPT !.drops = @ + 1] /\ open' = FALSE /\ rosters' = {} /\ liveIn' = {}
      /\ UNCHANGED <<flow, chan, mics, mic, mgr, call, micTestWanted, micMuted, deafened, preDeafenMicMuted, screens, odd>>
  BY DEF Drop, audio, self
<1>2. /\ used' \in [ids : 0..MaxIds, acts : 0..MaxActs, shares : 0..MaxShares, drops : Nat]
      /\ used'.ids = used.ids /\ used'.shares = used.shares /\ used'.acts = used.acts
  BY <1>1 DEF ClientInv, ClientTypes
<1>3. InCall' = InCall /\ (Crossed' <=> Crossed) /\ (Outlived' <=> Outlived)
  BY <1>1 DEF InCall, Crossed, Outlived, Odd
<1>4. ClientTypes'
  BY <1>1, <1>2 DEF ClientInv, ClientTypes
<1>5. FlowInv' /\ ScreensInv'
  BY <1>1, <1>2 DEF ClientInv, FlowInv, ScreensInv
<1>6. CallInv' /\ MuteInv' /\ MicInv'
  BY <1>1, <1>3 DEF ClientInv, CallInv, Entering, MuteInv, MicInv
<1>7. ShareInv'
  BY <1>1, <1>3 DEF ClientInv, ShareInv, LiveOK
<1> QED BY <1>4, <1>5, <1>6, <1>7 DEF ClientInv

LEMMA ReopenStep ==
  ASSUME ClientInv, Reopen
  PROVE  ClientInv'
<1>1. /\ open' = TRUE
      /\ rosters' = {chan[i] : i \in InCall}
      /\ liveIn' = {chan[i] : i \in {j \in InCall : mgr[j].screen # None}}
      /\ UNCHANGED <<flow, chan, mics, mic, mgr, call, micTestWanted, micMuted, deafened, preDeafenMicMuted,
                     screens, used, odd>>
  BY DEF Reopen, Rejoined, audio, self
<1>2. InCall' = InCall /\ (Crossed' <=> Crossed) /\ (Outlived' <=> Outlived)
  BY <1>1 DEF InCall, Crossed, Outlived, Odd
<1>3. rosters' \subseteq CallChannels /\ liveIn' \subseteq rosters'
  BY <1>1 DEF ClientInv, FlowInv, InCall
<1>4. ClientTypes'
  BY <1>1, <1>3 DEF ClientInv, ClientTypes
<1>5. FlowInv' /\ ScreensInv'
  BY <1>1 DEF ClientInv, FlowInv, ScreensInv
<1>6. CallInv' /\ MuteInv' /\ MicInv'
  BY <1>1, <1>2 DEF ClientInv, CallInv, Entering, MuteInv, MicInv
<1>7. ShareInv'
  <2> SUFFICES ASSUME ~Crossed, ~Outlived, NEW k \in InCall PROVE ShareOK(mgr[k])' /\ LiveOK(k)'
    BY <1>2 DEF ShareInv
  <2>1. ShareOK(mgr[k])
    BY DEF ClientInv, ShareInv
  <2>2. InCall = {k}
    BY DEF ClientInv, CallInv
  <2>3. chan[k] \in rosters' /\ (chan[k] \in liveIn' <=> mgr[k].screen # None)
    BY <1>1, <2>2
  <2> QED BY <1>1, <2>1, <2>3 DEF LiveOK
<1> QED BY <1>4, <1>5, <1>6, <1>7 DEF ClientInv

-----------------------------------------------------------------------------
(* The invariant holds in every state.                                       *)

LEMMA InitInv == CallInit => ClientInv
<1> SUFFICES ASSUME CallInit PROVE ClientInv
  OBVIOUS
<1>1. /\ flow = [i \in Ids |-> "none"] /\ chan = [i \in Ids |-> None] /\ mics = [i \in Ids |-> Off]
      /\ mgr = [i \in Ids |-> NoMgr]
      /\ mic = None /\ call = None /\ micTestWanted = FALSE /\ preDeafenMicMuted = FALSE
      /\ micMuted \in BOOLEAN /\ deafened \in {FALSE, micMuted}
      /\ screens = {} /\ open = TRUE /\ rosters = {} /\ liveIn = {}
      /\ used = [ids |-> 0, acts |-> 0, shares |-> 0, drops |-> 0] /\ odd = {}
  BY DEF CallInit
<1>2. Off \in [caps : 0..1, pending : 0..MaxActs, muted : BOOLEAN] /\ Off.caps = 0 /\ Off.pending = 0
  BY CallAssumption DEF Off
<1>3. MgrOK(NoMgr) /\ NoMgr \in Managers /\ ~NoMgr.joined /\ NoMgr.screen = None
  BY NewMgr DEF MgrOK, NoMgr
<1>4. InCall = {}
  BY <1>1, <1>3 DEF InCall
<1> HIDE DEF Off, NoMgr
<1>5. ClientTypes
  <2>1. used \in [ids : 0..MaxIds, acts : 0..MaxActs, shares : 0..MaxShares, drops : Nat]
    BY <1>1, CallAssumption
  <2> QED BY <1>1, <1>2, <1>3, <2>1 DEF ClientTypes
<1>6. FlowInv
  BY <1>1, <1>2, <1>3 DEF FlowInv
<1>7. ScreensInv
  <2>1. used.shares = 0
    BY <1>1
  <2> QED BY <1>1, <1>3, <2>1 DEF ScreensInv, None
<1>8. CallInv
  BY <1>1, <1>4 DEF CallInv, Entering
<1>9. MuteInv /\ MicInv /\ ShareInv
  <2>1. MuteInv
    <3>1. deafened = FALSE \/ deafened = micMuted
      BY <1>1
    <3>2. deafened => micMuted
      BY <3>1, Zenon
    <3> QED BY <1>4, <3>2 DEF MuteInv
  <2>2. MicInv
    <3>1. \A i \in Ids : mics[i].caps = 0 /\ mics[i].pending = 0
      BY <1>1, <1>2
    <3> QED BY <1>1, <3>1 DEF MicInv
  <2>3. ShareInv
    BY <1>4 DEF ShareInv
  <2> QED BY <2>1, <2>2, <2>3
<1> QED BY <1>5, <1>6, <1>7, <1>8, <1>9 DEF ClientInv

LEMMA StutterInv == ClientInv /\ UNCHANGED callVars => ClientInv'
<1> SUFFICES ASSUME ClientInv, UNCHANGED callVars PROVE ClientInv'
  OBVIOUS
<1>1. UNCHANGED <<flow, chan, mics, mic, mgr, call, micTestWanted, micMuted, deafened, preDeafenMicMuted, screens,
                  open, rosters, liveIn, used, odd>>
  BY DEF callVars, audio, self, server
<1>2. ScreensInv' /\ ShareInv' /\ InCall' = InCall /\ (Crossed' <=> Crossed)
  BY <1>1, SameCalls DEF Crossed, Odd
<1>3. ClientTypes' /\ FlowInv'
  BY <1>1 DEF ClientInv, ClientTypes, FlowInv
<1>4. CallInv' /\ MuteInv' /\ MicInv'
  BY <1>1, <1>2 DEF ClientInv, CallInv, Entering, MuteInv, MicInv
<1> QED BY <1>2, <1>3, <1>4 DEF ClientInv

LEMMA NextInv == ClientInv /\ CallNext => ClientInv'
<1> SUFFICES ASSUME ClientInv, CallNext PROVE ClientInv'
  OBVIOUS
<1>1. ASSUME NEW i \in Ids, NEW c \in CallChannels, JoinCall(i, c) PROVE ClientInv'
  BY <1>1, JoinCallStep
<1>2. ASSUME NEW i \in Ids, StartMicTest(i) \/ Ended(i) PROVE ClientInv'
  BY <1>2, StartMicTestStep, EndedStep
<1>3. ASSUME HangUp \/ CloseSettings \/ ApplyVoice \/ ToggleMic \/ ToggleDeafen PROVE ClientInv'
  BY <1>3, HangUpStep, CloseSettingsStep, ApplyVoiceStep, ToggleMicStep, ToggleDeafenStep
<1>4. ASSUME ToggleBroadcast \/ ApplyBroadcastSettings PROVE ClientInv'
  BY <1>4, ToggleStep, SettingsQueued
<1>5. ASSUME NEW i \in Ids, TurnAnswer(i) \/ Fail(i) \/ TestOpened(i) \/ Joined(i) PROVE ClientInv'
  BY <1>5, TurnAnswerStep, FailStep, TestOpenedStep, JoinedStep
<1>6. ASSUME NEW i \in Ids, NEW ok \in BOOLEAN, Applied(i, ok) \/ Picked(i, ok) \/ EncoderDone(i, ok) PROVE ClientInv'
  BY <1>6, AppliedStep, PickedStep, EncoderDoneStep
<1>7. ASSUME NEW i \in Ids, NEW ok \in BOOLEAN, Constrained(i, ok) \/ Reencoded(i, ok) PROVE ClientInv'
  BY <1>7, ConstrainedStep, ReencodedStep
<1>8. ASSUME NEW i \in Ids, PickerClosed(i) \/ Run(i) PROVE ClientInv'
  BY <1>8, PickerClosedStep, RunStep
<1>9. CASE Drop \/ Reopen
  BY <1>9, DropStep, ReopenStep
<1>10. CASE User
  BY <1>1, <1>2, <1>3, <1>4, <1>10 DEF User
<1>11. ASSUME NEW i \in Ids, Awaited(i) PROVE ClientInv'
  BY <1>5, <1>6, <1>7, <1>8, <1>11 DEF Awaited
<1> QED BY <1>9, <1>10, <1>11 DEF CallNext

THEOREM ClientInvHolds == CallSpec => []ClientInv
<1>1. ClientInv /\ [CallNext]_callVars => ClientInv'
  BY NextInv, StutterInv
<1> QED BY InitInv, <1>1, PTL DEF CallSpec

-----------------------------------------------------------------------------
(* What it implies.                                                          *)

\* A captured screen is the screen of a manager that is in its call: whatever is
\* stopped or left while the picker is open, somebody can still end the capture.
THEOREM ScreenOwnedHolds == CallSpec => []ScreenOwned
<1>1. ClientInv => ScreenOwned
  <2> SUFFICES ASSUME ClientInv PROVE ScreenOwned
    OBVIOUS
  <2>1. \A i \in Ids : mgr[i].screen # None => mgr[i].joined
    BY DEF ClientInv, ScreensInv, MgrOK, Managers
  <2>2. screens = {mgr[i].screen : i \in Ids} \ {None}
    BY DEF ClientInv, ScreensInv
  <2> QED BY <2>1, <2>2 DEF ScreenOwned, InCall
<1> QED BY <1>1, ClientInvHolds, PTL

\* Whoever is muted is not heard: no microphone of a call is on, whenever the
\* button was pressed, but for two joins that cross each other.
THEOREM MutedIsSilentHolds == CallSpec => []MutedIsSilent
<1>1. ClientInv => MutedIsSilent
  BY DEF ClientInv, MuteInv, MutedIsSilent, Crossed
<1> QED BY <1>1, ClientInvHolds, PTL

\* The store holds every captured microphone, and for a purpose, but for the
\* three coincidences that the property names.
THEOREM MicsOwnedHolds == CallSpec => []MicsOwnedCalm
<1>1. ClientInv => MicsOwnedCalm
  BY DEF ClientInv, MicInv, MicsOwnedCalm, MicsOwned
<1> QED BY <1>1, ClientInvHolds, PTL

\* Once no start is under way, peers, relay, server and button say whether we
\* share, unless a start or a new encoder outlived its share.
THEOREM ShareIsToldHolds == CallSpec => []ShareIsToldCalm
<1>1. ClientInv => ShareIsToldCalm
  <2> SUFFICES ASSUME ClientInv, ~Odd("startOutlivesShare"), ~Odd("twoJoins"), NEW i \in InCall, mgr[i].start = "idle"
               PROVE  LET shares == mgr[i].screen # None
                      IN /\ mgr[i].streaming = shares /\ (mgr[i].out => shares)
                         /\ i = call => mgr[i].shown = shares
                         /\ open => (chan[i] \in liveIn) = shares
    BY DEF ShareIsToldCalm, ShareIsTold, Tells
  <2>1. ShareOK(mgr[i]) /\ LiveOK(i)
    BY DEF ClientInv, ShareInv, Crossed, Outlived
  <2>2. (chan[i] \in liveIn) \in BOOLEAN /\ mgr[i] \in Managers
    BY DEF ClientInv, ClientTypes, InCall
  <2> QED BY <2>1, <2>2 DEF ShareOK, LiveOK, Managers
<1> QED BY <1>1, ClientInvHolds, PTL

\* Every variable keeps its type, and a manager's start, its marks and the queue
\* of its settings agree.
THEOREM ClientTypeCorrect == CallSpec => []CallTypeOK
<1>1. ClientInv => CallTypeOK
  <2> SUFFICES ASSUME ClientInv PROVE CallTypeOK
    OBVIOUS
  <2>1. screens \subseteq 1..MaxShares
    <3>1. \A i \in Ids : mgr[i].screen \in 0..MaxShares
      BY DEF ClientInv, ClientTypes, Managers
    <3>2. MaxShares \in Nat
      BY CallAssumption
    <3> QED BY <3>1, <3>2 DEF ClientInv, ScreensInv, None
  <2>2. \A i \in Ids : /\ mgr[i].starting <=> (mgr[i].start # "idle")
                       /\ mgr[i].run # "none" => mgr[i].queue # <<>>
                       /\ (mgr[i].start = "settings") <=> \E n \in DOMAIN mgr[i].queue : mgr[i].queue[n] = "start"
    BY DEF ClientInv, ScreensInv, MgrOK, HasStart
  <2> QED BY <2>1, <2>2 DEF ClientInv, ClientTypes, CallTypeOK
<1> QED BY <1>1, ClientInvHolds, PTL

=============================================================================

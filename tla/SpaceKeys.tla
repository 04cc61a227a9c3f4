----------------------------- MODULE SpaceKeys ------------------------------
(***************************************************************************)
(* The keys of one space: server/src/spaces.rs (membership, wrapped keys,    *)
(* current_epoch) with the flows of client/src/lib/store.svelte.ts that      *)
(* drive it: create a space, redeem an invite, wrap the keys for a newcomer, *)
(* load the keys, remove a member and rotate.                                *)
(*                                                                           *)
(* A flow is one call of an async method of the store; its pc says at which  *)
(* await it stands.  Each locked section of a REST handler is a step, so     *)
(* handlers of different clients interleave, and answers reach a client in   *)
(* any order.  An event is a flow at pc "event": it is on its way through    *)
(* the WebSocket, and lost if that closes.                                   *)
(*                                                                           *)
(* Keys are numbers in the order they are generated; 0 is "no key".          *)
(***************************************************************************)
EXTENDS Integers, FiniteSets

CONSTANTS Users, Owner,
          FirstMembers,     \* members who share key 1 at the start; {} if the
                            \* space is only being created
          MaxKicks,         \* bound: members removed
          MaxJoins,         \* bound: invites redeemed
          MaxDrops,         \* bound: WebSockets that close
          MaxRestarts,      \* bound: client restarts
          MaxFailures       \* bound: lost answers and server crashes

ASSUME ConstantsAssumption ==
  /\ Owner \in Users
  /\ FirstMembers \subseteq Users
  /\ FirstMembers # {} => Owner \in FirstMembers
  /\ {MaxKicks, MaxJoins, MaxDrops, MaxRestarts, MaxFailures} \subseteq Nat

NoKey == 0
Epochs == 1..(MaxKicks + 1)     \* each removal rotates at most once
Keys == 1..(MaxKicks + 1)       \* and generates at most one key; a wrap of a key is
                                \* the key, as only whom it is for can open it
KeyMap == [Epochs -> Keys \union {NoKey}]
NoKeys == [e \in Epochs |-> NoKey]
FirstKey == [NoKeys EXCEPT ![1] = 1]

VARIABLES members,      \* space_members
          wraps,        \* space_keys: user -> epoch -> wrapped key
          current,      \* spaces.current_epoch
          invited,      \* an invite has been handed out (it can be redeemed often)
          online,       \* users whose WebSocket is open
          holds,        \* conn.spaceKeys of the space: user -> epoch -> key
          loaded,       \* users whose client has a key map for the space, maybe empty
          cur,          \* space.current_epoch in the client (0: space not listed)
          flows,
          made,         \* keys generated so far
          since,        \* history: who was a member at some time since a key was made
          spent         \* the bounds used up, and whether anything has gone wrong

server == <<members, wraps, current, invited>>
keyMap == <<holds, loaded>>
client == <<keyMap, cur>>
history == <<made, since>>
vars == <<server, client, online, flows, history, spent>>

Ops == {"create", "kick", "accept", "wrap", "load", "refresh", "removed"}
ServerPCs == {"request", "delete", "list", "role", "current", "write", "member", "read", "spaces"}
PCs == ServerPCs \union {"event", "compute", "reply", "apply"}

\* alive: the client still waits for it.  ok: the answer is not an error.
Flow == [op : Ops, who : Users, about : Users, pc : PCs, alive : BOOLEAN, ok : BOOLEAN,
         epoch : Epochs \union {0}, key : Keys \union {NoKey}, targets : SUBSET Users,
         rotating : BOOLEAN, seen : Epochs \union {0}, got : KeyMap]

NewFlow(op, u, v, pc) ==
  [op |-> op, who |-> u, about |-> v, pc |-> pc, alive |-> TRUE, ok |-> TRUE,
   epoch |-> 0, key |-> NoKey, targets |-> {}, rotating |-> FALSE, seen |-> 0,
   got |-> NoKeys]

EventLoad(u) == NewFlow("load", u, u, "event")
Refresh(u) == NewFlow("refresh", u, u, "spaces")

\* createSpace: the space is there, the wrap of epoch 1 is being uploaded.
Create == [NewFlow("create", Owner, Owner, "role") EXCEPT
             !.epoch = 1, !.key = 1, !.targets = {Owner}]

Spent == [kicks : Nat, joins : Nat, drops : Nat, restarts : Nat, failures : Nat, faulty : BOOLEAN]

TypeOK ==
  /\ members \subseteq Users /\ online \subseteq Users /\ invited \in BOOLEAN
  /\ wraps \in [Users -> KeyMap] /\ holds \in [Users -> KeyMap]
  /\ current \in Epochs /\ cur \in [Users -> Epochs \union {0}]
  /\ loaded \subseteq Users /\ flows \subseteq Flow
  /\ made \in Keys /\ since \in [Keys -> SUBSET Users]
  /\ spent \in Spent

\* A space whose members first share key 1, or one being created if there are none.
StartWith(first, used) ==
  /\ members = first \union {Owner} /\ online = Users /\ invited = FALSE
  /\ wraps = [u \in Users |-> IF u \in first THEN FirstKey ELSE NoKeys]
  /\ holds = wraps /\ loaded = first
  /\ current = 1 /\ cur = [u \in Users |-> IF u \in first THEN 1 ELSE 0]
  /\ flows = IF first = {} THEN {Create} ELSE {}
  /\ made = 1 /\ since = [k \in Keys |-> IF k = 1 THEN members ELSE {}]
  /\ spent = used

Unspent == [kicks |-> 0, joins |-> 0, drops |-> 0, restarts |-> 0, failures |-> 0,
            faulty |-> FALSE]
Init == StartWith(FirstMembers, Unspent)

\* f goes on as g, and the flows in new start.
Step(f, g, new) == flows' = (flows \ {f}) \union {g} \union new
End(f, new) == flows' = (flows \ {f}) \union new
At(f, op, pc) == f.op = op /\ f.pc = pc

-----------------------------------------------------------------------------
(* An invite is made and redeemed: createInvite, acceptInvite.               *)

CreateInvite ==
  /\ cur[Owner] # 0 /\ ~invited /\ spent.joins < MaxJoins
  /\ invited' = TRUE
  /\ UNCHANGED <<members, wraps, current, client, online, flows, history, spent>>

\* The row is inserted unless it is there; only then are the others asked.
AcceptInvite(u) ==
  /\ spent.joins < MaxJoins
  /\ invited /\ cur[u] = 0
  /\ ~ \E f \in flows : f.op = "accept" /\ f.who = u /\ f.alive
  /\ members' = members \union {u}
  /\ since' = [k \in Keys |-> IF k <= made THEN since[k] \union {u} ELSE since[k]]
  /\ spent' = [spent EXCEPT !.joins = @ + 1]
  /\ flows' = flows \union
                {NewFlow("accept", u, u, IF u \in members THEN "reply" ELSE "request")}
  /\ UNCHANGED <<wraps, current, invited, client, online, made>>

\* key_request goes to the members online at this moment, once.
KeyRequest(f) ==
  /\ At(f, "accept", "request")
  /\ Step(f, [f EXCEPT !.pc = "reply"],
          {NewFlow("wrap", u, f.who, "event") : u \in (members \intersect online) \ {f.who}})
  /\ UNCHANGED <<server, client, online, history, spent>>

AcceptReply(f) ==
  /\ At(f, "accept", "reply")
  /\ End(f, IF f.alive THEN {Refresh(f.who)} ELSE {})
  /\ UNCHANGED <<server, client, online, history, spent>>

-----------------------------------------------------------------------------
(* refreshSpaces: list_spaces, then the keys of what is listed.              *)

RefreshRead(f) ==
  /\ At(f, "refresh", "spaces")
  /\ Step(f, [f EXCEPT !.pc = "apply", !.seen = IF f.who \in members THEN current ELSE 0], {})
  /\ UNCHANGED <<server, client, online, history, spent>>

RefreshApply(f) ==
  /\ At(f, "refresh", "apply")
  /\ cur' = [cur EXCEPT ![f.who] = f.seen]
  /\ End(f, IF f.seen = 0 THEN {} ELSE {NewFlow("load", f.who, f.who, "member")})
  /\ UNCHANGED <<server, keyMap, online, history, spent>>

(* loadSpaceKeys: fetch_keys, then merge what came back.                     *)

\* The keys_updated event has arrived if it is one; require_member may refuse.
LoadMember(f) ==
  /\ f.op = "load" /\ f.pc \in {"event", "member"}
  /\ IF f.who \in members THEN Step(f, [f EXCEPT !.pc = "read"], {}) ELSE End(f, {})
  /\ UNCHANGED <<server, client, online, history, spent>>

LoadRead(f) ==
  /\ At(f, "load", "read")
  /\ Step(f, [f EXCEPT !.pc = "apply", !.seen = current, !.got = wraps[f.who]], {})
  /\ UNCHANGED <<server, client, online, history, spent>>

\* Epochs already in the map are kept; current_epoch is set to what was read.
LoadApply(f) ==
  /\ At(f, "load", "apply")
  /\ holds' = [holds EXCEPT ![f.who] =
                 [e \in Epochs |-> IF @[e] # NoKey THEN @[e] ELSE f.got[e]]]
  /\ loaded' = loaded \union {f.who}
  /\ cur' = [cur EXCEPT ![f.who] = IF @ = 0 THEN 0 ELSE f.seen]
  /\ End(f, {})
  /\ UNCHANGED <<server, online, history, spent>>

-----------------------------------------------------------------------------
(* wrapKeysFor: one upload per epoch held, in the order of the map.  The     *)
(* loop is over the live map, so epochs added while it awaits are wrapped    *)
(* too; got is the map once the client has been removed and let go of it.    *)

NextWrap(f) ==
  LET map == IF f.got = NoKeys THEN holds[f.who] ELSE f.got
      left == {e \in Epochs : e > f.epoch /\ map[e] # NoKey}
  IN \/ left = {} /\ End(f, {})
     \/ \E e \in left :
          /\ \A d \in left : e <= d
          /\ Step(f, [f EXCEPT !.pc = "role", !.epoch = e, !.key = map[e],
                               !.targets = {f.about}, !.ok = TRUE], {})

WrapNext(f) ==
  /\ f.op = "wrap" /\ f.pc \in {"event", "reply"}
  /\ IF f.alive THEN NextWrap(f) ELSE End(f, {})
  /\ UNCHANGED <<server, client, online, history, spent>>

-----------------------------------------------------------------------------
(* removeMember: DELETE the member, refresh the list, rotate.  The dialog    *)
(* runs one at a time.                                                       *)

\* member_removed is fanned out before the rows go.
StartKick(t) ==
  /\ spent.kicks < MaxKicks
  /\ t \in members \ {Owner} /\ cur[Owner] # 0
  /\ ~ \E f \in flows : f.op = "kick" /\ f.alive
  /\ spent' = [spent EXCEPT !.kicks = @ + 1]
  /\ flows' = flows \union {NewFlow("kick", Owner, t, "delete")}
                    \union {NewFlow("removed", u, u, "event") : u \in {t} \intersect online}
  /\ UNCHANGED <<server, client, online, history>>

\* Mutant of KickDelete: the wraps stay.
KickDeleteMember(f) ==
  /\ At(f, "kick", "delete")
  /\ members' = members \ {f.about}
  /\ IF f.about \in members THEN Step(f, [f EXCEPT !.pc = "list"], {}) ELSE End(f, {})
  /\ UNCHANGED <<wraps, current, invited, client, online, history, spent>>

\* The wraps, then the membership, under one lock; 404 if there was none.  Each is
\* committed on its own, so a server that dies in between (Crash) keeps the member.
KickDelete(f) ==
  /\ At(f, "kick", "delete")
  /\ wraps' = [wraps EXCEPT ![f.about] = NoKeys]
  /\ members' = members \ {f.about}
  /\ IF f.about \in members THEN Step(f, [f EXCEPT !.pc = "list"], {}) ELSE End(f, {})
  /\ UNCHANGED <<current, invited, client, online, history, spent>>

KickList(f) ==
  /\ At(f, "kick", "list")
  /\ IF f.alive THEN Step(f, [f EXCEPT !.pc = "compute", !.targets = members], {})
                ELSE End(f, {})
  /\ UNCHANGED <<server, client, online, history, spent>>

\* Mutant of KickCompute: the key of the current epoch is wrapped again.
KickComputeOldKey(f) ==
  /\ At(f, "kick", "compute")
  /\ Step(f, [f EXCEPT !.pc = "role", !.epoch = cur[Owner] + 1,
                       !.key = holds[Owner][cur[Owner]]], {})
  /\ UNCHANGED <<server, client, online, history, spent>>

\* Mutant of KickCompute: the epoch is not raised.
KickComputeSameEpoch(f) ==
  /\ At(f, "kick", "compute")
  /\ made < MaxKicks + 1
  /\ made' = made + 1
  /\ since' = [since EXCEPT ![made + 1] = members]
  /\ Step(f, [f EXCEPT !.pc = "role", !.epoch = cur[Owner], !.key = made + 1], {})
  /\ UNCHANGED <<server, client, online, spent>>

\* The new epoch is the client's own current_epoch plus one.
KickCompute(f) ==
  /\ At(f, "kick", "compute")
  /\ made < MaxKicks + 1        \* bound: holds, one removal makes one key
  /\ made' = made + 1
  /\ since' = [since EXCEPT ![made + 1] = members]
  /\ Step(f, [f EXCEPT !.pc = "role", !.epoch = cur[Owner] + 1, !.key = made + 1], {})
  /\ UNCHANGED <<server, client, online, spent>>

\* space.current_epoch and the key map, if there is one, are set.
KickReply(f) ==
  /\ At(f, "kick", "reply")
  /\ IF f.alive /\ f.ok
       THEN /\ cur' = [cur EXCEPT ![Owner] = f.epoch]
            /\ holds' = IF Owner \in loaded THEN [holds EXCEPT ![Owner][f.epoch] = f.key] ELSE holds
       ELSE UNCHANGED <<holds, cur>>
  /\ End(f, {})
  /\ UNCHANGED <<server, loaded, online, history, spent>>

\* The removed client forgets the space and its keys; a wrapKeysFor it is in
\* the middle of goes on with the map it has.
RemovedEvent(f) ==
  LET keep(g) == IF g.op = "wrap" /\ g.who = f.who /\ g.pc # "event" /\ g.got = NoKeys
                   THEN [g EXCEPT !.got = holds[f.who]] ELSE g
  IN /\ At(f, "removed", "event")
     /\ holds' = [holds EXCEPT ![f.who] = NoKeys]
     /\ loaded' = loaded \ {f.who}
     /\ cur' = [cur EXCEPT ![f.who] = 0]
     /\ flows' = {keep(g) : g \in flows \ {f}}
     /\ UNCHANGED <<server, online, history, spent>>

-----------------------------------------------------------------------------
(* upload_keys, for the three flows that call it.                            *)

Answer(f, ok) == [f EXCEPT !.pc = "reply", !.ok = ok, !.targets = {}, !.rotating = FALSE]

UploadRole(f) ==
  /\ f.pc = "role"
  /\ Step(f, IF f.who \in members THEN [f EXCEPT !.pc = "current"] ELSE Answer(f, FALSE), {})
  /\ UNCHANGED <<server, client, online, history, spent>>

UploadCurrent(f) ==
  LET rotating == f.epoch = current + 1
      allowed == IF rotating THEN f.who = Owner ELSE f.epoch \in 1..current
  IN /\ f.pc = "current"
     /\ Step(f, IF allowed THEN [f EXCEPT !.pc = "write", !.rotating = rotating]
                           ELSE Answer(f, FALSE), {})
     /\ UNCHANGED <<server, client, online, history, spent>>

\* Mutant of Insert: the last wrap wins.
InsertReplaces(f, us) ==
  [u \in Users |-> IF u \in us THEN [wraps[u] EXCEPT ![f.epoch] = f.key] ELSE wraps[u]]

\* INSERT OR IGNORE: the first wrap of a user and epoch stays.
Insert(f, us) ==
  [u \in Users |-> IF u \in us /\ wraps[u][f.epoch] = NoKey
                     THEN [wraps[u] EXCEPT ![f.epoch] = f.key] ELSE wraps[u]]

\* Mutant of UploadWrite: nobody is told.
UploadWriteSilent(f) ==
  /\ f.pc = "write"
  /\ f.targets \subseteq members
  /\ wraps' = Insert(f, f.targets)
  /\ current' = IF f.rotating THEN f.epoch ELSE current
  /\ Step(f, Answer(f, TRUE), {})
  /\ UNCHANGED <<members, invited, client, online, history, spent>>

\* Mutant of UploadWrite: the targets are not looked up.
UploadWriteUnchecked(f) ==
  /\ f.pc = "write"
  /\ wraps' = Insert(f, f.targets)
  /\ current' = IF f.rotating THEN f.epoch ELSE current
  /\ Step(f, Answer(f, TRUE), {EventLoad(u) : u \in f.targets \intersect online})
  /\ UNCHANGED <<members, invited, client, online, history, spent>>

\* All targets are members: every wrap, then the new epoch, then keys_updated.
UploadWrite(f) ==
  /\ f.pc = "write"
  /\ f.targets \subseteq members
  /\ wraps' = Insert(f, f.targets)
  /\ current' = IF f.rotating THEN f.epoch ELSE current
  /\ Step(f, Answer(f, TRUE), {EventLoad(u) : u \in f.targets \intersect online})
  /\ UNCHANGED <<members, invited, client, online, history, spent>>

\* A target is no member: the wraps inserted before it stay, no rollback.
UploadPartial(f) ==
  /\ f.pc = "write"
  /\ ~ f.targets \subseteq members
  /\ \E us \in SUBSET (f.targets \intersect members) : wraps' = Insert(f, us)
  /\ Step(f, Answer(f, FALSE), {})
  /\ UNCHANGED <<members, current, invited, client, online, history, spent>>

\* createSpace ends: the key is kept and the space listed.
CreateReply(f) ==
  /\ At(f, "create", "reply")
  /\ IF f.alive /\ f.ok
       THEN /\ holds' = [holds EXCEPT ![Owner] = FirstKey]
            /\ loaded' = loaded \union {Owner}
            /\ End(f, {Refresh(Owner)})
       ELSE End(f, {}) /\ UNCHANGED keyMap
  /\ UNCHANGED <<server, cur, online, history, spent>>

-----------------------------------------------------------------------------
(* What goes wrong around it.                                                *)

\* The WebSocket of u closes: the events on their way are lost.
Drop(u) ==
  /\ spent.drops < MaxDrops /\ u \in online
  /\ online' = online \ {u}
  /\ flows' = {f \in flows : ~(f.who = u /\ f.pc = "event")}
  /\ spent' = [spent EXCEPT !.drops = @ + 1, !.faulty = TRUE]
  /\ UNCHANGED <<server, client, history>>

\* It reopens: only the presence is refreshed, no keys are loaded.
Reopen(u) ==
  /\ u \notin online
  /\ online' = online \union {u}
  /\ UNCHANGED <<server, client, flows, history, spent>>

\* The app restarts: memory is lost, writes the server has go on, and bootstrap
\* calls refreshSpaces.
Restart(u) ==
  LET orphan(f) == IF f.who = u THEN [f EXCEPT !.alive = FALSE] ELSE f
      atServer(f) == f.pc \in ServerPCs /\ f.op \notin {"load", "refresh"}
  IN /\ spent.restarts < MaxRestarts
     /\ holds' = [holds EXCEPT ![u] = NoKeys]
     /\ loaded' = loaded \ {u}
     /\ cur' = [cur EXCEPT ![u] = 0]
     /\ online' = online \union {u}
     /\ flows' = {orphan(f) : f \in {g \in flows : g.who = u => atServer(g)}} \union {Refresh(u)}
     /\ spent' = [spent EXCEPT !.restarts = @ + 1, !.faulty = TRUE]
     /\ UNCHANGED <<server, history>>

\* What the client makes of an error: wrapKeysFor takes the next epoch, the
\* others give up.
Failed(fs) == {[f EXCEPT !.pc = "reply", !.ok = FALSE, !.targets = {}, !.rotating = FALSE] :
                 f \in {g \in fs : g.op = "wrap" /\ g.alive}}

\* A request fails at the client while the server goes on with what it writes.
LoseAnswer(f) ==
  /\ spent.failures < MaxFailures
  /\ f.alive /\ f.pc \in ServerPCs \union {"reply"}
  /\ End(f, Failed({f}) \union (IF f.op \in {"load", "refresh"} THEN {}
                                  ELSE {[f EXCEPT !.alive = FALSE]}))
  /\ spent' = [spent EXCEPT !.failures = @ + 1, !.faulty = TRUE]
  /\ UNCHANGED <<server, client, online, history>>

\* The server dies, perhaps inside the loop of inserts, each committed on its
\* own, or between the two deletions of a removal.  The requests it had fail, the
\* connections close.
Crash ==
  LET had == {f \in flows : f.pc \in ServerPCs}
  IN /\ spent.failures < MaxFailures
     /\ \/ UNCHANGED wraps
        \/ \E f \in had : /\ f.pc = "write"
                          /\ \E us \in SUBSET (f.targets \intersect members) :
                               us # {} /\ wraps' = Insert(f, us)
        \/ \E f \in had : At(f, "kick", "delete") /\ wraps' = [wraps EXCEPT ![f.about] = NoKeys]
     /\ flows' = {f \in flows : f.pc \notin ServerPCs \union {"event"}} \union Failed(had)
     /\ online' = {}
     /\ spent' = [spent EXCEPT !.failures = @ + 1, !.faulty = TRUE]
     /\ UNCHANGED <<members, current, invited, client, history>>

-----------------------------------------------------------------------------
FlowStep(f) ==
  \/ KeyRequest(f) \/ AcceptReply(f)
  \/ RefreshRead(f) \/ RefreshApply(f)
  \/ LoadMember(f) \/ LoadRead(f) \/ LoadApply(f)
  \/ WrapNext(f)
  \/ KickDelete(f) \/ KickList(f) \/ KickCompute(f) \/ KickReply(f) \/ RemovedEvent(f)
  \/ UploadRole(f) \/ UploadCurrent(f) \/ UploadWrite(f) \/ UploadPartial(f)
  \/ CreateReply(f)
  \/ LoseAnswer(f)

UserStep(u) == AcceptInvite(u) \/ StartKick(u) \/ Drop(u) \/ Reopen(u) \/ Restart(u)

Next == CreateInvite \/ Crash \/ (\E f \in flows : FlowStep(f)) \/ (\E u \in Users : UserStep(u))

Spec == Init /\ [][Next]_vars

-----------------------------------------------------------------------------
(* Properties.                                                               *)

Settled == flows = {} /\ online = Users

\* The server keeps wraps for members only: a removal takes them all, and an
\* upload that raced with it leaves none behind (remove_member, upload_keys).
WrapsOnlyForMembers ==
  \A u \in Users : u \notin members => wraps[u] = NoKeys

Removing(u) == \E f \in flows : At(f, "kick", "delete") /\ f.about = u

\* The first wrap wins (INSERT OR IGNORE in upload_keys): no step replaces a stored
\* wrap by another.  It disappears only in a removal of its user that is under way,
\* together with all others of that user, and with the membership unless the server
\* stops right there (remove_member).
FirstWrapWins ==
  [][\A u \in Users, e \in Epochs : wraps[u][e] # NoKey =>
       \/ wraps'[u][e] = wraps[u][e]
       \/ /\ Removing(u) /\ wraps'[u] = NoKeys
          /\ u \in members' => spent'.failures > spent.failures]_vars

\* A removed member gets no key made after its removal: whoever holds a key, or
\* has it wrapped, was a member at some time since it was made, whatever wraps
\* were computed from a list of members read earlier.
KeysStayWithMembers ==
  \A u \in Users, e \in Epochs :
    {holds[u][e], wraps[u][e]} \subseteq {NoKey} \union {k \in Keys : u \in since[k]}

\* One key per epoch: no two clients hold different keys for the same epoch, up
\* to the first rotation, whatever fails, restarts or is lost around it
\* (removeMember takes the new epoch from the client's own current_epoch).
OneKeyPerEpochOnce ==
  made <= 2 =>
    \A u, v \in Users, e \in Epochs :
      holds[u][e] = holds[v][e] \/ NoKey \in {holds[u][e], holds[v][e]}

\* Nothing has gone wrong, and a key was rotated once at most.
Calm == ~spent.faulty /\ made <= 2

\* The key was rotated while an invite was out, so a join may have raced with it.
JoinMetRotation == invited /\ made > 1

\* Once everything in flight has landed, every member holds every epoch, unless
\* a removal raced with a join: the newcomer may then be wrapped the old key
\* only, after everybody was told of the new one, and go on writing with it.
MembersHaveKeys ==
  Settled /\ ~JoinMetRotation => \A u \in members, e \in 1..current : holds[u][e] # NoKey

\* Once everything in flight has landed, members write with the current epoch,
\* under the same condition.
MembersUseCurrent ==
  Settled /\ ~JoinMetRotation => \A u \in members : cur[u] \in {0, current}

\* Once everything in flight has landed, nobody outside the space was a member
\* since the key that members write with was made, under the same condition.
RotatedAfterRemoval ==
  Settled /\ ~JoinMetRotation =>
    \A u \in members : cur[u] # 0 /\ holds[u][cur[u]] # NoKey =>
      since[holds[u][cur[u]]] \subseteq members

\* While nothing goes wrong, members end with every epoch of the keys and write
\* with the current one (upload_keys, wrapKeysFor and loadSpaceKeys together).
MembersKeptUpCalm == Calm => MembersHaveKeys /\ MembersUseCurrent

\* While nothing goes wrong, no removed member has the key that members end up
\* writing with (removeMember of the store).
RotatedAfterRemovalCalm == Calm => RotatedAfterRemoval
=============================================================================

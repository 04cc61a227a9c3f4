-------------------------- MODULE SpaceKeysProofs ---------------------------
(***************************************************************************)
(* Proofs about SpaceKeys: its types, that wraps exist for members only,     *)
(* that the first wrap wins, that a key reaches only users who were members  *)
(* at some time since it was made, that an epoch has one key up to the first *)
(* rotation, and what it all comes to while nothing goes wrong.              *)
(***************************************************************************)
EXTENDS SpaceKeys, TLAPS

(* Epochs never run ahead of the keys generated, so the bound on removals    *)
(* bounds them: what makes TypeOK inductive.                                 *)
MapUpto(n) == {m \in KeyMap : \A e \in Epochs : m[e] # NoKey => e <= n}
UploadPCs == {"role", "current", "write"}
Within(f, n) ==
  /\ f.epoch <= n /\ f.seen <= n /\ f.got \in MapUpto(n)
  /\ (f.pc \in UploadPCs => f.epoch \in Epochs)
Upto(n) == {f \in Flow : Within(f, n)}
Bounded ==
  /\ current <= made
  /\ wraps \in [Users -> MapUpto(made)] /\ holds \in [Users -> MapUpto(made)]
  /\ \A u \in Users : cur[u] <= made
  /\ flows \subseteq Upto(made)

TypeInv == TypeOK /\ Bounded

-----------------------------------------------------------------------------
(* A new flow is a flow.                                                     *)
LEMMA NewFlowType ==
  ASSUME NEW op \in Ops, NEW u \in Users, NEW v \in Users, NEW pc \in PCs \ UploadPCs, NEW n \in Nat
  PROVE  NewFlow(op, u, v, pc) \in Upto(n)
  BY ConstantsAssumption DEF NewFlow, Upto, Within, UploadPCs, Flow, NoKeys, KeyMap, NoKey, MapUpto

(* The key map that holds key 1, and the epochs and keys it is about.        *)
LEMMA FirstKeyType ==
  /\ 1 \in Epochs /\ 1 \in Keys
  /\ Epochs \subseteq Nat \ {0} /\ Keys = Epochs
  /\ \A n \in Nat : MapUpto(n) \subseteq KeyMap /\ NoKeys \in MapUpto(n)
  /\ \A n \in Nat \ {0} : FirstKey \in MapUpto(n)
<1>1. 1 \in Epochs /\ 1 \in Keys /\ Epochs \subseteq Nat \ {0} /\ Keys = Epochs
  BY ConstantsAssumption DEF Epochs, Keys
<1>2. NoKeys \in KeyMap /\ \A e \in Epochs : NoKeys[e] = NoKey
  BY DEF NoKeys, KeyMap
<1>3. FirstKey \in KeyMap /\ \A e \in Epochs : FirstKey[e] # NoKey => e = 1
  BY <1>1, <1>2 DEF FirstKey, KeyMap
<1> QED
  BY <1>1, <1>2, <1>3 DEF MapUpto

(* What is known of a flow within the bounds.                                *)
LEMMA FlowFields ==
  ASSUME NEW n \in Nat, NEW f \in Upto(n)
  PROVE  /\ f \in Flow /\ f.who \in Users /\ f.about \in Users /\ f.targets \subseteq Users
         /\ f.epoch \in Epochs \union {0} /\ f.epoch <= n
         /\ f.seen \in Epochs \union {0} /\ f.seen <= n
         /\ f.key \in Keys \union {NoKey} /\ f.got \in MapUpto(n) /\ f.got \in KeyMap
         /\ f.pc \in UploadPCs => f.epoch \in Epochs
<1>1. f \in Flow /\ f.epoch <= n /\ f.seen <= n /\ f.got \in MapUpto(n)
      /\ (f.pc \in UploadPCs => f.epoch \in Epochs)
  BY DEF Upto, Within
<1>2. f.who \in Users /\ f.about \in Users /\ f.targets \in SUBSET Users
      /\ f.epoch \in Epochs \union {0} /\ f.seen \in Epochs \union {0}
      /\ f.key \in Keys \union {NoKey} /\ f.got \in KeyMap
  BY <1>1 DEF Flow
<1> QED
  BY <1>1, <1>2

(* The changes a step makes to a flow keep it within the bounds.             *)
LEMMA SetPC ==
  ASSUME NEW n \in Nat, NEW f \in Upto(n), NEW pc \in PCs,
         pc \in UploadPCs => f.epoch \in Epochs
  PROVE  [f EXCEPT !.pc = pc] \in Upto(n)
  BY DEF Upto, Within, Flow

LEMMA SetAlive ==
  ASSUME NEW n \in Nat, NEW f \in Upto(n)
  PROVE  [f EXCEPT !.alive = FALSE] \in Upto(n)
  BY DEF Upto, Within, Flow

LEMMA SetGot ==
  ASSUME NEW n \in Nat, NEW f \in Upto(n), NEW m \in MapUpto(n)
  PROVE  [f EXCEPT !.got = m] \in Upto(n)
<1>1. m \in KeyMap
  BY DEF MapUpto
<1> QED
  BY <1>1 DEF Upto, Within, Flow

LEMMA SetRotating ==
  ASSUME NEW n \in Nat, NEW f \in Upto(n), NEW r \in BOOLEAN, f.epoch \in Epochs
  PROVE  [f EXCEPT !.pc = "write", !.rotating = r] \in Upto(n)
  BY DEF Upto, Within, Flow, PCs, ServerPCs

LEMMA SetTargets ==
  ASSUME NEW n \in Nat, NEW f \in Upto(n), NEW s \in SUBSET Users
  PROVE  [f EXCEPT !.pc = "compute", !.targets = s] \in Upto(n)
  BY DEF Upto, Within, Flow, PCs, UploadPCs

LEMMA SetSeen ==
  ASSUME NEW n \in Nat, NEW f \in Upto(n), NEW e \in Epochs \union {0}, e <= n
  PROVE  /\ [f EXCEPT !.pc = "apply", !.seen = e] \in Upto(n)
         /\ \A m \in MapUpto(n) : [f EXCEPT !.pc = "apply", !.seen = e, !.got = m] \in Upto(n)
<1>1. \A m \in MapUpto(n) : m \in KeyMap
  BY DEF MapUpto
<1>2. [f EXCEPT !.pc = "apply", !.seen = e] \in Upto(n)
  BY DEF Upto, Within, Flow, PCs, UploadPCs
<1>3. ASSUME NEW m \in MapUpto(n)
      PROVE  [f EXCEPT !.pc = "apply", !.seen = e, !.got = m] \in Upto(n)
  BY <1>1 DEF Upto, Within, Flow, PCs, UploadPCs
<1> QED
  BY <1>2, <1>3

LEMMA SetKey ==
  ASSUME NEW n \in Nat, NEW f \in Upto(n), NEW e \in Epochs, NEW k \in Keys \union {NoKey}, e <= n
  PROVE  /\ [f EXCEPT !.pc = "role", !.epoch = e, !.key = k] \in Upto(n)
         /\ \A s \in SUBSET Users :
              [f EXCEPT !.pc = "role", !.epoch = e, !.key = k, !.targets = s, !.ok = TRUE] \in Upto(n)
<1>1. [f EXCEPT !.pc = "role", !.epoch = e, !.key = k] \in Upto(n)
  BY DEF Upto, Within, Flow, PCs, ServerPCs
<1>2. ASSUME NEW s \in SUBSET Users
      PROVE  [f EXCEPT !.pc = "role", !.epoch = e, !.key = k, !.targets = s, !.ok = TRUE] \in Upto(n)
  BY DEF Upto, Within, Flow, PCs, ServerPCs
<1> QED
  BY <1>1, <1>2

(* INSERT OR IGNORE keeps the type of the table.                             *)
LEMMA InsertType ==
  ASSUME NEW n \in Nat, wraps \in [Users -> MapUpto(n)], NEW f \in Upto(n), NEW us
  PROVE  Insert(f, us) \in [Users -> MapUpto(n)]
<1>1. \A m \in MapUpto(n) : [m EXCEPT ![f.epoch] = f.key] \in MapUpto(n)
  BY FlowFields DEF MapUpto, KeyMap
<1> QED
  BY <1>1 DEF Insert

(* An answer is a flow with the epochs it had.                               *)
LEMMA AnswerType ==
  ASSUME NEW n \in Nat, NEW f \in Upto(n), NEW ok \in BOOLEAN
  PROVE  Answer(f, ok) \in Upto(n)
  BY DEF Answer, Upto, Within, UploadPCs, Flow, PCs

LEMMA FailedType ==
  ASSUME NEW n \in Nat, NEW fs \in SUBSET Upto(n)
  PROVE  Failed(fs) \subseteq Upto(n)
<1> SUFFICES ASSUME NEW f \in fs
             PROVE  [f EXCEPT !.pc = "reply", !.ok = FALSE, !.targets = {},
                              !.rotating = FALSE] \in Upto(n)
  BY Zenon DEF Failed
<1> QED
  BY DEF Upto, Within, UploadPCs, Flow, PCs

-----------------------------------------------------------------------------
(* What a fault leaves of the bounds is typed.                               *)
LEMMA Faulted ==
  ASSUME spent \in Spent
  PROVE  /\ [spent EXCEPT !.drops = @ + 1, !.faulty = TRUE] \in Spent
         /\ [spent EXCEPT !.restarts = @ + 1, !.faulty = TRUE] \in Spent
         /\ [spent EXCEPT !.failures = @ + 1, !.faulty = TRUE] \in Spent
<1>0. /\ spent.kicks \in Nat /\ spent.joins \in Nat /\ spent.drops \in Nat /\ spent.restarts \in Nat
      /\ spent.failures \in Nat /\ spent.drops + 1 \in Nat /\ spent.restarts + 1 \in Nat /\ spent.failures + 1 \in Nat
  BY DEF Spent
<1>e. spent = [kicks |-> spent.kicks, joins |-> spent.joins, drops |-> spent.drops, restarts |-> spent.restarts,
               failures |-> spent.failures, faulty |-> spent.faulty]
  BY Zenon DEF Spent
<1>1. [spent EXCEPT !.drops = @ + 1, !.faulty = TRUE] \in Spent
  BY <1>0, <1>e, Zenon DEF Spent
<1>2. [spent EXCEPT !.restarts = @ + 1, !.faulty = TRUE] \in Spent
  BY <1>0, <1>e, Zenon DEF Spent
<1>3. [spent EXCEPT !.failures = @ + 1, !.faulty = TRUE] \in Spent
  BY <1>0, <1>e, Zenon DEF Spent
<1> QED BY <1>1, <1>2, <1>3

(* Every step keeps the types and the bounds.                                *)
LEMMA TypeStep ==
  ASSUME TypeInv, [Next]_vars
  PROVE  TypeInv'
<1> USE FirstKeyType
<1>0. /\ made \in Nat \ {0} /\ current \in Nat /\ \A u \in Users : cur[u] \in Nat
      /\ flows \subseteq Upto(made) /\ Upto(made) \subseteq Flow
      /\ NoKeys \in MapUpto(made) /\ FirstKey \in MapUpto(made) /\ MapUpto(made) \subseteq KeyMap
  <2>1. made \in Nat \ {0} /\ current \in Nat /\ \A u \in Users : cur[u] \in Nat
    BY DEF TypeInv, TypeOK, Keys, Epochs
  <2> QED
    BY <2>1 DEF TypeInv, Bounded, Upto
<1>s. ASSUME flows' \subseteq Upto(made), UNCHANGED <<server, client, online, history>>,
             spent' \in Spent
      PROVE  TypeInv'
  BY <1>s, <1>0 DEF TypeInv, TypeOK, Bounded, server, client, keyMap, history
<1>1. CASE UNCHANGED vars
  BY <1>1 DEF vars, server, client, keyMap, history, TypeInv, TypeOK, Bounded
<1>2. CASE CreateInvite
  BY <1>2 DEF CreateInvite, client, keyMap, history, TypeInv, TypeOK, Bounded
<1>3. ASSUME NEW u \in Users, AcceptInvite(u) PROVE TypeInv'
  <2>1. NewFlow("accept", u, u, IF u \in members THEN "reply" ELSE "request") \in Upto(made)
    BY <1>0, NewFlowType DEF Ops, PCs, ServerPCs, UploadPCs
  <2> QED
    BY <1>0, <1>3, <2>1 DEF AcceptInvite, client, keyMap, TypeInv, TypeOK, Bounded, Spent
<1>4. ASSUME NEW t \in Users, StartKick(t) PROVE TypeInv'
  <2>1. /\ NewFlow("kick", Owner, t, "delete") \in Upto(made)
        /\ \A u \in Users : NewFlow("removed", u, u, "event") \in Upto(made)
    BY <1>0, NewFlowType, ConstantsAssumption DEF Ops, PCs, ServerPCs, UploadPCs
  <2>2. flows' \subseteq Upto(made)
    BY <1>0, <1>4, <2>1 DEF StartKick
  <2> QED
    BY <1>s, <1>4, <2>2 DEF StartKick, TypeInv, TypeOK, Spent
<1>5. ASSUME NEW u \in Users, Drop(u) PROVE TypeInv'
  BY Faulted, <1>0, <1>5 DEF Drop, server, client, keyMap, history, TypeInv, TypeOK, Bounded
<1>6. ASSUME NEW u \in Users, Reopen(u) PROVE TypeInv'
  BY <1>0, <1>6 DEF Reopen, server, client, keyMap, history, TypeInv, TypeOK, Bounded
<1>7. ASSUME NEW u \in Users, Restart(u) PROVE TypeInv'
  <2>1. Refresh(u) \in Upto(made)
    BY <1>0, NewFlowType DEF Refresh, Ops, PCs, ServerPCs, UploadPCs
  <2>2. \A f \in flows : [f EXCEPT !.alive = FALSE] \in Upto(made)
    BY <1>0, SetAlive
  <2>3. flows' \subseteq Upto(made)
    BY <1>0, <1>7, <2>1, <2>2 DEF Restart
  <2> QED
    BY Faulted, <1>0, <1>7, <2>3 DEF Restart, server, history, TypeInv, TypeOK, Bounded
<1>8. CASE Crash
  <2>1. Failed({f \in flows : f.pc \in ServerPCs}) \subseteq Upto(made)
    BY <1>0, FailedType
  <2>2. flows' \subseteq Upto(made)
    BY <1>0, <1>8, <2>1 DEF Crash
  <2>3. wraps' \in [Users -> MapUpto(made)]
    BY <1>0, <1>8, InsertType DEF Crash, TypeInv, Bounded
  <2> QED
    BY Faulted, <1>0, <1>8, <2>2, <2>3 DEF Crash, client, keyMap, history, TypeInv, TypeOK, Bounded
<1>9. ASSUME NEW f \in flows, FlowStep(f) PROVE TypeInv'
  <2>0. /\ f \in Upto(made) /\ f \in Flow /\ f.who \in Users /\ f.about \in Users
        /\ f.got \in MapUpto(made) /\ f.key \in Keys \union {NoKey}
        /\ f.epoch \in Epochs \union {0} /\ f.epoch <= made
        /\ f.seen \in Epochs \union {0} /\ f.seen <= made /\ f.targets \subseteq Users
        /\ f.pc \in UploadPCs => f.epoch \in Epochs
    BY <1>0, FlowFields
  <2>e. ASSUME NEW new \in SUBSET Upto(made), End(f, new) PROVE flows' \subseteq Upto(made)
    BY <1>0, <2>e DEF End
  <2>m. ASSUME NEW g \in Upto(made), NEW new \in SUBSET Upto(made), Step(f, g, new)
        PROVE  flows' \subseteq Upto(made)
    BY <1>0, <2>m DEF Step
  <2>n. \A op \in Ops, u \in Users, v \in Users, pc \in PCs \ UploadPCs :
         NewFlow(op, u, v, pc) \in Upto(made)
    BY <1>0, NewFlowType
  <2>p. \A u \in Users : EventLoad(u) \in Upto(made) /\ Refresh(u) \in Upto(made)
    BY <2>n DEF EventLoad, Refresh, Ops, PCs, ServerPCs, UploadPCs
  <2>q. \A pc \in PCs : (pc \in UploadPCs => f.epoch \in Epochs) => [f EXCEPT !.pc = pc] \in Upto(made)
    BY <1>0, <2>0, SetPC
  <2>a. Answer(f, TRUE) \in Upto(made) /\ Answer(f, FALSE) \in Upto(made)
    BY <1>0, <2>0, AnswerType
  <2>z. {} \in SUBSET Upto(made)
    OBVIOUS
  <2>r. spent \in Spent
    BY DEF TypeInv, TypeOK
  <2>1. CASE KeyRequest(f)
    <3>1. {NewFlow("wrap", u, f.who, "event") : u \in (members \intersect online) \ {f.who}}
            \subseteq Upto(made)
      BY <2>0, <2>n DEF Ops, PCs, UploadPCs, TypeInv, TypeOK
    <3>2. flows' \subseteq Upto(made)
      BY <2>1, <2>m, <2>q, <3>1 DEF KeyRequest, PCs, UploadPCs
    <3> QED
      BY <1>s, <2>1, <2>r, <3>2 DEF KeyRequest
  <2>2. CASE AcceptReply(f)
    <3>1. flows' \subseteq Upto(made)
      BY <2>2, <2>0, <2>e, <2>p DEF AcceptReply
    <3> QED
      BY <1>s, <2>2, <2>r, <3>1 DEF AcceptReply
  <2>3. CASE RefreshRead(f)
    <3>1. (IF f.who \in members THEN current ELSE 0) \in Epochs \union {0}
          /\ (IF f.who \in members THEN current ELSE 0) <= made
      BY <1>0 DEF TypeInv, TypeOK, Bounded
    <3>2. [f EXCEPT !.pc = "apply", !.seen = IF f.who \in members THEN current ELSE 0] \in Upto(made)
      BY <1>0, <2>0, <3>1, SetSeen
    <3>3. flows' \subseteq Upto(made)
      BY <2>3, <2>m, <3>2 DEF RefreshRead
    <3> QED
      BY <1>s, <2>3, <2>r, <3>3 DEF RefreshRead
  <2>4. CASE RefreshApply(f)
    <3>1. flows' \subseteq Upto(made)
      BY <2>4, <2>0, <2>e, <2>n DEF RefreshApply, Ops, PCs, ServerPCs, UploadPCs
    <3> QED
      BY <1>0, <2>0, <2>4, <3>1 DEF RefreshApply, server, keyMap, history, TypeInv, TypeOK, Bounded
  <2>5. CASE LoadMember(f)
    <3>1. flows' \subseteq Upto(made)
      BY <2>5, <2>e, <2>m, <2>q DEF LoadMember, PCs, ServerPCs, UploadPCs
    <3> QED
      BY <1>s, <2>5, <2>r, <3>1 DEF LoadMember
  <2>6. CASE LoadRead(f)
    <3>1. wraps[f.who] \in MapUpto(made) /\ current \in Epochs /\ current <= made
      BY <2>0 DEF TypeInv, TypeOK, Bounded
    <3>2. [f EXCEPT !.pc = "apply", !.seen = current, !.got = wraps[f.who]] \in Upto(made)
      BY <1>0, <2>0, <3>1, SetSeen
    <3>3. flows' \subseteq Upto(made)
      BY <2>6, <2>m, <3>2 DEF LoadRead
    <3> QED
      BY <1>s, <2>6, <2>r, <3>3 DEF LoadRead
  <2>7. CASE LoadApply(f)
    <3>1. flows' \subseteq Upto(made)
      BY <2>7, <2>e DEF LoadApply
    <3>2. [e \in Epochs |-> IF holds[f.who][e] # NoKey THEN holds[f.who][e] ELSE f.got[e]]
            \in MapUpto(made)
      BY <2>0 DEF TypeInv, Bounded, KeyMap, MapUpto
    <3>3. holds' \in [Users -> MapUpto(made)]
      BY <2>7, <3>2 DEF LoadApply, TypeInv, Bounded
    <3>4. cur' \in [Users -> Epochs \union {0}] /\ \A u \in Users : cur'[u] <= made
      BY <1>0, <2>0, <2>7 DEF LoadApply, TypeInv, TypeOK, Bounded
    <3> QED
      BY <1>0, <2>0, <2>7, <3>1, <3>3, <3>4 DEF LoadApply, server, history, TypeInv, TypeOK, Bounded
  <2>8. CASE WrapNext(f)
    <3>1. (IF f.got = NoKeys THEN holds[f.who] ELSE f.got) \in MapUpto(made)
      BY <2>0 DEF TypeInv, Bounded
    <3>2. ASSUME NEW e \in Epochs, NEW map \in MapUpto(made), map[e] # NoKey
          PROVE  [f EXCEPT !.pc = "role", !.epoch = e, !.key = map[e],
                           !.targets = {f.about}, !.ok = TRUE] \in Upto(made)
      <4>1. map[e] \in Keys /\ e <= made
        BY <3>2 DEF MapUpto, KeyMap
      <4> QED
        <5>1. {f.about} \in SUBSET Users /\ map[e] \in Keys \union {NoKey}
          BY <2>0, <4>1
        <5> QED
          BY <1>0, <2>0, <4>1, <5>1, SetKey
    <3>3. NextWrap(f) => flows' \subseteq Upto(made)
      <4> DEFINE map == IF f.got = NoKeys THEN holds[f.who] ELSE f.got
                 left == {e \in Epochs : e > f.epoch /\ map[e] # NoKey}
                 next(e) == [f EXCEPT !.pc = "role", !.epoch = e, !.key = map[e],
                                      !.targets = {f.about}, !.ok = TRUE]
      <4>1. NextWrap(f) => End(f, {}) \/ \E e \in left : Step(f, next(e), {})
        BY Zenon DEF NextWrap
      <4>2. \A e \in left : next(e) \in Upto(made)
        BY <3>1, <3>2
      <4> HIDE DEF left, next
      <4> QED
        BY <4>1, <4>2, <2>e, <2>m
    <3>4. flows' \subseteq Upto(made)
      BY <2>8, <3>3, <2>e DEF WrapNext
    <3> QED
      BY <1>s, <2>8, <2>r, <3>4 DEF WrapNext
  <2>9. CASE KickDelete(f)
    <3>1. flows' \subseteq Upto(made)
      BY <2>9, <2>e, <2>m, <2>q DEF KickDelete, PCs, ServerPCs, UploadPCs
    <3> QED
      BY <1>0, <2>0, <2>9, <3>1
      DEF KickDelete, client, keyMap, history, TypeInv, TypeOK, Bounded
  <2>10. CASE KickList(f)
    <3>1. [f EXCEPT !.pc = "compute", !.targets = members] \in Upto(made)
      BY <1>0, <2>0, SetTargets DEF TypeInv, TypeOK
    <3>2. flows' \subseteq Upto(made)
      BY <2>10, <2>e, <2>m, <3>1 DEF KickList
    <3> QED
      BY <1>s, <2>10, <2>r, <3>2 DEF KickList
  <2>11. CASE KickCompute(f)
    <3>0. made' = made + 1 /\ made' \in Keys /\ made' \in Nat
      BY <1>0, <2>11, ConstantsAssumption DEF KickCompute, Keys
    <3>1. Upto(made) \subseteq Upto(made') /\ MapUpto(made) \subseteq MapUpto(made')
      <4>1. MapUpto(made) \subseteq MapUpto(made')
        BY <1>0, <3>0, FirstKeyType DEF MapUpto
      <4>2. ASSUME NEW g \in Upto(made) PROVE g \in Upto(made')
        <5>1. g \in Flow /\ g.epoch <= made' /\ g.seen <= made' /\ g.got \in MapUpto(made')
              /\ (g.pc \in UploadPCs => g.epoch \in Epochs)
          <6>0. g.epoch \in Epochs \union {0} /\ g.seen \in Epochs \union {0}
            BY <1>0, FlowFields
          <6>1. g.epoch <= made /\ g.seen <= made /\ g.got \in MapUpto(made)
            BY <1>0, FlowFields
          <6>3. g.epoch \in Nat /\ g.seen \in Nat
            BY <6>0, ConstantsAssumption DEF Epochs
          <6>2. g \in Flow /\ (g.pc \in UploadPCs => g.epoch \in Epochs)
            BY <1>0, FlowFields
          <6> QED
            BY <1>0, <3>0, <4>1, <6>1, <6>2, <6>3
        <5> QED
          BY <5>1 DEF Upto, Within
      <4> QED
        BY <4>1, <4>2
    <3>2. cur[Owner] + 1 \in Epochs /\ cur[Owner] + 1 <= made'
      <4>1. cur[Owner] \in Epochs \union {0} /\ cur[Owner] <= made
        BY <1>0, ConstantsAssumption DEF TypeInv, TypeOK, Bounded
      <4>2. MaxKicks \in Nat /\ cur[Owner] \in Nat
        BY <4>1, ConstantsAssumption DEF Epochs
      <4>3. made \in Nat /\ made + 1 <= MaxKicks + 1
        BY <1>0, <3>0, <4>2 DEF Keys, TypeInv, TypeOK
      <4> QED
        BY <3>0, <4>1, <4>2, <4>3 DEF Epochs
    <3>3. [f EXCEPT !.pc = "role", !.epoch = cur[Owner] + 1, !.key = made + 1] \in Upto(made')
      BY <2>0, <3>0, <3>1, <3>2, SetKey
    <3>4. flows' \subseteq Upto(made')
      BY <1>0, <2>11, <3>1, <3>3 DEF KickCompute, Step
    <3>5. wraps' \in [Users -> MapUpto(made')] /\ holds' \in [Users -> MapUpto(made')]
      BY <2>11, <3>1 DEF KickCompute, server, client, keyMap, TypeInv, Bounded
    <3>6. since' \in [Keys -> SUBSET Users]
      BY <2>11 DEF KickCompute, TypeInv, TypeOK
    <3>7. current' <= made' /\ \A u \in Users : cur'[u] <= made'
      BY <1>0, <2>11, <3>0 DEF KickCompute, server, client, TypeInv, Bounded
    <3> QED
      BY <2>11, <3>0, <3>1, <3>4, <3>5, <3>6, <3>7
      DEF KickCompute, server, client, keyMap, TypeInv, TypeOK, Bounded, Upto
  <2>12. CASE KickReply(f)
    <3>1. flows' \subseteq Upto(made)
      BY <2>12, <2>e DEF KickReply
    <3>2. f.epoch \in Epochs \union {0} /\ f.epoch <= made
      BY <2>0
    <3>3. cur' \in [Users -> Epochs \union {0}] /\ \A u \in Users : cur'[u] <= made
      BY <1>0, <2>12, <3>2 DEF KickReply, TypeInv, TypeOK, Bounded
    <3>4. [holds[Owner] EXCEPT ![f.epoch] = f.key] \in MapUpto(made)
      BY <2>0, <3>2, ConstantsAssumption DEF TypeInv, Bounded, MapUpto, KeyMap
    <3>5. holds' \in [Users -> MapUpto(made)]
      BY <2>12, <3>4 DEF KickReply, TypeInv, Bounded
    <3> QED
      BY <1>0, <2>12, <3>1, <3>3, <3>5 DEF KickReply, server, history, TypeInv, TypeOK, Bounded
  <2>13. CASE RemovedEvent(f)
    <3>1. \A g \in flows : [g EXCEPT !.got = holds[f.who]] \in Upto(made)
      BY <1>0, <2>0, SetGot DEF TypeInv, Bounded
    <3>2. flows' \subseteq Upto(made)
      BY <1>0, <2>13, <3>1 DEF RemovedEvent
    <3> QED
      BY <1>0, <2>0, <2>13, <3>2 DEF RemovedEvent, server, history, TypeInv, TypeOK, Bounded
  <2>14. CASE UploadRole(f)
    <3>1. flows' \subseteq Upto(made)
      <4>1. Step(f, [f EXCEPT !.pc = "current"], {}) \/ Step(f, Answer(f, FALSE), {})
        BY <2>14, Zenon DEF UploadRole
      <4>2. [f EXCEPT !.pc = "current"] \in Upto(made)
        BY <2>0, <2>14, <2>q DEF UploadRole, PCs, ServerPCs, UploadPCs
      <4> QED
        BY <2>m, <2>a, <2>z, <4>1, <4>2, Zenon
    <3> QED
      BY <1>s, <2>14, <2>r, <3>1 DEF UploadRole
  <2>15. CASE UploadCurrent(f)
    <3>1. [f EXCEPT !.pc = "write", !.rotating = (f.epoch = current + 1)] \in Upto(made)
      BY <1>0, <2>0, <2>15, SetRotating DEF UploadCurrent, UploadPCs
    <3>2. flows' \subseteq Upto(made)
      <4>1. \/ Step(f, [f EXCEPT !.pc = "write", !.rotating = (f.epoch = current + 1)], {})
            \/ Step(f, Answer(f, FALSE), {})
        BY <2>15, Zenon DEF UploadCurrent
      <4> QED
        BY <2>m, <2>a, <2>z, <3>1, <4>1, Zenon
    <3> QED
      BY <1>s, <2>15, <2>r, <3>2 DEF UploadCurrent
  <2>16. CASE UploadWrite(f)
    <3>1. {EventLoad(u) : u \in f.targets \intersect online} \subseteq Upto(made)
      BY <2>p DEF TypeInv, TypeOK
    <3>2. flows' \subseteq Upto(made)
      BY <2>16, <2>m, <2>a, <3>1 DEF UploadWrite
    <3>3. wraps' \in [Users -> MapUpto(made)]
      BY <1>0, <2>0, <2>16, InsertType DEF UploadWrite, TypeInv, Bounded
    <3>4. current' \in Epochs /\ current' <= made
      BY <2>0, <2>16 DEF UploadWrite, TypeInv, TypeOK, Bounded, UploadPCs
    <3> QED
      BY <1>0, <2>16, <3>2, <3>3, <3>4
      DEF UploadWrite, client, keyMap, history, TypeInv, TypeOK, Bounded
  <2>17. CASE UploadPartial(f)
    <3>1. flows' \subseteq Upto(made)
      <4>1. Step(f, Answer(f, FALSE), {}) 
        BY <2>17, Zenon DEF UploadPartial
      <4> QED
        BY <2>m, <2>a, <2>z, <4>1, Zenon
    <3>2. wraps' \in [Users -> MapUpto(made)]
      BY <1>0, <2>0, <2>17, InsertType DEF UploadPartial, TypeInv, Bounded
    <3> QED
      BY <1>0, <2>17, <3>1, <3>2
      DEF UploadPartial, client, keyMap, history, TypeInv, TypeOK, Bounded
  <2>18. CASE CreateReply(f)
    <3>1. flows' \subseteq Upto(made)
      BY <2>18, <2>e, <2>p, ConstantsAssumption DEF CreateReply
    <3> QED
      BY <1>0, <2>18, <3>1, ConstantsAssumption
      DEF CreateReply, server, keyMap, history, TypeInv, TypeOK, Bounded
  <2>19. CASE LoseAnswer(f)
    <3>1. {f} \subseteq Upto(made) /\ Failed({f}) \subseteq Upto(made)
      BY <1>0, <2>0, FailedType
    <3>2. [f EXCEPT !.alive = FALSE] \in Upto(made)
      BY <1>0, <2>0, SetAlive
    <3>3. flows' \subseteq Upto(made)
      BY <2>19, <2>e, <3>1, <3>2 DEF LoseAnswer
    <3> QED
      BY Faulted, <1>s, <2>19, <2>r, <3>3 DEF LoseAnswer
  <2> QED
    BY <1>9, <2>1, <2>2, <2>3, <2>4, <2>5, <2>6, <2>7, <2>8, <2>9, <2>10, <2>11, <2>12, <2>13,
       <2>14, <2>15, <2>16, <2>17, <2>18, <2>19 DEF FlowStep
<1> QED
  BY <1>1, <1>2, <1>3, <1>4, <1>5, <1>6, <1>7, <1>8, <1>9 DEF Next, UserStep

(* The upload that creates the space is a flow within the bounds.            *)
LEMMA CreateType == Create \in Upto(1) /\ Create \in Flow
<1>1. NoKeys \in MapUpto(1) /\ NoKeys \in KeyMap /\ 1 \in Epochs /\ 1 \in Keys
  BY FirstKeyType
<1>3. Create \in Flow
  BY <1>1, ConstantsAssumption DEF Create, NewFlow, Flow, Ops, PCs, ServerPCs
<1>4. Create.epoch = 1 /\ Create.seen = 0 /\ Create.got = NoKeys
  BY DEF Create, NewFlow
<1> QED
  BY <1>1, <1>3, <1>4 DEF Upto, Within

(* The first state has the types.                                            *)
LEMMA InitTypes == Init => TypeInv
<1> SUFFICES ASSUME Init PROVE TypeInv
  OBVIOUS
<1>1. 1 \in Nat \ {0} /\ made = 1 /\ current = 1 /\ 0 \in Nat
  BY DEF Init, StartWith, Unspent
<1>2. wraps \in [Users -> MapUpto(1)] /\ holds \in [Users -> MapUpto(1)]
  BY <1>1, FirstKeyType DEF Init, StartWith, Unspent
<1>3. Create \in Upto(1)
  BY CreateType
<1>4. flows \subseteq Upto(1)
  BY <1>3 DEF Init, StartWith, Unspent
<1>5. /\ members \subseteq Users /\ online \subseteq Users /\ invited \in BOOLEAN
      /\ loaded \subseteq Users /\ made \in Keys /\ current \in Epochs
  BY FirstKeyType, ConstantsAssumption DEF Init, StartWith, Unspent
<1>6. cur \in [Users -> Epochs \union {0}] /\ \A u \in Users : cur[u] <= 1
  BY FirstKeyType DEF Init, StartWith, Unspent
<1>7. since \in [Keys -> SUBSET Users]
  BY <1>5 DEF Init, StartWith, Unspent
<1>8. spent \in Spent
  BY DEF Init, StartWith, Unspent, Spent
<1> QED
  BY <1>1, <1>2, <1>4, <1>5, <1>6, <1>7, <1>8, FirstKeyType DEF TypeInv, TypeOK, Bounded, Upto

(* Types and bounds hold throughout.                                         *)
LEMMA TypeInvariance == Spec => []TypeInv
BY InitTypes, TypeStep, PTL DEF Spec

(* Every variable keeps its type, whatever the bounds.                       *)
THEOREM TypeCorrect == Spec => []TypeOK
<1>1. TypeInv => TypeOK
  BY DEF TypeInv
<1> QED
  BY <1>1, TypeInvariance, PTL

-----------------------------------------------------------------------------
(* What a step may do to the two tables: nothing, redeem an invite, remove a *)
(* member with its wraps (or stop in between), or insert wraps of one flow   *)
(* for members.                                                              *)
Deletes(f) ==
  /\ At(f, "kick", "delete") /\ wraps' = [wraps EXCEPT ![f.about] = NoKeys]
  /\ \/ members' = members \ {f.about}
     \/ UNCHANGED members /\ spent'.failures > spent.failures

Inserts == \E f \in flows, us \in SUBSET members : wraps' = Insert(f, us) /\ UNCHANGED members

LEMMA TableSteps ==
  ASSUME TypeInv, [Next]_vars
  PROVE  \/ UNCHANGED <<members, wraps>>
         \/ UNCHANGED wraps /\ members \subseteq members'
         \/ \E f \in flows : Deletes(f)
         \/ Inserts
<1>1. CASE UNCHANGED vars
  BY <1>1 DEF vars, server
<1>2. CASE CreateInvite
  BY <1>2 DEF CreateInvite
<1>3. ASSUME NEW u \in Users, UserStep(u)
      PROVE UNCHANGED <<members, wraps>> \/ (UNCHANGED wraps /\ members \subseteq members')
  BY <1>3 DEF UserStep, AcceptInvite, StartKick, Drop, Reopen, Restart, server
<1>4. CASE Crash
  <2>1. \A f \in flows : \A us \in SUBSET (f.targets \intersect members) : us \in SUBSET members
    OBVIOUS
  <2>2. spent'.failures > spent.failures
    BY <1>4 DEF Crash, TypeInv, TypeOK, Spent
  <2> QED
    BY <1>4, <2>1, <2>2 DEF Crash, Inserts, Deletes
<1>5. ASSUME NEW f \in flows, FlowStep(f)
      PROVE  UNCHANGED <<members, wraps>> \/ Deletes(f) \/ Inserts
  <2>1. CASE UploadWrite(f)
    BY <2>1 DEF UploadWrite, Inserts
  <2>2. CASE UploadPartial(f)
    BY <2>2 DEF UploadPartial, Inserts
  <2>3. CASE ~ UploadWrite(f) /\ ~ UploadPartial(f) /\ ~ KickDelete(f)
    BY <1>5, <2>3
    DEF FlowStep, KeyRequest, AcceptReply, RefreshRead, RefreshApply, LoadMember, LoadRead,
        LoadApply, WrapNext, KickList, KickCompute, KickReply, RemovedEvent, UploadRole,
        UploadCurrent, CreateReply, LoseAnswer, server
  <2>4. CASE KickDelete(f)
    BY <2>4 DEF KickDelete, Deletes
  <2> QED
    BY <2>1, <2>2, <2>3, <2>4
<1> QED
  BY <1>1, <1>2, <1>3, <1>4, <1>5 DEF Next

(* The server keeps wraps for members only.                                  *)
THEOREM WrapsForMembersHold == Spec => []WrapsOnlyForMembers
<1> DEFINE Inv == TypeInv /\ WrapsOnlyForMembers
<1>1. Init => WrapsOnlyForMembers
  BY DEF Init, StartWith, Unspent, WrapsOnlyForMembers
<1>2. ASSUME Inv, [Next]_vars PROVE WrapsOnlyForMembers'
  <2>0. wraps \in [Users -> KeyMap] /\ flows \subseteq Flow
    BY <1>2 DEF TypeInv, TypeOK
  <2>1. CASE UNCHANGED <<members, wraps>> \/ (UNCHANGED wraps /\ members \subseteq members')
    BY <1>2, <2>1 DEF WrapsOnlyForMembers
  <2>2. ASSUME NEW f \in flows, Deletes(f) PROVE WrapsOnlyForMembers'
    <3>1. \A u \in Users : wraps'[u] = IF u = f.about THEN NoKeys ELSE wraps[u]
      BY <2>0, <2>2 DEF Deletes
    <3>2. members \ {f.about} \subseteq members'
      BY <2>2 DEF Deletes
    <3> QED
      BY <1>2, <3>1, <3>2 DEF WrapsOnlyForMembers
  <2>3. CASE Inserts
    <3>1. \A u \in Users : u \notin members => wraps'[u] = wraps[u]
      BY <2>3 DEF Inserts, Insert
    <3> QED
      BY <1>2, <2>3, <3>1 DEF Inserts, WrapsOnlyForMembers
  <2> QED
    BY <1>2, <2>1, <2>2, <2>3, TableSteps
<1> QED
  BY <1>1, <1>2, TypeInvariance, PTL DEF Spec

(* A stored wrap is never replaced, and goes only with a removal: with all   *)
(* of its user's, and with the membership unless the server stops there.     *)
THEOREM FirstWrapWinsHolds == Spec => FirstWrapWins
<1> DEFINE Kept == \A u \in Users, e \in Epochs : wraps[u][e] # NoKey =>
                     \/ wraps'[u][e] = wraps[u][e]
                     \/ /\ Removing(u) /\ wraps'[u] = NoKeys
                        /\ u \in members' => spent'.failures > spent.failures
<1>1. ASSUME TypeInv, [Next]_vars PROVE Kept
  <2>0. wraps \in [Users -> KeyMap]
    BY <1>1 DEF TypeInv, TypeOK
  <2>1. CASE UNCHANGED <<members, wraps>> \/ (UNCHANGED wraps /\ members \subseteq members')
    BY <2>1
  <2>2. ASSUME NEW f \in flows, Deletes(f) PROVE Kept
    <3>1. ASSUME NEW u \in Users, u # f.about PROVE wraps'[u] = wraps[u]
      BY <2>0, <2>2, <3>1 DEF Deletes
    <3>2. ASSUME NEW u \in Users, u = f.about
          PROVE  /\ Removing(u) /\ wraps'[u] = NoKeys
                 /\ u \in members' => spent'.failures > spent.failures
      BY <2>0, <2>2, <3>2 DEF Deletes, Removing
    <3> QED
      BY <3>1, <3>2
  <2>3. CASE Inserts
    <3>1. PICK f \in flows, us \in SUBSET members : wraps' = Insert(f, us)
      BY <2>3 DEF Inserts
    <3>2. ASSUME NEW u \in Users, NEW e \in Epochs, wraps[u][e] # NoKey
          PROVE  wraps'[u][e] = wraps[u][e]
      BY <2>0, <3>1, <3>2 DEF Insert, KeyMap
    <3> QED
      BY <3>2
  <2> QED
    BY <1>1, <2>1, <2>2, <2>3, TableSteps
<1>2. TypeInv /\ [Next]_vars => [Kept]_vars
  BY <1>1
<1> QED
  BY <1>2, TypeInvariance, PTL DEF Spec, FirstWrapWins

-----------------------------------------------------------------------------
(* KeysStayWithMembers is not inductive: the keys also travel in flows, and  *)
(* whoever is a member now must have been one since any key made so far.     *)
Known(u, s) == {NoKey} \union {k \in Keys : u \in s[k]}
KnownMap(u, s) == {m \in KeyMap : \A e \in Epochs : m[e] \in Known(u, s)}
Sane(n, s) == {f \in Flow : /\ f.key <= n
                            /\ f.got \in KnownMap(f.who, s)
                            /\ (f.op = "kick" => f.about # Owner)}

KeysInv ==
  /\ Owner \in members
  /\ \A k \in Keys : IF k <= made THEN members \subseteq since[k] ELSE since[k] = {}
  /\ \A u \in Users : holds[u] \in KnownMap(u, since) /\ wraps[u] \in KnownMap(u, since)
  /\ flows \subseteq Sane(made, since)

(* As members join and keys are made, nobody becomes ineligible.             *)
LEMMA KnownGrows ==
  ASSUME NEW u, NEW s, NEW r, \A k \in Keys : s[k] \subseteq r[k]
  PROVE  Known(u, s) \subseteq Known(u, r) /\ KnownMap(u, s) \subseteq KnownMap(u, r)
  BY DEF Known, KnownMap

LEMMA SaneGrows ==
  ASSUME NEW n \in Nat, NEW m \in Nat, n <= m,
         NEW s, NEW r, \A k \in Keys : s[k] \subseteq r[k]
  PROVE  Sane(n, s) \subseteq Sane(m, r)
<1>1. ASSUME NEW f \in Sane(n, s) PROVE f \in Sane(m, r)
  <2>1. f \in Flow /\ f.key <= n /\ f.got \in KnownMap(f.who, s) /\ (f.op = "kick" => f.about # Owner)
    BY DEF Sane
  <2>2. f.key \in Keys \union {NoKey}
    BY <2>1 DEF Flow
  <2>3. f.key \in Nat
    BY <2>2, ConstantsAssumption DEF Keys, NoKey
  <2>4. f.key <= m /\ f.got \in KnownMap(f.who, r)
    BY <2>1, <2>3, KnownGrows
  <2> QED
    BY <2>1, <2>4 DEF Sane
<1> QED
  BY <1>1

LEMMA NoKeysKnown ==
  ASSUME NEW u, NEW s
  PROVE  NoKeys \in KnownMap(u, s)
  BY FirstKeyType DEF KnownMap, Known, NoKeys

(* A new flow, and what becomes of one.                                      *)
LEMMA NewFlowSane ==
  ASSUME NEW n \in Nat, NEW s, NEW op \in Ops, NEW u \in Users, NEW v \in Users,
         NEW pc \in PCs \ UploadPCs, op = "kick" => v # Owner
  PROVE  NewFlow(op, u, v, pc) \in Sane(n, s)
<1>1. NewFlow(op, u, v, pc) \in Flow
  BY NewFlowType DEF Upto
<1>2. /\ NewFlow(op, u, v, pc).key = NoKey /\ NewFlow(op, u, v, pc).got = NoKeys
      /\ NewFlow(op, u, v, pc).op = op /\ NewFlow(op, u, v, pc).about = v
  BY DEF NewFlow
<1> QED
  BY <1>1, <1>2, NoKeysKnown DEF Sane, NoKey

LEMMA AnswerSane ==
  ASSUME NEW n \in Nat, NEW s, NEW f \in Sane(n, s)
  PROVE  /\ Answer(f, TRUE) \in Sane(n, s) /\ Answer(f, FALSE) \in Sane(n, s)
         /\ \A pc \in PCs : [f EXCEPT !.pc = pc] \in Sane(n, s)
         /\ [f EXCEPT !.alive = FALSE] \in Sane(n, s)
         /\ \A ts \in SUBSET Users : [f EXCEPT !.pc = "compute", !.targets = ts] \in Sane(n, s)
         /\ \A r \in BOOLEAN : [f EXCEPT !.pc = "write", !.rotating = r] \in Sane(n, s)
         /\ [f EXCEPT !.pc = "reply", !.ok = FALSE, !.targets = {}, !.rotating = FALSE]
              \in Sane(n, s)
<1>0. f \in Flow /\ f.key <= n /\ f.got \in KnownMap(f.who, s) /\ (f.op = "kick" => f.about # Owner)
  BY DEF Sane
<1>1. Answer(f, TRUE) \in Flow /\ Answer(f, FALSE) \in Flow
  BY <1>0 DEF Answer, Flow, PCs
<1>2. /\ Answer(f, TRUE) \in Sane(n, s)
      /\ Answer(f, FALSE) \in Sane(n, s)
  BY <1>0, <1>1 DEF Answer, Sane, Flow
<1>3. ASSUME NEW pc \in PCs PROVE [f EXCEPT !.pc = pc] \in Sane(n, s)
  BY <1>0 DEF Sane, Flow
<1>4. [f EXCEPT !.alive = FALSE] \in Sane(n, s)
  BY <1>0 DEF Sane, Flow
<1>5. ASSUME NEW ts \in SUBSET Users
      PROVE  [f EXCEPT !.pc = "compute", !.targets = ts] \in Sane(n, s)
  BY <1>0 DEF Sane, Flow, PCs
<1>6. ASSUME NEW r \in BOOLEAN PROVE [f EXCEPT !.pc = "write", !.rotating = r] \in Sane(n, s)
  BY <1>0 DEF Sane, Flow, PCs, ServerPCs
<1>7. [f EXCEPT !.pc = "reply", !.ok = FALSE, !.targets = {}, !.rotating = FALSE] \in Sane(n, s)
  BY <1>0 DEF Sane, Flow, PCs
<1> QED
  BY <1>2, <1>3, <1>4, <1>5, <1>6, <1>7

LEMMA FailedSane ==
  ASSUME NEW n \in Nat, NEW s, NEW fs \in SUBSET Sane(n, s)
  PROVE  Failed(fs) \subseteq Sane(n, s)
<1> SUFFICES ASSUME NEW f \in fs
             PROVE  [f EXCEPT !.pc = "reply", !.ok = FALSE, !.targets = {},
                              !.rotating = FALSE] \in Sane(n, s)
  BY Zenon DEF Failed
<1> QED
  BY AnswerSane

(* A wrap of a sane flow for members is a key they may know.                 *)
LEMMA InsertKnown ==
  ASSUME TypeInv, KeysInv, NEW f \in flows, NEW us \in SUBSET members
  PROVE  \A u \in Users : Insert(f, us)[u] \in KnownMap(u, since)
<1> SUFFICES ASSUME NEW u \in Users PROVE Insert(f, us)[u] \in KnownMap(u, since)
  OBVIOUS
<1>1. f.key \in Keys \union {NoKey} /\ f.key <= made /\ wraps[u] \in KnownMap(u, since)
  BY DEF TypeInv, TypeOK, Flow, KeysInv, Sane
<1>2. CASE u \in us
  <2>1. f.key \in Known(u, since)
    BY <1>1, <1>2 DEF KeysInv, Known
  <2>2. [wraps[u] EXCEPT ![f.epoch] = f.key] \in KnownMap(u, since)
    BY <1>1, <2>1 DEF KnownMap, KeyMap
  <2> QED
    BY <1>1, <2>2 DEF Insert
<1>3. CASE u \notin us
  BY <1>1, <1>3 DEF Insert
<1> QED
  BY <1>2, <1>3

(* Every step keeps the invariant.                                           *)
LEMMA KeysStep ==
  ASSUME TypeInv, KeysInv, [Next]_vars
  PROVE  KeysInv'
<1>0. /\ made \in Nat \ {0} /\ flows \subseteq Sane(made, since) /\ flows \subseteq Upto(made)
      /\ members \subseteq Users /\ current \in Epochs
      /\ wraps \in [Users -> KeyMap] /\ holds \in [Users -> KeyMap]
      /\ Owner \in members
      /\ \A u \in Users : holds[u] \in KnownMap(u, since) /\ wraps[u] \in KnownMap(u, since)
  BY DEF TypeInv, TypeOK, Bounded, KeysInv, Keys
<1>s. ASSUME flows' \subseteq Sane(made, since), UNCHANGED <<members, wraps, holds, history>>
      PROVE  KeysInv'
  BY <1>s DEF KeysInv, history
<1>t. ASSUME flows' \subseteq Sane(made, since), UNCHANGED <<members, holds, history>>,
             \A u \in Users : wraps'[u] \in KnownMap(u, since)
      PROVE  KeysInv'
  BY <1>t DEF KeysInv, history
<1>h. ASSUME flows' \subseteq Sane(made, since), UNCHANGED <<members, wraps, history>>,
             \A u \in Users : holds'[u] \in KnownMap(u, since)
      PROVE  KeysInv'
  BY <1>h DEF KeysInv, history
<1>n. ASSUME NEW op \in Ops, NEW u \in Users, NEW v \in Users, NEW pc \in PCs \ UploadPCs,
             op = "kick" => v # Owner
      PROVE  NewFlow(op, u, v, pc) \in Sane(made, since)
  BY <1>0, <1>n, NewFlowSane
<1>p. \A u \in Users : EventLoad(u) \in Sane(made, since) /\ Refresh(u) \in Sane(made, since)
  BY <1>n DEF EventLoad, Refresh, Ops, PCs, ServerPCs, UploadPCs
<1>1. CASE UNCHANGED vars
  BY <1>0, <1>1, <1>s DEF vars, server, client, keyMap
<1>2. CASE CreateInvite
  BY <1>0, <1>2, <1>s DEF CreateInvite, client, keyMap
<1>3. ASSUME NEW u \in Users, AcceptInvite(u) PROVE KeysInv'
  <2>1. \A k \in Keys : since[k] \subseteq since'[k]
    BY <1>3 DEF AcceptInvite
  <2>2. \A v : KnownMap(v, since) \subseteq KnownMap(v, since')
    BY <2>1, KnownGrows
  <2>3. Sane(made, since) \subseteq Sane(made, since')
    BY <1>0, <2>1, SaneGrows
  <2>4. NewFlow("accept", u, u, IF u \in members THEN "reply" ELSE "request") \in Sane(made, since)
    BY <1>n DEF Ops, PCs, ServerPCs, UploadPCs
  <2>5. flows' \subseteq Sane(made', since')
    BY <1>0, <1>3, <2>3, <2>4 DEF AcceptInvite
  <2>6. \A k \in Keys : IF k <= made' THEN members' \subseteq since'[k] ELSE since'[k] = {}
    BY <1>3 DEF AcceptInvite, KeysInv
  <2> QED
    BY <1>0, <1>3, <2>2, <2>5, <2>6 DEF AcceptInvite, client, keyMap, KeysInv
<1>4. ASSUME NEW t \in Users, StartKick(t) PROVE KeysInv'
  <2>1. /\ NewFlow("kick", Owner, t, "delete") \in Sane(made, since)
        /\ \A u \in Users : NewFlow("removed", u, u, "event") \in Sane(made, since)
    BY <1>4, <1>n, ConstantsAssumption DEF StartKick, Ops, PCs, ServerPCs, UploadPCs
  <2>2. flows' \subseteq Sane(made, since)
    BY <1>0, <1>4, <2>1 DEF StartKick
  <2> QED
    BY <1>s, <1>4, <2>2 DEF StartKick, server, client, keyMap
<1>5. ASSUME NEW u \in Users, Drop(u) \/ Reopen(u) PROVE KeysInv'
  BY <1>0, <1>5, <1>s DEF Drop, Reopen, server, client, keyMap
<1>6. ASSUME NEW u \in Users, Restart(u) PROVE KeysInv'
  <2>1. \A f \in flows : [f EXCEPT !.alive = FALSE] \in Sane(made, since)
    BY <1>0, AnswerSane
  <2>2. flows' \subseteq Sane(made, since)
    BY <1>0, <1>6, <1>p, <2>1 DEF Restart
  <2>3. \A v \in Users : holds'[v] \in KnownMap(v, since)
    BY <1>0, <1>6, NoKeysKnown DEF Restart
  <2> QED
    BY <1>h, <1>6, <2>2, <2>3 DEF Restart, server
<1>7. CASE Crash
  <2>1. Failed({f \in flows : f.pc \in ServerPCs}) \subseteq Sane(made, since)
    BY <1>0, FailedSane
  <2>2. flows' \subseteq Sane(made, since)
    BY <1>0, <1>7, <2>1 DEF Crash
  <2>3. \A u \in Users : wraps'[u] \in KnownMap(u, since)
    <3>1. \/ UNCHANGED wraps
          \/ \E f \in flows, us \in SUBSET members : wraps' = Insert(f, us)
          \/ \E v : wraps' = [wraps EXCEPT ![v] = NoKeys]
      BY <1>7 DEF Crash
    <3>2. \A v \in Users : NoKeys \in KnownMap(v, since)
      BY NoKeysKnown
    <3> QED BY <1>0, <3>1, <3>2, InsertKnown
  <2> QED
    BY <1>t, <1>7, <2>2, <2>3 DEF Crash, client, keyMap
<1>8. ASSUME NEW f \in flows, FlowStep(f) PROVE KeysInv'
  <2>0. /\ f \in Sane(made, since) /\ f \in Flow /\ f.who \in Users /\ f.about \in Users
        /\ f.got \in KnownMap(f.who, since) /\ f.key \in Keys \union {NoKey} /\ f.key <= made
        /\ f.epoch \in Epochs \union {0}
    BY <1>0, FlowFields DEF Sane
  <2>e. ASSUME NEW new \in SUBSET Sane(made, since), End(f, new)
        PROVE  flows' \subseteq Sane(made, since)
    BY <1>0, <2>e DEF End
  <2>m. ASSUME NEW g \in Sane(made, since), NEW new \in SUBSET Sane(made, since), Step(f, g, new)
        PROVE  flows' \subseteq Sane(made, since)
    BY <1>0, <2>m DEF Step
  <2>z. {} \in SUBSET Sane(made, since)
    OBVIOUS
  <2>q. \A pc \in PCs : [f EXCEPT !.pc = pc] \in Sane(made, since)
    BY <1>0, <2>0, AnswerSane
  <2>a. Answer(f, TRUE) \in Sane(made, since) /\ Answer(f, FALSE) \in Sane(made, since)
    BY <1>0, <2>0, AnswerSane
  <2>1. CASE KeyRequest(f)
    <3>1. {NewFlow("wrap", u, f.who, "event") : u \in (members \intersect online) \ {f.who}}
            \subseteq Sane(made, since)
      BY <1>0, <2>0, <1>n DEF Ops, PCs, UploadPCs
    <3>2. flows' \subseteq Sane(made, since)
      BY <2>1, <2>m, <2>q, <3>1 DEF KeyRequest, PCs
    <3> QED
      BY <1>s, <2>1, <3>2 DEF KeyRequest, server, client, keyMap
  <2>2. CASE AcceptReply(f)
    <3>1. flows' \subseteq Sane(made, since)
      BY <2>2, <2>0, <2>e, <1>p DEF AcceptReply
    <3> QED
      BY <1>s, <2>2, <3>1 DEF AcceptReply, server, client, keyMap
  <2>3. CASE RefreshRead(f)
    <3> DEFINE e == IF f.who \in members THEN current ELSE 0
    <3>1. [f EXCEPT !.pc = "apply", !.seen = e] \in Flow
      BY <1>0, <2>0 DEF Flow, PCs
    <3>2. [f EXCEPT !.pc = "apply", !.seen = e] \in Sane(made, since)
      BY <2>0, <3>1 DEF Sane, Flow
    <3>3. flows' \subseteq Sane(made, since)
      BY <2>3, <2>m, <3>2 DEF RefreshRead
    <3> QED
      BY <1>s, <2>3, <3>3 DEF RefreshRead, server, client, keyMap
  <2>4. CASE RefreshApply(f)
    <3>1. NewFlow("load", f.who, f.who, "member") \in Sane(made, since)
      BY <2>0, <1>n DEF Ops, PCs, ServerPCs, UploadPCs
    <3>2. flows' \subseteq Sane(made, since)
      BY <2>4, <2>e, <3>1 DEF RefreshApply
    <3> QED
      BY <1>s, <2>4, <3>2 DEF RefreshApply, server, keyMap
  <2>5. CASE LoadMember(f)
    <3>1. flows' \subseteq Sane(made, since)
      BY <2>5, <2>e, <2>m, <2>q DEF LoadMember, PCs, ServerPCs
    <3> QED
      BY <1>s, <2>5, <3>1 DEF LoadMember, server, client, keyMap
  <2>6. CASE LoadRead(f)
    <3>1. [f EXCEPT !.pc = "apply", !.seen = current, !.got = wraps[f.who]] \in Flow
      BY <1>0, <2>0 DEF Flow, PCs
    <3>2. [f EXCEPT !.pc = "apply", !.seen = current, !.got = wraps[f.who]] \in Sane(made, since)
      BY <1>0, <2>0, <3>1 DEF Sane, Flow
    <3>3. flows' \subseteq Sane(made, since)
      BY <2>6, <2>m, <3>2 DEF LoadRead
    <3> QED
      BY <1>s, <2>6, <3>3 DEF LoadRead, server, client, keyMap
  <2>7. CASE LoadApply(f)
    <3>1. flows' \subseteq Sane(made, since)
      BY <2>7, <2>e DEF LoadApply
    <3>2. [e \in Epochs |-> IF holds[f.who][e] # NoKey THEN holds[f.who][e] ELSE f.got[e]]
            \in KnownMap(f.who, since)
      BY <1>0, <2>0 DEF KnownMap, KeyMap
    <3>3. \A u \in Users : holds'[u] \in KnownMap(u, since)
      BY <1>0, <2>7, <3>2 DEF LoadApply
    <3> QED
      BY <1>h, <2>7, <3>1, <3>3 DEF LoadApply, server
  <2>8. CASE WrapNext(f)
    <3> DEFINE map == IF f.got = NoKeys THEN holds[f.who] ELSE f.got
               left == {e \in Epochs : e > f.epoch /\ map[e] # NoKey}
               next(e) == [f EXCEPT !.pc = "role", !.epoch = e, !.key = map[e],
                                    !.targets = {f.about}, !.ok = TRUE]
    <3>1. map \in KnownMap(f.who, since)
      BY <1>0, <2>0
    <3>2. ASSUME NEW e \in Epochs PROVE next(e) \in Sane(made, since)
      <4>1. map[e] \in Keys \union {NoKey} /\ map[e] <= made
        <5>1. map[e] \in Known(f.who, since)
          BY <3>1 DEF KnownMap
        <5> HIDE DEF map
        <5>2. map[e] = NoKey \/ (map[e] \in Keys /\ since[map[e]] # {})
          BY <5>1 DEF Known
        <5> QED
          BY <1>0, <5>2, ConstantsAssumption DEF KeysInv, Keys, NoKey
      <4> HIDE DEF map
      <4>2. {f.about} \in SUBSET Users
        BY <2>0
      <4>3. next(e) \in Flow
        BY <2>0, <4>1, <4>2 DEF Flow, PCs, ServerPCs
      <4> QED
        BY <2>0, <4>1, <4>3 DEF Sane, Flow
    <3>3. NextWrap(f) => End(f, {}) \/ \E e \in left : Step(f, next(e), {})
      BY Zenon DEF NextWrap
    <3>4. \A e \in left : next(e) \in Sane(made, since)
      BY <3>2
    <3> HIDE DEF left, next
    <3>5. flows' \subseteq Sane(made, since)
      BY <2>8, <3>3, <3>4, <2>e, <2>m DEF WrapNext
    <3> QED
      BY <1>s, <2>8, <3>5 DEF WrapNext, server, client, keyMap
  <2>9. CASE KickDelete(f)
    <3>1. flows' \subseteq Sane(made, since)
      BY <2>9, <2>e, <2>m, <2>q DEF KickDelete, PCs, ServerPCs
    <3>2. f.about # Owner /\ members' = members \ {f.about}
      BY <2>0, <2>9 DEF KickDelete, At, Sane
    <3>3. \A u \in Users : wraps'[u] \in KnownMap(u, since)
      BY <1>0, <2>9, NoKeysKnown DEF KickDelete
    <3> QED
      BY <1>0, <2>9, <3>1, <3>2, <3>3 DEF KickDelete, client, keyMap, history, KeysInv
  <2>10. CASE KickList(f)
    <3>1. [f EXCEPT !.pc = "compute", !.targets = members] \in Sane(made, since)
      BY <1>0, <2>0, AnswerSane
    <3>2. flows' \subseteq Sane(made, since)
      BY <2>10, <2>e, <2>m, <3>1 DEF KickList
    <3> QED
      BY <1>s, <2>10, <3>2 DEF KickList, server, client, keyMap
  <2>11. CASE KickCompute(f)
    <3>0. made' = made + 1 /\ made + 1 \in Keys /\ since' = [since EXCEPT ![made + 1] = members]
          /\ UNCHANGED <<members, wraps, holds>> /\ since \in [Keys -> SUBSET Users]
      BY <1>0, <2>11, ConstantsAssumption
      DEF KickCompute, server, client, keyMap, Keys, TypeInv, TypeOK
    <3>1. since[made + 1] = {}
      BY <1>0, <3>0 DEF KeysInv
    <3>2. \A k \in Keys : since[k] \subseteq since'[k]
      BY <3>0, <3>1
    <3>3. \A k \in Keys : IF k <= made' THEN members' \subseteq since'[k] ELSE since'[k] = {}
      BY <1>0, <3>0, ConstantsAssumption DEF KeysInv, Keys
    <3>4. Sane(made, since) \subseteq Sane(made', since')
      <4>1. made \in Nat /\ made' \in Nat /\ made <= made'
        BY <1>0, <3>0
      <4> QED
        BY <3>2, <4>1, SaneGrows
    <3>5. \A u : KnownMap(u, since) \subseteq KnownMap(u, since')
      BY <3>2, KnownGrows
    <3> DEFINE g == [f EXCEPT !.pc = "role", !.epoch = cur[Owner] + 1, !.key = made + 1]
    <3>6. g \in Flow
      <4>1. cur[Owner] + 1 \in Epochs
        <5>1. cur[Owner] \in Epochs \union {0} /\ cur[Owner] <= made
          BY <1>0, ConstantsAssumption DEF TypeInv, TypeOK, Bounded
        <5> QED
          BY <1>0, <3>0, <5>1, ConstantsAssumption DEF Keys, Epochs
      <4> QED
        BY <2>0, <3>0, <4>1 DEF Flow, PCs, ServerPCs
    <3>7. g \in Sane(made', since')
      <4>1. g.got = f.got /\ g.who = f.who /\ g.op = f.op /\ g.about = f.about /\ g.key = made'
        BY <2>0, <3>0 DEF Flow
      <4>2. g.key <= made'
        BY <1>0, <3>0, <4>1
      <4> HIDE DEF g
      <4>3. g.got \in KnownMap(g.who, since') /\ (g.op = "kick" => g.about # Owner)
        BY <2>0, <3>5, <4>1 DEF Sane
      <4> QED
        BY <3>6, <4>2, <4>3 DEF Sane
    <3>8. flows' \subseteq Sane(made', since')
      BY <1>0, <2>11, <3>4, <3>7 DEF KickCompute, Step
    <3> QED
      BY <1>0, <3>0, <3>3, <3>5, <3>8 DEF KeysInv
  <2>12. CASE KickReply(f)
    <3>1. flows' \subseteq Sane(made, since)
      BY <2>12, <2>e DEF KickReply
    <3>2. f.key \in Known(Owner, since)
      BY <1>0, <2>0 DEF KeysInv, Known
    <3>3. [holds[Owner] EXCEPT ![f.epoch] = f.key] \in KnownMap(Owner, since)
      BY <1>0, <2>0, <3>2, ConstantsAssumption DEF KnownMap, KeyMap
    <3>4. \A u \in Users : holds'[u] \in KnownMap(u, since)
      BY <1>0, <2>12, <3>3, ConstantsAssumption DEF KickReply
    <3> QED
      BY <1>h, <2>12, <3>1, <3>4 DEF KickReply, server
  <2>13. CASE RemovedEvent(f)
    <3>1. \A g \in flows : g.who = f.who => [g EXCEPT !.got = holds[f.who]] \in Sane(made, since)
      BY <1>0, <2>0 DEF Sane, Flow
    <3>2. flows' \subseteq Sane(made, since)
      BY <1>0, <2>13, <3>1 DEF RemovedEvent
    <3>3. \A u \in Users : holds'[u] \in KnownMap(u, since)
      BY <1>0, <2>13, NoKeysKnown DEF RemovedEvent
    <3> QED
      BY <1>h, <2>13, <3>2, <3>3 DEF RemovedEvent, server
  <2>14. CASE UploadRole(f)
    <3>1. Step(f, [f EXCEPT !.pc = "current"], {}) \/ Step(f, Answer(f, FALSE), {})
      BY <2>14, Zenon DEF UploadRole
    <3>2. [f EXCEPT !.pc = "current"] \in Sane(made, since)
      BY <2>q DEF PCs, ServerPCs
    <3>3. flows' \subseteq Sane(made, since)
      BY <2>m, <2>a, <2>z, <3>1, <3>2, Zenon
    <3> QED
      BY <1>s, <2>14, <3>3 DEF UploadRole, server, client, keyMap
  <2>15. CASE UploadCurrent(f)
    <3>1. \/ Step(f, [f EXCEPT !.pc = "write", !.rotating = (f.epoch = current + 1)], {})
          \/ Step(f, Answer(f, FALSE), {})
      BY <2>15, Zenon DEF UploadCurrent
    <3>2. [f EXCEPT !.pc = "write", !.rotating = (f.epoch = current + 1)] \in Sane(made, since)
      BY <1>0, <2>0, AnswerSane
    <3>3. flows' \subseteq Sane(made, since)
      BY <2>m, <2>a, <2>z, <3>1, <3>2, Zenon
    <3> QED
      BY <1>s, <2>15, <3>3 DEF UploadCurrent, server, client, keyMap
  <2>16. CASE UploadWrite(f)
    <3>1. {EventLoad(u) : u \in f.targets \intersect online} \subseteq Sane(made, since)
      BY <1>p DEF TypeInv, TypeOK
    <3>2. flows' \subseteq Sane(made, since)
      BY <2>16, <2>m, <2>a, <3>1 DEF UploadWrite
    <3>3. \A u \in Users : wraps'[u] \in KnownMap(u, since)
      BY <1>0, <2>16, InsertKnown DEF UploadWrite
    <3> QED
      BY <1>t, <2>16, <3>2, <3>3 DEF UploadWrite, client, keyMap
  <2>17. CASE UploadPartial(f)
    <3>1. Step(f, Answer(f, FALSE), {})
      BY <2>17, Zenon DEF UploadPartial
    <3>2. flows' \subseteq Sane(made, since)
      BY <2>m, <2>a, <2>z, <3>1, Zenon
    <3>3. \A u \in Users : wraps'[u] \in KnownMap(u, since)
      BY <1>0, <2>17, InsertKnown DEF UploadPartial
    <3> QED
      BY <1>t, <2>17, <3>2, <3>3 DEF UploadPartial, client, keyMap
  <2>18. CASE CreateReply(f)
    <3>1. flows' \subseteq Sane(made, since)
      BY <2>18, <2>e, <1>p, ConstantsAssumption DEF CreateReply
    <3>2. FirstKey \in KnownMap(Owner, since)
      <4>1. FirstKey \in KeyMap /\ \A e \in Epochs : FirstKey[e] \in {NoKey, 1}
        BY FirstKeyType DEF FirstKey, NoKeys, KeyMap
      <4>2. 1 \in Known(Owner, since) /\ NoKey \in Known(Owner, since)
        BY <1>0, FirstKeyType DEF Known, KeysInv
      <4> QED
        BY <4>1, <4>2 DEF KnownMap
    <3>3. \A u \in Users : holds'[u] \in KnownMap(u, since)
      BY <1>0, <2>18, <3>2 DEF CreateReply, keyMap
    <3> QED
      BY <1>h, <2>18, <3>1, <3>3 DEF CreateReply, server
  <2>19. CASE LoseAnswer(f)
    <3>1. {f} \subseteq Sane(made, since) /\ Failed({f}) \subseteq Sane(made, since)
      BY <1>0, <2>0, FailedSane
    <3>2. [f EXCEPT !.alive = FALSE] \in Sane(made, since)
      BY <1>0, <2>0, AnswerSane
    <3>3. flows' \subseteq Sane(made, since)
      BY <2>19, <2>e, <3>1, <3>2 DEF LoseAnswer
    <3> QED
      BY <1>s, <2>19, <3>3 DEF LoseAnswer, server, client, keyMap
  <2> QED
    BY <1>8, <2>1, <2>2, <2>3, <2>4, <2>5, <2>6, <2>7, <2>8, <2>9, <2>10, <2>11, <2>12, <2>13,
       <2>14, <2>15, <2>16, <2>17, <2>18, <2>19 DEF FlowStep
<1> QED
  BY <1>1, <1>2, <1>3, <1>4, <1>5, <1>6, <1>7, <1>8 DEF Next, UserStep

(* What holds of the keys at the start.                                      *)
LEMMA KeysInit == Init => KeysInv
<1> SUFFICES ASSUME Init PROVE KeysInv
  OBVIOUS
<1>1. Owner \in members /\ made = 1 /\ members \subseteq Users
  BY ConstantsAssumption DEF Init, StartWith, Unspent
<1>2. \A k \in Keys : IF k <= made THEN members \subseteq since[k] ELSE since[k] = {}
  BY <1>1, FirstKeyType DEF Init, StartWith, Unspent, Keys
<1>3. \A u \in members : FirstKey \in KnownMap(u, since)
  <2>1. FirstKey \in KeyMap /\ \A e \in Epochs : FirstKey[e] \in {NoKey, 1}
    BY FirstKeyType DEF FirstKey, NoKeys, KeyMap
  <2>2. \A u \in members : 1 \in Known(u, since) /\ NoKey \in Known(u, since)
    BY <1>1, <1>2, FirstKeyType DEF Known
  <2> QED
    BY <2>1, <2>2 DEF KnownMap
<1>4. \A u \in Users : holds[u] \in KnownMap(u, since) /\ wraps[u] \in KnownMap(u, since)
  BY <1>3, NoKeysKnown DEF Init, StartWith, Unspent
<1>5. Create \in Sane(made, since)
  <2>1. Create \in Flow
    BY CreateType
  <2>2. Create.key = 1 /\ Create.got = NoKeys /\ Create.op = "create"
    BY DEF Create, NewFlow
  <2> QED
    BY <1>1, <2>1, <2>2, NoKeysKnown DEF Sane
<1>6. flows \subseteq Sane(made, since)
  BY <1>5 DEF Init, StartWith, Unspent
<1> QED
  BY <1>1, <1>2, <1>4, <1>6 DEF KeysInv

(* A key reaches only users who were members since it was made.              *)
THEOREM KeysStayHolds == Spec => []KeysStayWithMembers
<1>1. Init => KeysInv
  BY KeysInit
<1>2. TypeInv /\ KeysInv /\ [Next]_vars => KeysInv'
  BY KeysStep
<1>3. TypeInv /\ KeysInv => KeysStayWithMembers
  BY DEF TypeInv, TypeOK, KeysInv, KnownMap, Known, KeysStayWithMembers
<1> QED
  BY <1>1, <1>2, <1>3, TypeInvariance, PTL DEF Spec

-----------------------------------------------------------------------------
(* OneKeyPerEpochOnce is not inductive either: up to the first rotation the  *)
(* key of an epoch is the epoch, wherever it is held, wrapped or on its way. *)
(* The first rotation takes epoch 2, for the owner lists the space as long   *)
(* as a removal of its own goes on.                                          *)
Plain == {m \in KeyMap : \A e \in Epochs : m[e] \in {NoKey, e}}
Honest(f) == f.key \in {NoKey, f.epoch} /\ f.got \in Plain
Shaped(f) ==
  /\ f.op \in {"create", "kick"} => f.who = Owner
  /\ f.op = "removed" => f.who # Owner
  /\ At(f, "refresh", "apply") /\ f.who = Owner => f.seen # 0
  /\ At(f, "load", "apply") => f.seen # 0
  /\ At(f, "kick", "reply") => f.epoch # 0
Led(f) == f.op = "kick" /\ (f.alive \/ f.pc = "compute") => cur[Owner] # 0
FlowsInv == \A f \in flows : Shaped(f) /\ Led(f)
EpochInv ==
  made <= 2 => /\ \A u \in Users : holds[u] \in Plain /\ wraps[u] \in Plain
               /\ \A f \in flows : Honest(f)

(* An answered flow is the flow but for what the answer sets.               *)
Kin(g, f) == g.op = f.op /\ g.who = f.who /\ g.about = f.about /\ (g.alive <=> f.alive)

Answered(g, f) == g = Answer(f, TRUE) \/ g = Answer(f, FALSE)

LEMMA Answers ==
  ASSUME NEW f \in Flow, NEW g, Answered(g, f)
  PROVE  Kin(g, f) /\ g.pc = "reply" /\ g.epoch = f.epoch /\ g.key = f.key /\ g.seen = f.seen /\ g.got = f.got
<1>1. CASE g = Answer(f, TRUE)
  BY <1>1 DEF Flow, Answer, Kin
<1>2. CASE g = Answer(f, FALSE)
  BY <1>2 DEF Flow, Answer, Kin
<1> QED BY <1>1, <1>2 DEF Answered

(* What an error leaves of the flows: the wraps, to go on with another epoch. *)
LEMMA Failures ==
  ASSUME NEW fs \in SUBSET Flow
  PROVE  \A g \in Failed(fs) : \E f \in fs :
           /\ f.op = "wrap" /\ f.alive /\ g.op = "wrap" /\ g.pc = "reply" /\ g.who = f.who /\ g.about = f.about
           /\ g.epoch = f.epoch /\ g.key = f.key /\ g.got = f.got
<1> TAKE g \in Failed(fs)
<1>1. PICK f \in fs : /\ f.op = "wrap" /\ f.alive
                     /\ g = [f EXCEPT !.pc = "reply", !.ok = FALSE, !.targets = {}, !.rotating = FALSE]
  BY Zenon DEF Failed
<1>2. /\ g.op = "wrap" /\ g.pc = "reply" /\ g.who = f.who /\ g.about = f.about
      /\ g.epoch = f.epoch /\ g.key = f.key /\ g.got = f.got
  BY <1>1 DEF Flow
<1> QED BY <1>1, <1>2

(* What the flows that start look like.                                      *)
LEMMA NewFlows ==
  ASSUME NEW op, NEW u, NEW v, NEW pc
  PROVE  LET g == NewFlow(op, u, v, pc)
         IN /\ g.op = op /\ g.who = u /\ g.about = v /\ g.pc = pc /\ g.alive /\ g.ok
            /\ g.epoch = 0 /\ g.key = NoKey /\ g.seen = 0 /\ g.got = NoKeys
  BY DEF NewFlow

(* Every step keeps the shape of the flows, and the owner its space while it *)
(* removes a member.                                                         *)
LEMMA FlowsStep ==
  ASSUME TypeInv, KeysInv, FlowsInv, [Next]_vars
  PROVE  FlowsInv'
<1> USE ConstantsAssumption
<1>0. /\ flows \subseteq Flow /\ cur \in [Users -> Epochs \union {0}] /\ current \in Epochs /\ 0 \notin Epochs
      /\ Owner \in members /\ flows \subseteq Upto(made) /\ made \in Nat
  BY FirstKeyType DEF TypeInv, TypeOK, Bounded, KeysInv, Keys
<1>s. ASSUME \A g \in flows' : g \in flows \/ (Shaped(g) /\ Led(g)'), cur[Owner] # 0 => cur'[Owner] # 0
      PROVE  FlowsInv'
  BY <1>s DEF FlowsInv, Led
<1>n. ASSUME NEW op \in {"accept", "wrap", "load", "refresh"}, NEW u \in Users, NEW v \in Users,
             NEW pc \in {"request", "reply", "event", "member", "spaces"}
      PROVE  Shaped(NewFlow(op, u, v, pc)) /\ Led(NewFlow(op, u, v, pc))'
  BY <1>n, NewFlows DEF Shaped, Led, At
<1>p. \A u \in Users : /\ Shaped(EventLoad(u)) /\ Led(EventLoad(u))'
                       /\ Shaped(Refresh(u)) /\ Led(Refresh(u))'
  BY <1>n DEF EventLoad, Refresh
<1>1. CASE UNCHANGED vars
  BY <1>1, <1>s DEF vars, client
<1>2. CASE CreateInvite
  BY <1>2, <1>s DEF CreateInvite, client
<1>3. ASSUME NEW u \in Users, AcceptInvite(u) PROVE FlowsInv'
  <2>1. \A g \in flows' : g \in flows \/ g = NewFlow("accept", u, u, IF u \in members THEN "reply" ELSE "request")
    BY <1>3 DEF AcceptInvite
  <2> QED BY <1>3, <1>s, <1>n, <2>1 DEF AcceptInvite, client
<1>4. ASSUME NEW t \in Users, StartKick(t) PROVE FlowsInv'
  <2>1. \A g \in flows' : g \in flows \/ g = NewFlow("kick", Owner, t, "delete") \/ g = NewFlow("removed", t, t, "event")
    BY <1>4 DEF StartKick
  <2>2. cur[Owner] # 0 /\ t # Owner /\ cur' = cur
    BY <1>4 DEF StartKick, client
  <2>3. Shaped(NewFlow("kick", Owner, t, "delete")) /\ Shaped(NewFlow("removed", t, t, "event"))
    BY <2>2, NewFlows DEF Shaped, At
  <2> QED BY <1>s, <2>1, <2>2, <2>3 DEF Led
<1>5. ASSUME NEW u \in Users, Drop(u) \/ Reopen(u) PROVE FlowsInv'
  BY <1>5, <1>s DEF Drop, Reopen, client
<1>6. ASSUME NEW u \in Users, Restart(u) PROVE FlowsInv'
  <2>1. cur' = [cur EXCEPT ![u] = 0]
    BY <1>6 DEF Restart
  <2>2. ASSUME NEW g \in flows'
        PROVE  \/ g = Refresh(u)
               \/ g \in flows /\ g.who # u
               \/ \E f \in flows : f.who = u /\ f.pc \in ServerPCs /\ f.op \notin {"load", "refresh"}
                                   /\ g = [f EXCEPT !.alive = FALSE]
    BY <1>6, <2>2, Zenon DEF Restart
  <2>3. ASSUME NEW f \in flows, f.pc \in ServerPCs, f.op \notin {"load", "refresh"}, NEW g, g = [f EXCEPT !.alive = FALSE]
        PROVE  Shaped(g) /\ Led(g)'
    <3>1. f \in Flow /\ Shaped(f)
      BY <1>0 DEF FlowsInv
    <3>2. ~g.alive /\ g.op = f.op /\ g.who = f.who /\ g.pc = f.pc /\ g.epoch = f.epoch /\ g.seen = f.seen
      BY <2>3, <3>1 DEF Flow
    <3> QED BY <2>3, <3>1, <3>2 DEF Shaped, Led, At, ServerPCs
  <2>4. ASSUME NEW g \in flows, g.who # u PROVE Shaped(g) /\ Led(g)'
    BY <1>0, <2>1, <2>4 DEF FlowsInv, Led, Shaped
  <2> QED BY <1>p, <2>2, <2>3, <2>4 DEF FlowsInv
<1>7. CASE Crash
  <2>1. \A g \in flows' : g \in flows \/ g \in Failed({f \in flows : f.pc \in ServerPCs})
    BY <1>7 DEF Crash
  <2>2. \A g \in Failed({f \in flows : f.pc \in ServerPCs}) : g.op = "wrap"
    <3>1. {f \in flows : f.pc \in ServerPCs} \in SUBSET Flow
      BY <1>0
    <3> QED BY <3>1, Failures
  <2> QED BY <1>7, <1>s, <2>1, <2>2 DEF Crash, client, Shaped, Led, At
<1>8. ASSUME NEW f \in flows, FlowStep(f) PROVE FlowsInv'
  <2>0. f \in Flow /\ Shaped(f) /\ Led(f) /\ f.who \in Users /\ f.seen \in Epochs \union {0} /\ f.epoch \in Epochs \union {0}
        /\ (f.pc \in UploadPCs => f.epoch \in Epochs)
    BY <1>0, FlowFields DEF FlowsInv
  <2>m. ASSUME NEW g, NEW new, Step(f, g, new), Shaped(g), Led(g)', \A h \in new : Shaped(h) /\ Led(h)',
               cur[Owner] # 0 => cur'[Owner] # 0
        PROVE  FlowsInv'
    BY <2>m, <1>s DEF Step
  <2>e. ASSUME NEW new, End(f, new), \A h \in new : Shaped(h) /\ Led(h)', cur[Owner] # 0 => cur'[Owner] # 0
        PROVE  FlowsInv'
    BY <2>e, <1>s DEF End
  \* A flow that moves on and is not a rotation that is answered.
  <2>k. ASSUME NEW g, g.op = f.op, g.who = f.who, g.alive <=> f.alive, g.pc \notin {"apply", "compute"},
               g.op = "kick" /\ g.pc = "reply" => g.epoch # 0, UNCHANGED cur
        PROVE  Shaped(g) /\ Led(g)'
    BY <2>0, <2>k DEF Shaped, Led, At
  \* The answer to an upload.
  <2>w. ASSUME NEW g, NEW new, Step(f, g, new), Answered(g, f), f.pc \in UploadPCs, UNCHANGED cur,
               \A h \in new : Shaped(h) /\ Led(h)'
        PROVE  FlowsInv'
    <3>2. g.op = f.op /\ g.who = f.who /\ (g.alive <=> f.alive) /\ g.pc = "reply" /\ g.epoch = f.epoch
      BY <2>0, <2>w, Answers DEF Kin
    <3>3. Shaped(g) /\ Led(g)'
      BY <1>0, <2>0, <2>w, <2>k, <3>2
    <3> QED BY <2>m, <2>w, <3>3
  <2>1. CASE KeyRequest(f)
    <3>1. \A h \in {NewFlow("wrap", u, f.who, "event") : u \in (members \intersect online) \ {f.who}} : Shaped(h) /\ Led(h)'
      BY <1>n, <2>0 DEF TypeInv, TypeOK
    <3>2. PICK g : g = [f EXCEPT !.pc = "reply"]
      OBVIOUS
    <3>3. Shaped(g) /\ Led(g)'
      <4>1. f.op = "accept" /\ g.op = f.op
        BY <2>0, <2>1, <3>2 DEF Flow, KeyRequest, At
      <4> QED BY <4>1 DEF Shaped, Led, At
    <3> QED BY <2>1, <2>m, <3>1, <3>2, <3>3 DEF KeyRequest, client
  <2>2. CASE AcceptReply(f)
    BY <2>0, <2>2, <2>e, <1>p DEF AcceptReply, client
  <2>3. CASE RefreshRead(f)
    <3>1. PICK e, g : e = (IF f.who \in members THEN current ELSE 0) /\ g = [f EXCEPT !.pc = "apply", !.seen = e]
      OBVIOUS
    <3>2. f.op = "refresh" /\ g.op = f.op /\ g.who = f.who /\ g.seen = e
      BY <2>0, <2>3, <3>1 DEF Flow, RefreshRead, At
    <3>3. f.who = Owner => e # 0
      BY <1>0, <3>1
    <3>4. Shaped(g) /\ Led(g)'
      BY <3>2, <3>3 DEF Shaped, Led, At
    <3> QED BY <2>3, <2>m, <3>1, <3>4 DEF RefreshRead, client
  <2>4. CASE RefreshApply(f)
    <3>1. cur[Owner] # 0 => cur'[Owner] # 0
      BY <1>0, <2>0, <2>4 DEF RefreshApply, Shaped
    <3> QED BY <2>0, <2>4, <2>e, <1>n, <3>1 DEF RefreshApply
  <2>5. CASE LoadMember(f)
    <3>1. PICK g : g = [f EXCEPT !.pc = "read"]
      OBVIOUS
    <3>2. f.op = "load" /\ g.op = f.op /\ g.pc = "read"
      BY <2>0, <2>5, <3>1 DEF Flow, LoadMember
    <3>3. Shaped(g) /\ Led(g)'
      BY <3>2 DEF Shaped, Led, At
    <3> QED BY <2>5, <2>m, <2>e, <3>1, <3>3 DEF LoadMember, client
  <2>6. CASE LoadRead(f)
    <3>1. PICK g : g = [f EXCEPT !.pc = "apply", !.seen = current, !.got = wraps[f.who]]
      OBVIOUS
    <3>2. f.op = "load" /\ g.op = f.op /\ g.seen = current /\ current # 0
      BY <1>0, <2>0, <2>6, <3>1 DEF Flow, LoadRead, At
    <3>3. Shaped(g) /\ Led(g)'
      BY <3>2 DEF Shaped, Led, At
    <3> QED BY <2>6, <2>m, <3>1, <3>3 DEF LoadRead, client
  <2>7. CASE LoadApply(f)
    <3>1. f.seen # 0 /\ cur[Owner] # 0 => cur'[Owner] # 0
      BY <1>0, <2>0, <2>7 DEF LoadApply
    <3> QED BY <2>0, <2>7, <2>e, <3>1 DEF LoadApply, Shaped
  <2>8. CASE WrapNext(f)
    <3>1. f.op = "wrap" /\ UNCHANGED cur
      BY <2>8 DEF WrapNext, client
    <3>2. \/ End(f, {})
          \/ \E e, k, g : /\ g = [f EXCEPT !.pc = "role", !.epoch = e, !.key = k, !.targets = {f.about}, !.ok = TRUE]
                          /\ Step(f, g, {})
      BY <2>8, Zenon DEF WrapNext, NextWrap
    <3>3. ASSUME NEW e, NEW k, NEW g, g = [f EXCEPT !.pc = "role", !.epoch = e, !.key = k, !.targets = {f.about}, !.ok = TRUE]
          PROVE  Shaped(g) /\ Led(g)'
      <4>1. g.op = "wrap"
        BY <2>0, <3>1, <3>3 DEF Flow
      <4> QED BY <4>1 DEF Shaped, Led, At
    <3>4. CASE End(f, {})
      BY <2>e, <3>1, <3>4
    <3>5. ASSUME NEW g, Step(f, g, {}), Shaped(g), Led(g)' PROVE FlowsInv'
      BY <2>m, <3>1, <3>5
    <3> QED BY <3>2, <3>3, <3>4, <3>5
  <2>9. CASE KickDelete(f)
    <3>1. PICK g : g = [f EXCEPT !.pc = "list"]
      OBVIOUS
    <3>2. g.op = f.op /\ g.who = f.who /\ (g.alive <=> f.alive) /\ g.pc = "list"
      BY <2>0, <3>1 DEF Flow
    <3>3. Shaped(g) /\ Led(g)'
      BY <2>9, <2>k, <3>2 DEF KickDelete, client
    <3> QED BY <2>9, <2>m, <2>e, <3>1, <3>3 DEF KickDelete, client
  <2>10. CASE KickList(f)
    <3>1. PICK g : g = [f EXCEPT !.pc = "compute", !.targets = members]
      OBVIOUS
    <3>2. UNCHANGED cur /\ f.op = "kick" /\ (IF f.alive THEN Step(f, g, {}) ELSE End(f, {}))
      BY <2>10, <3>1 DEF KickList, client, At
    <3>3. g.op = f.op /\ g.who = f.who /\ g.pc = "compute"
      BY <2>0, <3>1 DEF Flow
    <3>4. f.alive => Shaped(g) /\ Led(g)'
      BY <2>0, <3>2, <3>3 DEF Shaped, Led, At
    <3> QED BY <2>m, <2>e, <3>2, <3>4
  <2>11. CASE KickCompute(f)
    <3>1. PICK g : g = [f EXCEPT !.pc = "role", !.epoch = cur[Owner] + 1, !.key = made + 1]
      OBVIOUS
    <3>2. g.op = f.op /\ g.who = f.who /\ (g.alive <=> f.alive) /\ g.pc = "role"
      BY <2>0, <3>1 DEF Flow
    <3>3. Shaped(g) /\ Led(g)'
      BY <2>11, <2>k, <3>2 DEF KickCompute, client
    <3> QED BY <2>11, <2>m, <3>1, <3>3 DEF KickCompute, client
  <2>12. CASE KickReply(f)
    <3>1. cur[Owner] # 0 => cur'[Owner] # 0
      BY <1>0, <2>0, <2>12 DEF KickReply, Shaped
    <3> QED BY <2>12, <2>e, <3>1 DEF KickReply
  <2>13. CASE RemovedEvent(f)
    <3>1. f.who # Owner /\ cur' = [cur EXCEPT ![f.who] = 0]
      BY <2>0, <2>13 DEF RemovedEvent, Shaped, At
    <3>2. ASSUME NEW g \in flows' PROVE g \in flows \/ (Shaped(g) /\ Led(g)')
      <4>1. g \in flows \/ \E h \in flows : h.op = "wrap" /\ g = [h EXCEPT !.got = holds[f.who]]
        BY <2>13, Zenon DEF RemovedEvent
      <4>2. ASSUME NEW h \in flows, h.op = "wrap", g = [h EXCEPT !.got = holds[f.who]] PROVE g.op = "wrap"
        BY <1>0, <4>2 DEF Flow
      <4> QED BY <4>1, <4>2 DEF Shaped, Led, At
    <3> QED BY <1>0, <1>s, <3>1, <3>2
  <2>14. CASE UploadRole(f)
    <3>1. PICK g : g = [f EXCEPT !.pc = "current"]
      OBVIOUS
    <3>2. UNCHANGED cur /\ f.pc = "role" /\ (Step(f, g, {}) \/ \E h : Answered(h, f) /\ Step(f, h, {}))
      BY <2>14, <3>1, Zenon DEF UploadRole, client, Answered
    <3>3. g.op = f.op /\ g.who = f.who /\ (g.alive <=> f.alive) /\ g.pc = "current"
      BY <2>0, <3>1 DEF Flow
    <3>4. Shaped(g) /\ Led(g)'
      BY <2>k, <3>2, <3>3
    <3>5. CASE Step(f, g, {})
      BY <2>m, <3>2, <3>4, <3>5
    <3>6. ASSUME NEW h, Answered(h, f), Step(f, h, {}) PROVE FlowsInv'
      BY <2>w, <3>2, <3>6 DEF UploadPCs
    <3> QED BY <3>2, <3>5, <3>6
  <2>15. CASE UploadCurrent(f)
    <3>1. PICK g : g = [f EXCEPT !.pc = "write", !.rotating = (f.epoch = current + 1)]
      OBVIOUS
    <3>2. UNCHANGED cur /\ f.pc = "current" /\ (Step(f, g, {}) \/ \E h : Answered(h, f) /\ Step(f, h, {}))
      BY <2>15, <3>1, Zenon DEF UploadCurrent, client, Answered
    <3>3. g.op = f.op /\ g.who = f.who /\ (g.alive <=> f.alive) /\ g.pc = "write"
      BY <2>0, <3>1 DEF Flow
    <3>4. Shaped(g) /\ Led(g)'
      BY <2>k, <3>2, <3>3
    <3>5. CASE Step(f, g, {})
      BY <2>m, <3>2, <3>4, <3>5
    <3>6. ASSUME NEW h, Answered(h, f), Step(f, h, {}) PROVE FlowsInv'
      BY <2>w, <3>2, <3>6 DEF UploadPCs
    <3> QED BY <3>2, <3>5, <3>6
  <2>16. CASE UploadWrite(f)
    <3>1. PICK g : g = Answer(f, TRUE)
      OBVIOUS
    <3>3. UNCHANGED cur /\ f.pc = "write" /\ Answered(g, f)
          /\ Step(f, g, {EventLoad(u) : u \in f.targets \intersect online})
      BY <2>16, <3>1 DEF UploadWrite, client, Answered
    <3>2. \A h \in {EventLoad(u) : u \in f.targets \intersect online} : Shaped(h) /\ Led(h)'
      BY <1>p DEF TypeInv, TypeOK
    <3> QED BY <2>w, <3>2, <3>3 DEF UploadPCs
  <2>17. CASE UploadPartial(f)
    <3>1. UNCHANGED cur /\ f.pc = "write" /\ \E h : Answered(h, f) /\ Step(f, h, {})
      BY <2>17, Zenon DEF UploadPartial, client, Answered
    <3> QED BY <2>w, <3>1 DEF UploadPCs
  <2>18. CASE CreateReply(f)
    BY <2>18, <2>e, <1>p DEF CreateReply
  <2>19. CASE LoseAnswer(f)
    <3>1. PICK g : g = [f EXCEPT !.alive = FALSE]
      OBVIOUS
    <3>2. /\ UNCHANGED cur /\ f.pc \in ServerPCs \union {"reply"}
          /\ End(f, Failed({f}) \union (IF f.op \in {"load", "refresh"} THEN {} ELSE {g}))
      BY <2>19, <3>1 DEF LoseAnswer, client
    <3>3. \A h \in Failed({f}) : Shaped(h) /\ Led(h)'
      <4>1. \A h \in Failed({f}) : h.op = "wrap"
        BY <2>0, Failures
      <4> QED BY <4>1 DEF Shaped, Led, At
    <3>4. Shaped(g) /\ Led(g)'
      <4>1. ~g.alive /\ g.op = f.op /\ g.who = f.who /\ g.pc = f.pc /\ g.epoch = f.epoch /\ g.seen = f.seen
        BY <2>0, <3>1 DEF Flow
      <4> QED BY <2>0, <3>2, <4>1 DEF Shaped, Led, At, ServerPCs
    <3> QED BY <2>e, <3>2, <3>3, <3>4
  <2> QED
    BY <1>8, <2>1, <2>2, <2>3, <2>4, <2>5, <2>6, <2>7, <2>8, <2>9, <2>10, <2>11, <2>12, <2>13,
       <2>14, <2>15, <2>16, <2>17, <2>18, <2>19 DEF FlowStep
<1> QED
  BY <1>1, <1>2, <1>3, <1>4, <1>5, <1>6, <1>7, <1>8 DEF Next, UserStep

(* Only a rotation makes a key.                                              *)
LEMMA MadeSteps ==
  ASSUME [Next]_vars
  PROVE  made' = made \/ (made' = made + 1 /\ \E f \in flows : KickCompute(f))
<1>1. CASE CreateInvite \/ Crash \/ UNCHANGED vars
  BY <1>1 DEF CreateInvite, Crash, history, vars
<1>2. ASSUME NEW u \in Users, UserStep(u) PROVE made' = made
  BY <1>2 DEF UserStep, AcceptInvite, StartKick, Drop, Reopen, Restart, history
<1>3. ASSUME NEW f \in flows, FlowStep(f), ~KickCompute(f) PROVE made' = made
  BY <1>3 DEF FlowStep, KeyRequest, AcceptReply, RefreshRead, RefreshApply, LoadMember, LoadRead, LoadApply,
              WrapNext, KickDelete, KickList, KickReply, RemovedEvent, UploadRole, UploadCurrent, UploadWrite,
              UploadPartial, CreateReply, LoseAnswer, history
<1>4. ASSUME NEW f \in flows, KickCompute(f) PROVE made' = made + 1
  BY <1>4 DEF KickCompute
<1> QED BY <1>1, <1>2, <1>3, <1>4 DEF Next

LEMMA PlainKeys ==
  /\ NoKeys \in Plain /\ FirstKey \in Plain /\ Plain \subseteq KeyMap
  /\ \A m \in Plain : \A e : [m EXCEPT ![e] = NoKey] \in Plain /\ (e \in Keys => [m EXCEPT ![e] = e] \in Plain)
<1> USE FirstKeyType
<1>1. NoKeys \in Plain
  BY DEF Plain, NoKeys, KeyMap
<1>2. FirstKey \in Plain
  BY DEF Plain, NoKeys, FirstKey, KeyMap
<1>3. ASSUME NEW m \in Plain, NEW e
      PROVE [m EXCEPT ![e] = NoKey] \in Plain /\ (e \in Keys => [m EXCEPT ![e] = e] \in Plain)
  BY DEF Plain, KeyMap
<1> QED BY <1>1, <1>2, <1>3 DEF Plain

(* Every step keeps the key of an epoch what it is, up to the first rotation. *)
LEMMA EpochStep ==
  ASSUME TypeInv, KeysInv, FlowsInv, EpochInv, [Next]_vars
  PROVE  EpochInv'
<1> USE ConstantsAssumption
<1>0. /\ flows \subseteq Flow /\ flows \subseteq Upto(made) /\ made \in Nat \ {0} /\ Keys = Epochs /\ 0 \notin Epochs
      /\ cur \in [Users -> Epochs \union {0}] /\ current \in Epochs /\ \A u \in Users : cur[u] <= made
      /\ holds \in [Users -> KeyMap] /\ wraps \in [Users -> KeyMap] /\ members \subseteq Users
  BY FirstKeyType DEF TypeInv, TypeOK, Bounded, Keys
<1> SUFFICES ASSUME made' <= 2 PROVE EpochInv'
  BY DEF EpochInv
<1>a. made <= 2 /\ (\A u \in Users : holds[u] \in Plain /\ wraps[u] \in Plain) /\ \A f \in flows : Honest(f)
  BY <1>0, MadeSteps DEF EpochInv
<1>s. ASSUME \A g \in flows' : g \in flows \/ Honest(g), \A u \in Users : holds'[u] \in Plain /\ wraps'[u] \in Plain
      PROVE  EpochInv'
  BY <1>a, <1>s DEF EpochInv
<1>n. \A op, u, v, pc : Honest(NewFlow(op, u, v, pc))
  BY NewFlows, PlainKeys DEF Honest
<1>p. \A u : Honest(EventLoad(u)) /\ Honest(Refresh(u))
  BY <1>n DEF EventLoad, Refresh
\* A flow that keeps its key, epoch and what it got.
<1>k. ASSUME NEW f \in flows, NEW g, g.key = f.key, g.epoch = f.epoch, g.got = f.got PROVE Honest(g)
  BY <1>a, <1>k DEF Honest
<1>f. ASSUME NEW fs \in SUBSET flows PROVE \A g \in Failed(fs) : Honest(g)
  BY <1>0, <1>k, Failures
<1>i. ASSUME NEW f \in flows, NEW us PROVE \A u \in Users : Insert(f, us)[u] \in Plain
  <2>1. f.key = NoKey \/ (f.key = f.epoch /\ f.key \in Keys)
    BY <1>0, <1>a DEF Honest, Flow
  <2> QED BY <1>a, <2>1, PlainKeys DEF Insert
<1>1. CASE UNCHANGED vars
  BY <1>1, <1>a, <1>s DEF vars, server, client, keyMap
<1>2. CASE CreateInvite
  BY <1>2, <1>a, <1>s DEF CreateInvite, client, keyMap
<1>3. ASSUME NEW u \in Users, AcceptInvite(u) PROVE EpochInv'
  BY <1>3, <1>a, <1>s, <1>n DEF AcceptInvite, client, keyMap
<1>4. ASSUME NEW t \in Users, StartKick(t) PROVE EpochInv'
  BY <1>4, <1>a, <1>s, <1>n DEF StartKick, server, client, keyMap
<1>5. ASSUME NEW u \in Users, Drop(u) \/ Reopen(u) PROVE EpochInv'
  BY <1>5, <1>a, <1>s DEF Drop, Reopen, server, client, keyMap
<1>6. ASSUME NEW u \in Users, Restart(u) PROVE EpochInv'
  <2>1. ASSUME NEW g \in flows' PROVE g \in flows \/ Honest(g)
    <3>1. g = Refresh(u) \/ g \in flows \/ \E f \in flows : g = [f EXCEPT !.alive = FALSE]
      BY <1>6, <2>1, Zenon DEF Restart
    <3>2. ASSUME NEW f \in flows, g = [f EXCEPT !.alive = FALSE] PROVE Honest(g)
      <4>1. g.key = f.key /\ g.epoch = f.epoch /\ g.got = f.got
        BY <1>0, <3>2 DEF Flow
      <4> QED BY <1>k, <4>1
    <3> QED BY <1>p, <3>1, <3>2
  <2>2. \A v \in Users : holds'[v] \in Plain /\ wraps'[v] \in Plain
    BY <1>0, <1>6, <1>a, PlainKeys DEF Restart, server
  <2> QED BY <1>s, <2>1, <2>2
<1>7. CASE Crash
  <2>1. \A g \in flows' : g \in flows \/ g \in Failed({f \in flows : f.pc \in ServerPCs})
    BY <1>7 DEF Crash
  <2>2. \A u \in Users : wraps'[u] \in Plain
    <3>1. \/ UNCHANGED wraps
          \/ \E f \in flows : \E us : wraps' = Insert(f, us)
          \/ \E v : wraps' = [wraps EXCEPT ![v] = NoKeys]
      BY <1>7 DEF Crash
    <3>2. NoKeys \in Plain
      BY PlainKeys
    <3> QED BY <1>0, <1>a, <1>i, <3>1, <3>2
  <2> QED BY <1>7, <1>a, <1>f, <1>s, <2>1, <2>2 DEF Crash, client, keyMap
<1>8. ASSUME NEW f \in flows, FlowStep(f) PROVE EpochInv'
  <2>0. f \in Flow /\ f.who \in Users /\ f.epoch \in Epochs \union {0} /\ f.key \in Keys \union {NoKey} /\ Honest(f)
    BY <1>0, <1>a, FlowFields
  <2>h. ASSUME NEW g, NEW new, Step(f, g, new), Honest(g), \A h \in new : Honest(h),
               \A u \in Users : holds'[u] \in Plain /\ wraps'[u] \in Plain
        PROVE  EpochInv'
    BY <2>h, <1>s DEF Step
  <2>e. ASSUME NEW new, End(f, new), \A h \in new : Honest(h),
               \A u \in Users : holds'[u] \in Plain /\ wraps'[u] \in Plain
        PROVE  EpochInv'
    BY <2>e, <1>s DEF End
  <2>m. ASSUME NEW g, NEW new, Step(f, g, new), Honest(g), \A h \in new : Honest(h), UNCHANGED <<holds, wraps>>
        PROVE  EpochInv'
    BY <1>a, <2>m, <2>h
  <2>d. ASSUME NEW new, End(f, new), \A h \in new : Honest(h), UNCHANGED <<holds, wraps>> PROVE EpochInv'
    BY <1>a, <2>d, <2>e
  <2>a. ASSUME NEW g, Answered(g, f) PROVE Honest(g)
    BY <1>k, <2>0, <2>a, Answers
  <2>1. CASE KeyRequest(f)
    <3>1. PICK g : g = [f EXCEPT !.pc = "reply"]
      OBVIOUS
    <3>2. Honest(g)
      BY <1>k, <2>0, <3>1 DEF Flow
    <3> QED BY <1>n, <2>1, <2>m, <3>1, <3>2 DEF KeyRequest, server, client, keyMap
  <2>2. CASE AcceptReply(f)
    BY <1>p, <2>2, <2>d DEF AcceptReply, server, client, keyMap
  <2>3. CASE RefreshRead(f)
    <3>1. PICK g : g = [f EXCEPT !.pc = "apply", !.seen = IF f.who \in members THEN current ELSE 0]
      OBVIOUS
    <3>2. g.key = f.key /\ g.epoch = f.epoch /\ g.got = f.got
      BY <2>0, <3>1 DEF Flow
    <3>3. Honest(g)
      BY <1>k, <3>2
    <3> QED BY <2>3, <2>m, <3>1, <3>3 DEF RefreshRead, server, client, keyMap
  <2>4. CASE RefreshApply(f)
    BY <1>n, <2>4, <2>d DEF RefreshApply, server, keyMap
  <2>5. CASE LoadMember(f)
    <3>1. PICK g : g = [f EXCEPT !.pc = "read"]
      OBVIOUS
    <3>2. Honest(g)
      BY <1>k, <2>0, <3>1 DEF Flow
    <3> QED BY <2>5, <2>m, <2>d, <3>1, <3>2 DEF LoadMember, server, client, keyMap
  <2>6. CASE LoadRead(f)
    <3>1. PICK g : g = [f EXCEPT !.pc = "apply", !.seen = current, !.got = wraps[f.who]]
      OBVIOUS
    <3>2. g.key = f.key /\ g.epoch = f.epoch /\ g.got = wraps[f.who]
      BY <2>0, <3>1 DEF Flow
    <3>3. Honest(g)
      BY <1>a, <2>0, <3>2 DEF Honest
    <3> QED BY <2>6, <2>m, <3>1, <3>3 DEF LoadRead, server, client, keyMap
  <2>7. CASE LoadApply(f)
    <3>1. [e \in Epochs |-> IF holds[f.who][e] # NoKey THEN holds[f.who][e] ELSE f.got[e]] \in Plain
      BY <1>a, <2>0 DEF Honest, Plain, KeyMap
    <3>2. \A u \in Users : holds'[u] \in Plain /\ wraps'[u] \in Plain
      BY <1>0, <1>a, <2>7, <3>1 DEF LoadApply, server
    <3> QED BY <2>7, <2>e, <3>2 DEF LoadApply
  <2>8. CASE WrapNext(f)
    <3>1. PICK map \in Plain : map = (IF f.got = NoKeys THEN holds[f.who] ELSE f.got)
      BY <1>a, <2>0 DEF Honest
    <3>2. \/ End(f, {})
          \/ \E e \in Epochs : \E g :
                                  /\ g = [f EXCEPT !.pc = "role", !.epoch = e, !.key = map[e],
                                                   !.targets = {f.about}, !.ok = TRUE]
                                  /\ Step(f, g, {})
      BY <2>8, <3>1, Zenon DEF WrapNext, NextWrap
    <3>3. ASSUME NEW e \in Epochs, NEW g, g = [f EXCEPT !.pc = "role", !.epoch = e, !.key = map[e],
                                                        !.targets = {f.about}, !.ok = TRUE]
          PROVE  Honest(g)
      <4>1. g.key = map[e] /\ g.epoch = e /\ g.got = f.got
        BY <2>0, <3>3 DEF Flow
      <4>2. map[e] \in {NoKey, e}
        BY DEF Plain
      <4> QED BY <2>0, <4>1, <4>2 DEF Honest
    <3>4. UNCHANGED <<holds, wraps>>
      BY <2>8 DEF WrapNext, server, client, keyMap
    <3>5. CASE End(f, {})
      BY <2>d, <3>4, <3>5
    <3>6. ASSUME NEW g, Step(f, g, {}), Honest(g) PROVE EpochInv'
      BY <2>m, <3>4, <3>6
    <3> QED BY <3>2, <3>3, <3>5, <3>6
  <2>9. CASE KickDelete(f)
    <3>1. PICK g : g = [f EXCEPT !.pc = "list"]
      OBVIOUS
    <3>2. Honest(g)
      BY <1>k, <2>0, <3>1 DEF Flow
    <3>3. \A u \in Users : holds'[u] \in Plain /\ wraps'[u] \in Plain
      BY <1>0, <1>a, <2>9, PlainKeys DEF KickDelete, client, keyMap
    <3> QED BY <2>9, <2>h, <2>e, <3>1, <3>2, <3>3 DEF KickDelete
  <2>10. CASE KickList(f)
    <3>1. PICK g : g = [f EXCEPT !.pc = "compute", !.targets = members]
      OBVIOUS
    <3>2. g.key = f.key /\ g.epoch = f.epoch /\ g.got = f.got
      BY <2>0, <3>1 DEF Flow
    <3>3. Honest(g)
      BY <1>k, <3>2
    <3> QED BY <2>10, <2>m, <2>d, <3>1, <3>3 DEF KickList, server, client, keyMap
  <2>11. CASE KickCompute(f)
    <3>1. PICK g : g = [f EXCEPT !.pc = "role", !.epoch = cur[Owner] + 1, !.key = made + 1]
      OBVIOUS
    <3>2. g.key = made + 1 /\ g.epoch = cur[Owner] + 1 /\ g.got = f.got
      BY <2>0, <3>1 DEF Flow
    <3>3. cur[Owner] # 0
      BY <2>11 DEF FlowsInv, Led, KickCompute, At
    <3>4. made = 1 /\ cur[Owner] = 1
      <4>1. made' = made + 1 /\ cur[Owner] \in Nat
        BY <1>0, <2>11 DEF KickCompute, Epochs
      <4> QED BY <1>0, <3>3, <4>1
    <3>5. Honest(g)
      BY <2>0, <3>2, <3>4 DEF Honest
    <3> QED BY <2>11, <2>m, <3>1, <3>5 DEF KickCompute, server, client, keyMap
  <2>12. CASE KickReply(f)
    <3>1. [holds[Owner] EXCEPT ![f.epoch] = f.key] \in Plain
      BY <1>a, <2>0, PlainKeys DEF Honest
    <3>2. \A u \in Users : holds'[u] \in Plain /\ wraps'[u] \in Plain
      BY <1>0, <1>a, <2>12, <3>1 DEF KickReply, server
    <3> QED BY <2>12, <2>e, <3>2 DEF KickReply
  <2>13. CASE RemovedEvent(f)
    <3>1. ASSUME NEW g \in flows' PROVE g \in flows \/ Honest(g)
      <4>1. g \in flows \/ \E h \in flows : g = [h EXCEPT !.got = holds[f.who]]
        BY <2>13, Zenon DEF RemovedEvent
      <4>2. ASSUME NEW h \in flows, g = [h EXCEPT !.got = holds[f.who]] PROVE Honest(g)
        <5>1. g.key = h.key /\ g.epoch = h.epoch /\ g.got = holds[f.who]
          BY <1>0, <4>2 DEF Flow
        <5> QED BY <1>a, <2>0, <5>1 DEF Honest
      <4> QED BY <4>1, <4>2
    <3>2. \A u \in Users : holds'[u] \in Plain /\ wraps'[u] \in Plain
      BY <1>0, <1>a, <2>13, PlainKeys DEF RemovedEvent, server
    <3> QED BY <1>s, <3>1, <3>2
  <2>14. CASE UploadRole(f)
    <3>1. PICK g : g = [f EXCEPT !.pc = "current"]
      OBVIOUS
    <3>2. UNCHANGED <<holds, wraps>> /\ (Step(f, g, {}) \/ \E h : Answered(h, f) /\ Step(f, h, {}))
      BY <2>14, <3>1, Zenon DEF UploadRole, client, keyMap, server, Answered
    <3>3. Honest(g)
      BY <1>k, <2>0, <3>1 DEF Flow
    <3> QED BY <2>m, <2>a, <3>2, <3>3
  <2>15. CASE UploadCurrent(f)
    <3>1. PICK g : g = [f EXCEPT !.pc = "write", !.rotating = (f.epoch = current + 1)]
      OBVIOUS
    <3>2. UNCHANGED <<holds, wraps>> /\ (Step(f, g, {}) \/ \E h : Answered(h, f) /\ Step(f, h, {}))
      BY <2>15, <3>1, Zenon DEF UploadCurrent, client, keyMap, server, Answered
    <3>3. g.key = f.key /\ g.epoch = f.epoch /\ g.got = f.got
      BY <2>0, <3>1 DEF Flow
    <3> QED BY <1>k, <2>m, <2>a, <3>2, <3>3
  <2>16. CASE UploadWrite(f)
    <3>1. PICK g : g = Answer(f, TRUE)
      OBVIOUS
    <3>2. \A u \in Users : holds'[u] \in Plain /\ wraps'[u] \in Plain
      BY <1>a, <1>i, <2>16 DEF UploadWrite, client, keyMap
    <3>3. Answered(g, f) /\ Step(f, g, {EventLoad(u) : u \in f.targets \intersect online})
      BY <2>16, <3>1 DEF UploadWrite, Answered
    <3> QED BY <1>p, <2>h, <2>a, <3>2, <3>3
  <2>17. CASE UploadPartial(f)
    <3>1. \A u \in Users : holds'[u] \in Plain /\ wraps'[u] \in Plain
      BY <1>a, <1>i, <2>17 DEF UploadPartial, client, keyMap
    <3>2. \E h : Answered(h, f) /\ Step(f, h, {})
      BY <2>17, Zenon DEF UploadPartial, Answered
    <3> QED BY <2>h, <2>a, <3>1, <3>2
  <2>18. CASE CreateReply(f)
    <3>1. \A u \in Users : holds'[u] \in Plain /\ wraps'[u] \in Plain
      BY <1>0, <1>a, <2>18, PlainKeys DEF CreateReply, server, keyMap
    <3> QED BY <1>p, <2>18, <2>e, <3>1 DEF CreateReply
  <2>19. CASE LoseAnswer(f)
    <3>1. PICK g : g = [f EXCEPT !.alive = FALSE]
      OBVIOUS
    <3>2. End(f, Failed({f}) \union (IF f.op \in {"load", "refresh"} THEN {} ELSE {g}))
      BY <2>19, <3>1 DEF LoseAnswer
    <3>3. g.key = f.key /\ g.epoch = f.epoch /\ g.got = f.got
      BY <2>0, <3>1 DEF Flow
    <3>4. \A h \in Failed({f}) : Honest(h)
      BY <1>f
    <3>5. Honest(g)
      BY <1>k, <3>3
    <3>6. UNCHANGED <<holds, wraps>>
      BY <2>19 DEF LoseAnswer, server, client, keyMap
    <3> QED BY <2>d, <3>2, <3>4, <3>5, <3>6
  <2> QED
    BY <1>8, <2>1, <2>2, <2>3, <2>4, <2>5, <2>6, <2>7, <2>8, <2>9, <2>10, <2>11, <2>12, <2>13,
       <2>14, <2>15, <2>16, <2>17, <2>18, <2>19 DEF FlowStep
<1> QED
  BY <1>1, <1>2, <1>3, <1>4, <1>5, <1>6, <1>7, <1>8 DEF Next, UserStep

(* The members share key 1, or the space is being created with it.           *)
LEMMA EpochInit == Init => FlowsInv /\ EpochInv
<1> SUFFICES ASSUME Init PROVE FlowsInv /\ EpochInv
  OBVIOUS
<1>1. \A f \in flows : f = Create
  BY DEF Init, StartWith
<1>2. Create.op = "create" /\ Create.who = Owner /\ Create.epoch = 1 /\ Create.key = 1 /\ Create.got = NoKeys
  BY DEF Create, NewFlow
<1>3. \A f \in flows : Shaped(f) /\ Led(f) /\ Honest(f)
  BY <1>1, <1>2, PlainKeys DEF Shaped, Led, Honest, At
<1>4. \A u \in Users : holds[u] \in Plain /\ wraps[u] \in Plain
  BY PlainKeys DEF Init, StartWith
<1> QED BY <1>3, <1>4 DEF FlowsInv, EpochInv

(* The four invariants together.                                             *)
LEMMA KeysInvariance == Spec => [](TypeInv /\ KeysInv /\ FlowsInv /\ EpochInv)
<1>1. TypeInv /\ KeysInv /\ FlowsInv /\ EpochInv /\ [Next]_vars => KeysInv' /\ FlowsInv' /\ EpochInv'
  BY KeysStep, FlowsStep, EpochStep
<1> QED BY <1>1, KeysInit, EpochInit, TypeInvariance, PTL DEF Spec

(* No two clients hold different keys for an epoch, up to the first rotation. *)
THEOREM OneKeyHolds == Spec => []OneKeyPerEpochOnce
<1>1. TypeInv /\ EpochInv => OneKeyPerEpochOnce
  BY DEF TypeInv, TypeOK, EpochInv, Plain, OneKeyPerEpochOnce
<1> QED BY <1>1, KeysInvariance, PTL

-----------------------------------------------------------------------------
(***************************************************************************)
(* What the keys of SpaceKeys come to while nothing goes wrong and one       *)
(* removal at most has rotated them: once everything in flight has landed,   *)
(* every member holds every epoch, writes with the current one, and the key  *)
(* in use is none that a removed member had.  None of this is inductive: who *)
(* does not hold a key yet has it on its way, in a flow at some await.       *)
(***************************************************************************)

Deciding == {"delete", "list", "compute"}
Kicking == \E f \in flows : f.op = "kick" /\ f.pc \in Deciding

(* A flow of a client that never failed or restarted, by its kind: a create  *)
(* is answered with success, the owner wraps with the map it has, and a      *)
(* rotation has a key.                                                       *)
Sound(f) ==
  /\ f.alive
  /\ f.pc \in UploadPCs => f.op \in {"create", "wrap", "kick"}
  /\ f.op = "accept" => f.who # Owner
  /\ f.op = "create" => /\ f.epoch = 1 /\ f.key = 1 /\ f.ok /\ f.pc \in UploadPCs \union {"reply"}
                        /\ f.pc # "reply" => f.targets = {Owner}
  /\ f.op = "wrap" /\ f.who = Owner => /\ f.got = NoKeys
                                       /\ f.pc = "event" => f.epoch = 0
                                       /\ f.pc \in UploadPCs => f.targets = {f.about} /\ f.key # NoKey
  /\ f.op = "kick" => /\ f.pc # "reply" => f.ok
                      /\ f.pc \notin Deciding => f.key # NoKey

(* How a flow fits the rest of the state.                                    *)
Fits(f) ==
  /\ At(f, "kick", "delete") => f.about \in members
  /\ f.op = "kick" /\ f.pc \notin Deciding => made > 1
  /\ f.op \in {"accept", "wrap"} => invited
  /\ f.op = "refresh" /\ f.who = Owner => holds[Owner][1] # NoKey

Peace ==
  /\ online = Users
  /\ \A f \in flows : Sound(f) /\ Fits(f)
  /\ \A f, g \in flows : f.op = "kick" /\ g.op = "kick" => f = g
  /\ invited => cur[Owner] # 0
  /\ cur[Owner] # 0 => holds[Owner][1] # NoKey

PeaceInv == ~spent.faulty => Peace

(* The steps of a behaviour without faults.                                  *)
CalmFlow(f) ==
  \/ KeyRequest(f) \/ AcceptReply(f)
  \/ RefreshRead(f) \/ RefreshApply(f)
  \/ LoadMember(f) \/ LoadRead(f) \/ LoadApply(f)
  \/ WrapNext(f)
  \/ KickDelete(f) \/ KickList(f) \/ KickCompute(f) \/ KickReply(f) \/ RemovedEvent(f)
  \/ UploadRole(f) \/ UploadCurrent(f) \/ UploadWrite(f) \/ UploadPartial(f)
  \/ CreateReply(f)

LEMMA CalmSteps ==
  ASSUME TypeInv, PeaceInv, [Next]_vars, ~spent'.faulty
  PROVE  /\ ~spent.faulty /\ Peace
         /\ \/ UNCHANGED vars
            \/ CreateInvite
            \/ \E u \in Users : AcceptInvite(u) \/ StartKick(u)
            \/ \E f \in flows : CalmFlow(f)
<1>0. spent \in Spent
  BY DEF TypeInv, TypeOK
<1>1. ~ Crash /\ (\A u \in Users : ~Drop(u) /\ ~Restart(u)) /\ \A f \in flows : ~LoseAnswer(f)
  BY <1>0 DEF Spent, Crash, Drop, Restart, LoseAnswer
<1>2. spent.faulty => spent'.faulty
  <2>1. CASE UNCHANGED spent
    BY <2>1
  <2>2. ASSUME NEW u \in Users, AcceptInvite(u) \/ StartKick(u) PROVE spent.faulty => spent'.faulty
    BY <1>0, <2>2 DEF AcceptInvite, StartKick, Spent
  <2>3. ASSUME NEW f \in flows, CalmFlow(f) PROVE UNCHANGED spent
    BY <2>3 DEF CalmFlow, KeyRequest, AcceptReply, RefreshRead, RefreshApply, LoadMember, LoadRead, LoadApply,
                WrapNext, KickDelete, KickList, KickCompute, KickReply, RemovedEvent, UploadRole, UploadCurrent,
                UploadWrite, UploadPartial, CreateReply
  <2>4. ASSUME NEW u \in Users, Reopen(u) PROVE UNCHANGED spent
    BY <2>4 DEF Reopen
  <2>5. CreateInvite \/ UNCHANGED vars => UNCHANGED spent
    BY DEF CreateInvite, vars
  <2> QED BY <1>1, <2>1, <2>2, <2>3, <2>4, <2>5 DEF Next, UserStep, FlowStep, CalmFlow
<1>3. ~spent.faulty /\ Peace
  BY <1>2 DEF PeaceInv
<1>4. \A u \in Users : ~Reopen(u)
  BY <1>3 DEF Reopen, Peace
<1> QED BY <1>1, <1>3, <1>4 DEF Next, UserStep, FlowStep, CalmFlow

(* What the step of one flow leaves of the others.                           *)
LEMMA OthersGoOn ==
  ASSUME NEW f \in flows, CalmFlow(f)
  PROVE  /\ \A h \in flows : h # f /\ h.op # "wrap" => h \in flows'
         /\ ~RemovedEvent(f) => \A h \in flows : h # f => h \in flows'
<1>1. CASE RemovedEvent(f)
  <2>1. \A h \in flows : h # f /\ h.op # "wrap" => h \in flows'
    BY <1>1 DEF RemovedEvent
  <2> QED BY <1>1, <2>1
<1>2. CASE ~RemovedEvent(f)
  <2>1. \E g, new : Step(f, g, new) \/ End(f, new)
    BY <1>2, Zenon DEF CalmFlow, KeyRequest, AcceptReply, RefreshRead, RefreshApply, LoadMember, LoadRead, LoadApply,
                WrapNext, NextWrap, KickDelete, KickList, KickCompute, KickReply, UploadRole, UploadCurrent,
                UploadWrite, UploadPartial, CreateReply
  <2> QED BY <2>1 DEF Step, End
<1> QED BY <1>1, <1>2

(* A step without faults keeps the flows sound and where they fit.           *)
LEMMA PeaceStep ==
  ASSUME TypeInv, KeysInv, FlowsInv, PeaceInv, [Next]_vars
  PROVE  PeaceInv'
<1> USE ConstantsAssumption
<1> SUFFICES ASSUME ~spent'.faulty PROVE Peace'
  BY DEF PeaceInv
<1>0. /\ flows \subseteq Flow /\ flows \subseteq Upto(made) /\ made \in Nat \ {0} /\ Keys = Epochs
      /\ 0 \notin Epochs /\ 1 \in Epochs /\ Epochs \subseteq Nat
      /\ cur \in [Users -> Epochs \union {0}] /\ current \in Epochs
      /\ holds \in [Users -> KeyMap] /\ wraps \in [Users -> KeyMap] /\ members \subseteq Users /\ Owner \in members
  BY FirstKeyType DEF TypeInv, TypeOK, Bounded, Keys, KeysInv
<1>1. /\ ~spent.faulty /\ Peace
      /\ \/ UNCHANGED vars
         \/ CreateInvite
         \/ \E u \in Users : AcceptInvite(u) \/ StartKick(u)
         \/ \E f \in flows : CalmFlow(f)
  BY CalmSteps
<1>n. ASSUME NEW op, NEW u, NEW v, NEW pc, op \in {"accept", "load", "refresh"} \/ (op = "wrap" /\ pc = "event"),
             pc \notin UploadPCs, op = "accept" => u # Owner
      PROVE  Sound(NewFlow(op, u, v, pc))
  BY <1>n, NewFlows DEF Sound
<1>2. CASE UNCHANGED vars
  BY <1>1, <1>2 DEF vars, server, client, keyMap, history, Peace, Fits
<1>3. CASE CreateInvite
  <2>1. invited' = TRUE /\ UNCHANGED <<members, made, holds, cur, online, flows>> /\ cur[Owner] # 0
    BY <1>3 DEF CreateInvite, client, keyMap, history
  <2> QED BY <1>1, <2>1 DEF Peace, Fits
<1>4. ASSUME NEW u \in Users, AcceptInvite(u) PROVE Peace'
  <2>1. PICK g : g = NewFlow("accept", u, u, IF u \in members THEN "reply" ELSE "request")
    OBVIOUS
  <2>2. /\ flows' = flows \union {g} /\ members' = members \union {u} /\ invited /\ cur[u] = 0
        /\ UNCHANGED <<invited, made, holds, cur, online>>
    BY <1>4, <2>1 DEF AcceptInvite, client, keyMap
  <2>3. u # Owner
    BY <1>1, <2>2 DEF Peace
  <2>4. Sound(g) /\ g.op = "accept"
    BY <1>n, <2>1, <2>3, NewFlows DEF UploadPCs
  <2>5. \A f \in flows : Fits(f) => Fits(f)'
    BY <2>2 DEF Fits
  <2> QED BY <1>1, <2>2, <2>4, <2>5 DEF Peace, Fits, At
<1>5. ASSUME NEW t \in Users, StartKick(t) PROVE Peace'
  <2>1. PICK g, h : g = NewFlow("kick", Owner, t, "delete") /\ h = NewFlow("removed", t, t, "event")
    OBVIOUS
  <2>2. /\ flows' \subseteq flows \union {g, h} /\ t \in members /\ \A f \in flows : ~(f.op = "kick" /\ f.alive)
        /\ UNCHANGED <<members, invited, made, holds, cur, online>>
    BY <1>5, <2>1 DEF StartKick, server, client, keyMap, history
  <2>3. /\ g.op = "kick" /\ g.pc = "delete" /\ g.about = t /\ g.alive /\ g.ok
        /\ h.op = "removed" /\ h.pc = "event" /\ h.alive
    BY <2>1, NewFlows
  <2>4. Sound(g) /\ Sound(h)
    BY <2>3 DEF Sound, UploadPCs, Deciding
  <2>5. Fits(g)' /\ Fits(h)'
    BY <2>2, <2>3 DEF Fits, At, Deciding
  <2>6. \A f \in flows : f.op # "kick"
    BY <1>1, <2>2 DEF Peace, Sound
  <2>7. \A f \in flows : Fits(f) => Fits(f)'
    BY <2>2 DEF Fits
  <2> QED BY <1>1, <2>2, <2>3, <2>4, <2>5, <2>6, <2>7 DEF Peace
<1>6. ASSUME NEW f \in flows, CalmFlow(f) PROVE Peace'
  <2>0. /\ f \in Flow /\ Sound(f) /\ Fits(f) /\ Shaped(f) /\ Led(f) /\ f.who \in Users
        /\ f.seen \in Epochs \union {0} /\ f.epoch \in Epochs \union {0} /\ f.key \in Keys \union {NoKey}
        /\ (f.pc \in UploadPCs => f.epoch \in Epochs)
    BY <1>0, <1>1, FlowFields DEF Peace, FlowsInv
  \* The step of a flow that goes on as g, or ends, and starts no removal.
  <2>s. ASSUME \A h \in flows' : \/ h \in flows /\ h # f
                                 \/ h.op = f.op /\ Sound(h) /\ Fits(h)' /\ \A k \in flows' : k.op = f.op => k = h \/ k \in flows \ {f}
                                 \/ h.op # "kick" /\ Sound(h) /\ Fits(h)',
               \A h \in flows : h # f /\ Fits(h) => Fits(h)',
               UNCHANGED <<invited, online>>,
               cur[Owner] # 0 => cur'[Owner] # 0 /\ holds'[Owner][1] # NoKey,
               cur'[Owner] # 0 => holds'[Owner][1] # NoKey
        PROVE  Peace'
    <3>1. \A h \in flows' : Sound(h) /\ Fits(h)'
      BY <1>1, <2>s DEF Peace
    <3>2. ASSUME NEW h \in flows', NEW k \in flows', h.op = "kick", k.op = "kick" PROVE h = k
      BY <1>1, <2>s, <3>2 DEF Peace
    <3> QED BY <1>1, <2>s, <3>1, <3>2 DEF Peace
  \* The same when the members, the keys held and the lists of spaces stay.
  <2>m. ASSUME NEW g, NEW new, Step(f, g, new), g.op = f.op, Sound(g), Fits(g)',
               \A h \in new : h.op # "kick" /\ Sound(h) /\ Fits(h)',
               UNCHANGED <<members, invited, online, made, holds, cur>>
        PROVE  Peace'
    <3>1. \A h \in flows : Fits(h) => Fits(h)'
      BY <2>m DEF Fits
    <3>2. \A h \in flows' : (h \in flows /\ h # f) \/ h = g \/ h \in new
      BY <2>m DEF Step
    <3>3. cur[Owner] # 0 => holds'[Owner][1] # NoKey
      BY <1>1, <2>m DEF Peace
    <3> QED BY <2>m, <2>s, <3>1, <3>2, <3>3
  <2>d. ASSUME NEW new, End(f, new), \A h \in new : h.op # "kick" /\ Sound(h) /\ Fits(h)',
               UNCHANGED <<members, invited, online, made, holds, cur>>
        PROVE  Peace'
    <3>1. \A h \in flows : Fits(h) => Fits(h)'
      BY <2>d DEF Fits
    <3>2. \A h \in flows' : (h \in flows /\ h # f) \/ h \in new
      BY <2>d DEF End
    <3>3. cur[Owner] # 0 => holds'[Owner][1] # NoKey
      BY <1>1, <2>d DEF Peace
    <3> QED BY <2>d, <2>s, <3>1, <3>2, <3>3
  \* An upload that is refused, which happens to no create.
  <2>w. ASSUME NEW g, Answered(g, f), Step(f, g, {}), f.pc \in UploadPCs, f.op # "create",
               UNCHANGED <<members, invited, online, made, holds, cur>>
        PROVE  Peace'
    <3>1. /\ g.op = f.op /\ g.who = f.who /\ g.about = f.about /\ (g.alive <=> f.alive)
          /\ g.pc = "reply" /\ g.key = f.key /\ g.got = f.got
      BY <2>0, <2>w, Answers DEF Kin
    <3>2. Sound(g)
      BY <2>0, <2>w, <3>1 DEF Sound, UploadPCs, Deciding
    <3>3. Fits(g)'
      BY <2>0, <2>w, <3>1 DEF Fits, At, UploadPCs, Deciding
    <3> QED BY <2>m, <2>w, <3>1, <3>2, <3>3
  <2>1. CASE KeyRequest(f)
    <3>1. PICK g : g = [f EXCEPT !.pc = "reply"]
      OBVIOUS
    <3>2. /\ f.op = "accept" /\ Step(f, g, {NewFlow("wrap", u, f.who, "event") : u \in (members \intersect online) \ {f.who}})
          /\ UNCHANGED <<members, invited, online, made, holds, cur>>
      BY <2>1, <3>1 DEF KeyRequest, At, server, client, keyMap, history
    <3>3. g.op = f.op /\ g.who = f.who /\ (g.alive <=> f.alive) /\ g.pc = "reply"
      BY <2>0, <3>1 DEF Flow
    <3>4. Sound(g) /\ Fits(g)'
      BY <2>0, <3>2, <3>3 DEF Sound, Fits, UploadPCs, At
    <3>5. \A h \in {NewFlow("wrap", u, f.who, "event") : u \in (members \intersect online) \ {f.who}} :
             h.op = "wrap" /\ Sound(h)
      BY <1>n, NewFlows DEF UploadPCs
    <3>6. invited'
      BY <2>0, <3>2 DEF Fits
    <3> QED BY <2>m, <3>2, <3>3, <3>4, <3>5, <3>6 DEF Fits, At
  <2>2. CASE AcceptReply(f)
    <3>1. PICK new : new = (IF f.alive THEN {Refresh(f.who)} ELSE {})
      OBVIOUS
    <3>2. /\ f.op = "accept" /\ End(f, new)
          /\ UNCHANGED <<members, invited, online, made, holds, cur>>
      BY <2>2, <3>1 DEF AcceptReply, At, server, client, keyMap, history
    <3>3. \A h \in new : h.op = "refresh" /\ h.who = f.who /\ Sound(h)
      BY <1>n, <3>1, NewFlows DEF Refresh, UploadPCs
    <3>4. f.who # Owner
      BY <2>0, <3>2 DEF Sound
    <3> QED BY <2>d, <3>2, <3>3, <3>4 DEF Fits, At
  <2>3. CASE RefreshRead(f)
    <3>1. PICK g : g = [f EXCEPT !.pc = "apply", !.seen = IF f.who \in members THEN current ELSE 0]
      OBVIOUS
    <3>2. f.op = "refresh" /\ Step(f, g, {}) /\ UNCHANGED <<members, invited, online, made, holds, cur>>
      BY <2>3, <3>1 DEF RefreshRead, At, server, client, keyMap, history
    <3>3. g.op = f.op /\ g.who = f.who /\ (g.alive <=> f.alive) /\ g.pc = "apply"
      BY <2>0, <3>1 DEF Flow
    <3>4. Sound(g) /\ Fits(g)'
      BY <2>0, <3>2, <3>3 DEF Sound, Fits, UploadPCs, At
    <3> QED BY <2>m, <3>2, <3>3, <3>4
  <2>4. CASE RefreshApply(f)
    <3>1. PICK new : new = (IF f.seen = 0 THEN {} ELSE {NewFlow("load", f.who, f.who, "member")})
      OBVIOUS
    <3>2. /\ f.op = "refresh" /\ f.pc = "apply" /\ End(f, new) /\ cur' = [cur EXCEPT ![f.who] = f.seen]
          /\ UNCHANGED <<members, invited, online, made, holds>>
      BY <2>4, <3>1 DEF RefreshApply, At, server, keyMap, history
    <3>3. \A h \in new : h.op = "load" /\ Sound(h)
      BY <1>n, <3>1, NewFlows DEF UploadPCs
    <3>4. \A h \in flows' : (h \in flows /\ h # f) \/ h \in new
      BY <3>2 DEF End
    <3>5. \A h \in flows : Fits(h) => Fits(h)'
      BY <3>2 DEF Fits
    <3>6. /\ cur[Owner] # 0 => cur'[Owner] # 0 /\ holds'[Owner][1] # NoKey
          /\ cur'[Owner] # 0 => holds'[Owner][1] # NoKey
      BY <1>0, <1>1, <2>0, <3>2 DEF Peace, Fits, Shaped, At
    <3>7. \A h \in new : Fits(h)'
      BY <3>3 DEF Fits, At
    <3> QED BY <2>s, <3>2, <3>3, <3>4, <3>5, <3>6, <3>7
  <2>5. CASE LoadMember(f)
    <3>1. PICK g : g = [f EXCEPT !.pc = "read"]
      OBVIOUS
    <3>2. f.op = "load" /\ (Step(f, g, {}) \/ End(f, {})) /\ UNCHANGED <<members, invited, online, made, holds, cur>>
      BY <2>5, <3>1 DEF LoadMember, At, server, client, keyMap, history
    <3>3. g.op = f.op /\ g.who = f.who /\ (g.alive <=> f.alive) /\ g.pc = "read"
      BY <2>0, <3>1 DEF Flow
    <3>4. Sound(g) /\ Fits(g)'
      BY <2>0, <3>2, <3>3 DEF Sound, Fits, UploadPCs, At
    <3> QED BY <2>m, <2>d, <3>2, <3>3, <3>4
  <2>6. CASE LoadRead(f)
    <3>1. PICK g : g = [f EXCEPT !.pc = "apply", !.seen = current, !.got = wraps[f.who]]
      OBVIOUS
    <3>2. f.op = "load" /\ Step(f, g, {}) /\ UNCHANGED <<members, invited, online, made, holds, cur>>
      BY <2>6, <3>1 DEF LoadRead, At, server, client, keyMap, history
    <3>3. g.op = f.op /\ g.who = f.who /\ (g.alive <=> f.alive) /\ g.pc = "apply"
      BY <2>0, <3>1 DEF Flow
    <3>4. Sound(g) /\ Fits(g)'
      BY <2>0, <3>2, <3>3 DEF Sound, Fits, UploadPCs, At
    <3> QED BY <2>m, <3>2, <3>3, <3>4
  <2>7. CASE LoadApply(f)
    <3>1. /\ f.op = "load" /\ f.pc = "apply" /\ End(f, {}) /\ UNCHANGED <<members, invited, online, made>>
          /\ cur' = [cur EXCEPT ![f.who] = IF cur[f.who] = 0 THEN 0 ELSE f.seen]
          /\ holds' = [holds EXCEPT ![f.who] =
                         [e \in Epochs |-> IF holds[f.who][e] # NoKey THEN holds[f.who][e] ELSE f.got[e]]]
      BY <2>7 DEF LoadApply, At, server, history
    <3>2. holds[Owner][1] # NoKey => holds'[Owner][1] # NoKey
      BY <1>0, <3>1
    <3>3. cur'[Owner] # 0 <=> cur[Owner] # 0
      BY <1>0, <2>0, <3>1 DEF Shaped, At
    <3>4. \A h \in flows : Fits(h) => Fits(h)'
      BY <3>1, <3>2 DEF Fits
    <3>5. \A h \in flows' : h \in flows /\ h # f
      BY <3>1 DEF End
    <3>6. /\ cur[Owner] # 0 => cur'[Owner] # 0 /\ holds'[Owner][1] # NoKey
          /\ cur'[Owner] # 0 => holds'[Owner][1] # NoKey
      BY <1>1, <3>2, <3>3 DEF Peace
    <3> QED BY <2>s, <3>1, <3>4, <3>5, <3>6
  <2>8. CASE WrapNext(f)
    <3>1. f.op = "wrap" /\ UNCHANGED <<members, invited, online, made, holds, cur>>
      BY <2>8 DEF WrapNext, server, client, keyMap, history
    <3>2. PICK map : map = (IF f.got = NoKeys THEN holds[f.who] ELSE f.got)
      OBVIOUS
    <3>3. \/ End(f, {})
          \/ \E e \in Epochs : \E g :
                                  /\ map[e] # NoKey
                                  /\ g = [f EXCEPT !.pc = "role", !.epoch = e, !.key = map[e],
                                                   !.targets = {f.about}, !.ok = TRUE]
                                  /\ Step(f, g, {})
      BY <2>8, <3>2, Zenon DEF WrapNext, NextWrap
    <3>4. ASSUME NEW e \in Epochs, NEW g, map[e] # NoKey,
                 g = [f EXCEPT !.pc = "role", !.epoch = e, !.key = map[e], !.targets = {f.about}, !.ok = TRUE]
          PROVE  g.op = f.op /\ Sound(g) /\ Fits(g)'
      <4>1. /\ g.op = "wrap" /\ g.who = f.who /\ (g.alive <=> f.alive) /\ g.pc = "role" /\ g.key # NoKey
            /\ g.targets = {f.about} /\ g.about = f.about /\ g.got = f.got
        BY <2>0, <3>1, <3>4 DEF Flow
      <4>2. Sound(g)
        BY <2>0, <3>1, <4>1 DEF Sound, UploadPCs
      <4>3. Fits(g)'
        BY <2>0, <3>1, <4>1 DEF Fits, At
      <4> QED BY <3>1, <4>1, <4>2, <4>3
    <3>5. ASSUME NEW g, Step(f, g, {}), g.op = f.op /\ Sound(g) /\ Fits(g)' PROVE Peace'
      BY <2>m, <3>1, <3>5
    <3>6. CASE End(f, {})
      BY <2>d, <3>1, <3>6
    <3> QED BY <3>3, <3>4, <3>5, <3>6
  <2>9. CASE KickDelete(f)
    <3>1. PICK g : g = [f EXCEPT !.pc = "list"]
      OBVIOUS
    <3>2. /\ f.op = "kick" /\ f.pc = "delete" /\ (Step(f, g, {}) \/ End(f, {}))
          /\ UNCHANGED <<invited, online, made, holds, cur>>
      BY <2>9, <3>1 DEF KickDelete, At, client, keyMap, history
    <3>3. g.op = f.op /\ g.who = f.who /\ (g.alive <=> f.alive) /\ (g.ok <=> f.ok) /\ g.pc = "list"
      BY <2>0, <3>1 DEF Flow
    <3>4. Sound(g) /\ Fits(g)'
      BY <2>0, <3>2, <3>3 DEF Sound, Fits, UploadPCs, At, Deciding
    <3>5. \A h \in flows : h # f /\ Fits(h) => Fits(h)'
      BY <1>1, <3>2 DEF Fits, At, Peace
    <3>6. \A h \in flows' : (h \in flows /\ h # f) \/ h = g
      BY <3>2 DEF Step, End
    <3>7. cur[Owner] # 0 => holds'[Owner][1] # NoKey
      BY <1>1, <3>2 DEF Peace
    <3> QED BY <2>s, <3>2, <3>3, <3>4, <3>5, <3>6, <3>7
  <2>10. CASE KickList(f)
    <3>1. PICK g : g = [f EXCEPT !.pc = "compute", !.targets = members]
      OBVIOUS
    <3>2. f.op = "kick" /\ f.pc = "list" /\ (Step(f, g, {}) \/ End(f, {}))
          /\ UNCHANGED <<members, invited, online, made, holds, cur>>
      BY <2>10, <3>1 DEF KickList, At, server, client, keyMap, history
    <3>3. g.op = f.op /\ g.who = f.who /\ (g.alive <=> f.alive) /\ (g.ok <=> f.ok) /\ g.pc = "compute"
      BY <2>0, <3>1 DEF Flow
    <3>4. Sound(g) /\ Fits(g)'
      BY <2>0, <3>2, <3>3 DEF Sound, Fits, UploadPCs, At, Deciding
    <3> QED BY <2>m, <2>d, <3>2, <3>3, <3>4
  <2>11. CASE KickCompute(f)
    <3>1. PICK g : g = [f EXCEPT !.pc = "role", !.epoch = cur[Owner] + 1, !.key = made + 1]
      OBVIOUS
    <3>2. f.op = "kick" /\ f.pc = "compute" /\ Step(f, g, {}) /\ made' = made + 1
          /\ UNCHANGED <<members, invited, online, holds, cur>>
      BY <2>11, <3>1 DEF KickCompute, At, server, client, keyMap
    <3>3. /\ g.op = f.op /\ g.who = f.who /\ (g.alive <=> f.alive) /\ (g.ok <=> f.ok) /\ g.pc = "role"
          /\ g.key = made + 1
      BY <2>0, <3>1 DEF Flow
    <3>4. Sound(g) /\ Fits(g)'
      <4>1. made + 1 # NoKey /\ made' > 1
        BY <1>0, <3>2 DEF NoKey
      <4>2. Sound(g)
        BY <2>0, <3>2, <3>3, <4>1 DEF Sound, UploadPCs
      <4>3. Fits(g)'
        BY <3>2, <3>3, <4>1 DEF Fits, At
      <4> QED BY <4>2, <4>3
    <3>5. \A h \in flows : h # f /\ Fits(h) => Fits(h)'
      BY <1>1, <3>2 DEF Fits, At, Peace
    <3>6. \A h \in flows' : (h \in flows /\ h # f) \/ h = g
      BY <3>2 DEF Step
    <3>7. cur[Owner] # 0 => holds'[Owner][1] # NoKey
      BY <1>1, <3>2 DEF Peace
    <3> QED BY <2>s, <3>2, <3>3, <3>4, <3>5, <3>6, <3>7
  <2>12. CASE KickReply(f)
    <3>1. /\ f.op = "kick" /\ f.pc = "reply" /\ End(f, {}) /\ UNCHANGED <<members, invited, online, made>>
          /\ \/ UNCHANGED <<holds, cur>>
             \/ /\ cur' = [cur EXCEPT ![Owner] = f.epoch]
                /\ holds' = holds \/ holds' = [holds EXCEPT ![Owner] = [holds[Owner] EXCEPT ![f.epoch] = f.key]]
      BY <2>12 DEF KickReply, At, server, history
    <3>2. f.epoch \in Epochs /\ f.key # NoKey
      BY <2>0, <3>1 DEF Shaped, Sound, At, Deciding
    <3>3. holds[Owner][1] # NoKey => holds'[Owner][1] # NoKey
      BY <1>0, <3>1, <3>2 DEF KeyMap
    <3>4. cur[Owner] # 0
      BY <2>0, <3>1 DEF Led, Sound
    <3>5. cur'[Owner] # 0 /\ holds'[Owner][1] # NoKey
      BY <1>0, <1>1, <3>1, <3>2, <3>3, <3>4 DEF Peace
    <3>6. \A h \in flows : Fits(h) => Fits(h)'
      BY <3>1, <3>3 DEF Fits
    <3>7. \A h \in flows' : h \in flows /\ h # f
      BY <3>1 DEF End
    <3> QED BY <2>s, <3>1, <3>5, <3>6, <3>7
  <2>13. CASE RemovedEvent(f)
    <3>1. /\ f.op = "removed" /\ UNCHANGED <<members, invited, online, made>>
          /\ cur' = [cur EXCEPT ![f.who] = 0] /\ holds' = [holds EXCEPT ![f.who] = NoKeys]
      BY <2>13 DEF RemovedEvent, At, server, history
    <3>2. f.who # Owner /\ cur'[Owner] = cur[Owner] /\ holds'[Owner] = holds[Owner]
      BY <1>0, <2>0, <3>1 DEF Shaped
    <3>3. \A h \in flows : Fits(h) => Fits(h)'
      BY <3>1, <3>2 DEF Fits
    <3>4. ASSUME NEW g \in flows' PROVE (g \in flows /\ g # f) \/ (g.op # "kick" /\ Sound(g) /\ Fits(g)')
      <4>1. \/ g \in flows /\ g # f
            \/ \E h \in flows : h.op = "wrap" /\ h.who = f.who /\ g = [h EXCEPT !.got = holds[f.who]]
        BY <2>13, Zenon DEF RemovedEvent
      <4>2. ASSUME NEW h \in flows, h.op = "wrap", h.who = f.who, g = [h EXCEPT !.got = holds[f.who]]
            PROVE  g.op # "kick" /\ Sound(g) /\ Fits(g)'
        <5>1. /\ h \in Flow /\ Sound(h) /\ Fits(h)
          BY <1>0, <1>1 DEF Peace
        <5>2. g.op = "wrap" /\ g.who = h.who /\ (g.alive <=> h.alive) /\ g.pc = h.pc
          BY <4>2, <5>1 DEF Flow
        <5> QED BY <3>1, <3>2, <4>2, <5>1, <5>2 DEF Sound, Fits, At
      <4> QED BY <4>1, <4>2
    <3>5. cur[Owner] # 0 => holds'[Owner][1] # NoKey
      BY <1>1, <3>2 DEF Peace
    <3> QED BY <2>s, <3>1, <3>2, <3>3, <3>4, <3>5
  <2>14. CASE UploadRole(f)
    <3>1. PICK g : g = [f EXCEPT !.pc = "current"]
      OBVIOUS
    <3>2. /\ f.pc = "role" /\ (Step(f, g, {}) \/ \E h : f.who \notin members /\ Answered(h, f) /\ Step(f, h, {}))
          /\ UNCHANGED <<members, invited, online, made, holds, cur>>
      BY <2>14, <3>1, Zenon DEF UploadRole, client, keyMap, server, history, Answered
    <3>3. /\ g.op = f.op /\ g.who = f.who /\ (g.alive <=> f.alive) /\ (g.ok <=> f.ok) /\ g.pc = "current"
          /\ g.about = f.about /\ g.epoch = f.epoch /\ g.key = f.key /\ g.targets = f.targets /\ g.got = f.got
      BY <2>0, <3>1 DEF Flow
    <3>4. Sound(g) /\ Fits(g)'
      BY <2>0, <3>2, <3>3 DEF Sound, Fits, UploadPCs, At, Deciding
    <3>5. ASSUME NEW h, f.who \notin members, Answered(h, f), Step(f, h, {}) PROVE Peace'
      <4>1. f.op # "create"
        BY <1>0, <2>0, <3>5 DEF Shaped
      <4> QED BY <2>w, <3>2, <3>5, <4>1 DEF UploadPCs
    <3>6. CASE Step(f, g, {})
      BY <2>m, <3>2, <3>3, <3>4, <3>6
    <3> QED BY <3>2, <3>5, <3>6
  <2>15. CASE UploadCurrent(f)
    <3>1. PICK g : g = [f EXCEPT !.pc = "write", !.rotating = (f.epoch = current + 1)]
      OBVIOUS
    <3>2. /\ f.pc = "current"
          /\ \/ Step(f, g, {})
             \/ \E h : /\ ~(IF f.epoch = current + 1 THEN f.who = Owner ELSE f.epoch \in 1..current)
                       /\ Answered(h, f) /\ Step(f, h, {})
          /\ UNCHANGED <<members, invited, online, made, holds, cur>>
      BY <2>15, <3>1, Zenon DEF UploadCurrent, client, keyMap, server, history, Answered
    <3>3. /\ g.op = f.op /\ g.who = f.who /\ (g.alive <=> f.alive) /\ (g.ok <=> f.ok) /\ g.pc = "write"
          /\ g.about = f.about /\ g.epoch = f.epoch /\ g.key = f.key /\ g.targets = f.targets /\ g.got = f.got
      BY <2>0, <3>1 DEF Flow
    <3>4. Sound(g) /\ Fits(g)'
      BY <2>0, <3>2, <3>3 DEF Sound, Fits, UploadPCs, At, Deciding
    <3>5. ASSUME NEW h, ~(IF f.epoch = current + 1 THEN f.who = Owner ELSE f.epoch \in 1..current),
                 Answered(h, f), Step(f, h, {})
          PROVE  Peace'
      <4>1. f.op # "create"
        <5>1. current \in Nat /\ current >= 1
          BY <1>0
        <5> QED BY <2>0, <3>5, <5>1 DEF Sound
      <4> QED BY <2>w, <3>2, <3>5, <4>1 DEF UploadPCs
    <3>6. CASE Step(f, g, {})
      BY <2>m, <3>2, <3>3, <3>4, <3>6
    <3> QED BY <3>2, <3>5, <3>6
  <2>16. CASE UploadWrite(f)
    <3>1. PICK g : g = Answer(f, TRUE)
      OBVIOUS
    <3>2. /\ f.pc = "write" /\ Step(f, g, {EventLoad(u) : u \in f.targets \intersect online})
          /\ UNCHANGED <<members, invited, online, made, holds, cur>>
      BY <2>16, <3>1 DEF UploadWrite, client, keyMap, history
    <3>3. /\ g.op = f.op /\ g.who = f.who /\ (g.alive <=> f.alive) /\ g.ok /\ g.pc = "reply"
          /\ g.about = f.about /\ g.epoch = f.epoch /\ g.key = f.key /\ g.got = f.got
      BY <2>0, <3>1 DEF Flow, Answer
    <3>4. Sound(g) /\ Fits(g)'
      BY <2>0, <3>2, <3>3 DEF Sound, Fits, UploadPCs, At, Deciding
    <3>5. \A h \in {EventLoad(u) : u \in f.targets \intersect online} : h.op = "load" /\ Sound(h)
      BY <1>n, NewFlows DEF EventLoad, UploadPCs
    <3> QED BY <2>m, <3>2, <3>3, <3>4, <3>5 DEF Fits, At
  <2>17. CASE UploadPartial(f)
    <3>1. /\ f.pc = "write" /\ ~ f.targets \subseteq members /\ \E h : Answered(h, f) /\ Step(f, h, {})
          /\ UNCHANGED <<members, invited, online, made, holds, cur>>
      BY <2>17, Zenon DEF UploadPartial, client, keyMap, history, Answered
    <3>2. f.op # "create"
      BY <1>0, <2>0, <3>1 DEF Sound, UploadPCs
    <3> QED BY <2>w, <3>1, <3>2 DEF UploadPCs
  <2>18. CASE CreateReply(f)
    <3>1. /\ f.op = "create" /\ f.pc = "reply" /\ End(f, {Refresh(Owner)}) /\ UNCHANGED <<members, invited, online, made, cur>>
          /\ holds' = [holds EXCEPT ![Owner] = FirstKey]
      BY <2>0, <2>18 DEF CreateReply, At, server, history, Sound
    <3>2. holds'[Owner][1] # NoKey
      BY <1>0, <3>1, FirstKeyType DEF FirstKey, NoKeys, NoKey
    <3>3. PICK h : h = Refresh(Owner)
      OBVIOUS
    <3>4. h.op = "refresh" /\ Sound(h)
      BY <1>n, <3>3, NewFlows DEF Refresh, UploadPCs
    <3>5. Fits(h)'
      BY <3>2, <3>4 DEF Fits, At
    <3>6. \A g \in flows : Fits(g) => Fits(g)'
      BY <3>1, <3>2 DEF Fits
    <3>7. \A g \in flows' : (g \in flows /\ g # f) \/ g = h
      BY <3>1, <3>3 DEF End
    <3> QED BY <2>s, <3>1, <3>2, <3>4, <3>5, <3>6, <3>7
  <2> QED
    BY <1>6, <2>1, <2>2, <2>3, <2>4, <2>5, <2>6, <2>7, <2>8, <2>9, <2>10, <2>11, <2>12, <2>13,
       <2>14, <2>15, <2>16, <2>17, <2>18 DEF CalmFlow
<1> QED BY <1>1, <1>2, <1>3, <1>4, <1>5, <1>6

(* At the start nothing has gone wrong, and at most a create is under way.   *)
LEMMA PeaceInit == Init => PeaceInv
<1> SUFFICES ASSUME Init PROVE Peace
  BY DEF PeaceInv
<1>1. /\ Create.op = "create" /\ Create.who = Owner /\ Create.epoch = 1 /\ Create.key = 1
      /\ Create.targets = {Owner} /\ Create.pc = "role" /\ Create.alive /\ Create.ok
  BY DEF Create, NewFlow
<1>2. \A f \in flows : f = Create
  BY DEF Init, StartWith
<1>3. Sound(Create) /\ Fits(Create)
  BY <1>1 DEF Sound, Fits, At, UploadPCs
<1>4. online = Users /\ ~invited
  BY DEF Init, StartWith
<1>5. cur[Owner] # 0 => holds[Owner][1] # NoKey
  BY ConstantsAssumption, FirstKeyType DEF Init, StartWith, FirstKey, NoKeys, NoKey
<1> QED BY <1>2, <1>3, <1>4, <1>5 DEF Peace

(* A removal that is being decided goes on until its key is made.            *)
LEMMA KickingStays ==
  ASSUME TypeInv, PeaceInv, [Next]_vars, ~spent'.faulty, Kicking
  PROVE  Kicking' \/ (made' = made + 1 /\ \E f \in flows : KickCompute(f))
<1>0. flows \subseteq Flow
  BY DEF TypeInv, TypeOK
<1>1. /\ Peace
      /\ \/ UNCHANGED vars
         \/ CreateInvite
         \/ \E u \in Users : AcceptInvite(u) \/ StartKick(u)
         \/ \E f \in flows : CalmFlow(f)
  BY CalmSteps
<1>2. PICK k \in flows : k.op = "kick" /\ k.pc \in Deciding
  BY DEF Kicking
<1>3. CASE UNCHANGED vars \/ CreateInvite \/ \E u \in Users : AcceptInvite(u) \/ StartKick(u)
  <2>1. k \in flows'
    BY <1>3 DEF vars, CreateInvite, AcceptInvite, StartKick
  <2> QED BY <1>2, <2>1 DEF Kicking
<1>4. ASSUME NEW f \in flows, CalmFlow(f), f # k PROVE Kicking'
  BY <1>2, <1>4, OthersGoOn DEF Kicking
<1>5. CASE CalmFlow(k)
  <2>1. KickDelete(k) \/ KickList(k) \/ KickCompute(k)
    BY <1>2, <1>5 DEF CalmFlow, Deciding, At, KeyRequest, AcceptReply, RefreshRead, RefreshApply, LoadMember,
                      LoadRead, LoadApply, WrapNext, KickReply, RemovedEvent, UploadRole, UploadCurrent, UploadWrite,
                      UploadPartial, CreateReply
  <2>2. k \in Flow /\ Sound(k) /\ Fits(k)
    BY <1>0, <1>1 DEF Peace
  <2>3. CASE KickDelete(k)
    <3>1. k.pc = "delete" /\ k.about \in members
      BY <1>2, <2>2, <2>3 DEF KickDelete, At, Fits
    <3>2. PICK g : g = [k EXCEPT !.pc = "list"]
      OBVIOUS
    <3>3. g \in flows'
      BY <2>3, <3>1, <3>2 DEF KickDelete, Step
    <3>4. g.op = "kick" /\ g.pc = "list"
      BY <1>2, <2>2, <3>2 DEF Flow
    <3> QED BY <3>3, <3>4 DEF Kicking, Deciding
  <2>4. CASE KickList(k)
    <3>1. PICK g : g = [k EXCEPT !.pc = "compute", !.targets = members]
      OBVIOUS
    <3>2. g \in flows'
      BY <2>2, <2>4, <3>1 DEF KickList, Step, Sound
    <3>3. g.op = "kick" /\ g.pc = "compute"
      BY <1>2, <2>2, <3>1 DEF Flow
    <3> QED BY <3>2, <3>3 DEF Kicking, Deciding
  <2>5. CASE KickCompute(k)
    BY <2>5 DEF KickCompute
  <2> QED BY <2>1, <2>3, <2>4, <2>5
<1> QED BY <1>1, <1>3, <1>4, <1>5

-----------------------------------------------------------------------------
(* With one key and no removal: who does not hold it has it on its way, from *)
(* the request for it to the answer that brings it.                          *)
Brings(f, u) ==
  \/ f.op = "create" /\ u = Owner
  \/ At(f, "accept", "request") /\ f.who = u
  \/ f.op = "wrap" /\ f.who = Owner /\ f.about = u /\ f.pc # "reply"
  \/ f.op = "load" /\ f.who = u /\ wraps[u][1] # NoKey /\ (f.pc = "apply" => f.got[1] # NoKey)

FirstKeyInv ==
  /\ since[1] \subseteq members
  /\ \A f \in flows : f.op # "removed"
  /\ \A u \in members : holds[u][1] # NoKey \/ \E f \in flows : Brings(f, u)

FirstInv == ~spent.faulty /\ made = 1 /\ ~Kicking => FirstKeyInv

LEMMA FirstInit == Init => FirstInv
<1> SUFFICES ASSUME Init PROVE FirstKeyInv
  BY DEF FirstInv
<1>1. Create.op = "create"
  BY DEF Create, NewFlow
<1>2. \A f \in flows : f = Create
  BY DEF Init, StartWith
<1>3. since[1] = members
  BY FirstKeyType DEF Init, StartWith
<1>4. ASSUME NEW u \in members PROVE holds[u][1] # NoKey \/ \E f \in flows : Brings(f, u)
  <2>1. CASE u \in FirstMembers
    BY <2>1, ConstantsAssumption, FirstKeyType DEF Init, StartWith, FirstKey, NoKeys, NoKey
  <2>2. CASE u \notin FirstMembers
    BY <1>1, <2>2, ConstantsAssumption DEF Init, StartWith, Brings
  <2> QED BY <2>1, <2>2
<1> QED BY <1>1, <1>2, <1>3, <1>4 DEF FirstKeyInv

LEMMA FirstStep ==
  ASSUME TypeInv, KeysInv, FlowsInv, PeaceInv, FirstInv, [Next]_vars
  PROVE  FirstInv'
<1> USE ConstantsAssumption
<1> SUFFICES ASSUME ~spent'.faulty, made' = 1, ~Kicking' PROVE FirstKeyInv'
  BY DEF FirstInv
<1>0. /\ flows \subseteq Flow /\ flows \subseteq Upto(made) /\ made \in Nat \ {0} /\ Keys = Epochs
      /\ 0 \notin Epochs /\ 1 \in Epochs /\ Epochs \subseteq Nat /\ current \in Epochs /\ current <= made
      /\ holds \in [Users -> KeyMap] /\ wraps \in [Users -> KeyMap] /\ members \subseteq Users /\ Owner \in members
      /\ holds \in [Users -> MapUpto(made)] /\ since \in [Keys -> SUBSET Users]
  BY FirstKeyType DEF TypeInv, TypeOK, Bounded, Keys, KeysInv
<1>1. /\ ~spent.faulty /\ Peace
      /\ \/ UNCHANGED vars
         \/ CreateInvite
         \/ \E u \in Users : AcceptInvite(u) \/ StartKick(u)
         \/ \E f \in flows : CalmFlow(f)
  BY CalmSteps
<1>2. made = 1 /\ ~Kicking /\ FirstKeyInv
  <2>1. made = 1
    BY <1>0, MadeSteps
  <2> QED BY <1>1, <2>1, KickingStays DEF FirstInv
<1>3. \A f \in flows : f.op # "kick"
  BY <1>1, <1>2 DEF Peace, Fits, Kicking
<1>4. CASE UNCHANGED vars \/ CreateInvite
  <2>1. UNCHANGED <<members, since, holds, wraps, flows>>
    BY <1>4 DEF vars, server, client, keyMap, history, CreateInvite
  <2> QED BY <1>2, <2>1 DEF FirstKeyInv, Brings
<1>5. ASSUME NEW u \in Users, AcceptInvite(u) PROVE FirstKeyInv'
  <2>1. PICK g : g = NewFlow("accept", u, u, IF u \in members THEN "reply" ELSE "request")
    OBVIOUS
  <2>2. /\ flows' = flows \union {g} /\ members' = members \union {u} /\ UNCHANGED <<holds, wraps>>
        /\ since' = [k \in Keys |-> IF k <= made THEN since[k] \union {u} ELSE since[k]]
    BY <1>5, <2>1 DEF AcceptInvite, client, keyMap
  <2>3. g.op = "accept" /\ g.who = u /\ (u \notin members => g.pc = "request")
    BY <2>1, NewFlows
  <2>4. since'[1] = since[1] \union {u}
    BY <1>0, <1>2, <2>2
  <2>5. \A f \in flows, v \in Users : Brings(f, v) => Brings(f, v)'
    BY <2>2 DEF Brings
  <2>6. u \notin members => Brings(g, u)'
    BY <2>3 DEF Brings, At
  <2>7. \A v \in members' : v \in members \/ v = u
    BY <2>2
  <2> QED BY <1>0, <1>2, <2>2, <2>3, <2>4, <2>5, <2>6, <2>7 DEF FirstKeyInv
<1>6. ASSUME NEW t \in Users, StartKick(t) PROVE FALSE
  <2>1. NewFlow("kick", Owner, t, "delete") \in flows'
    BY <1>6 DEF StartKick
  <2> QED BY <2>1, NewFlows DEF Kicking, Deciding
<1>7. ASSUME NEW f \in flows, CalmFlow(f) PROVE FirstKeyInv'
  <2>0. /\ f \in Flow /\ Sound(f) /\ Fits(f) /\ Shaped(f) /\ f.who \in Users /\ f.about \in Users
        /\ f.epoch \in Epochs \union {0} /\ f.key \in Keys \union {NoKey} /\ f.epoch <= 1
        /\ (f.pc \in UploadPCs => f.epoch = 1)
        /\ f.op # "kick" /\ f.op # "removed"
    <3>1. f \in Flow /\ f \in Upto(1) /\ f.op # "kick" /\ f.op # "removed"
      BY <1>0, <1>2, <1>3 DEF FirstKeyInv
    <3>2. Sound(f) /\ Fits(f) /\ Shaped(f)
      BY <1>1 DEF Peace, FlowsInv
    <3>3. /\ f.who \in Users /\ f.about \in Users /\ f.epoch \in Epochs \union {0}
          /\ f.key \in Keys \union {NoKey} /\ f.epoch <= 1 /\ (f.pc \in UploadPCs => f.epoch \in Epochs)
      BY <3>1, FlowFields
    <3>4. f.pc \in UploadPCs => f.epoch = 1
      <4>1. \A e \in Epochs : e <= 1 => e = 1
        BY DEF Epochs
      <4> QED BY <3>3, <4>1
    <3> QED BY <3>1, <3>2, <3>3, <3>4
  <2>1. UNCHANGED <<members, since>>
    BY <1>7, <2>0 DEF CalmFlow, At, KeyRequest, AcceptReply, RefreshRead, RefreshApply, LoadMember,
              LoadRead, LoadApply, WrapNext, KickDelete, KickList, KickCompute, KickReply, RemovedEvent, UploadRole,
              UploadCurrent, UploadWrite, UploadPartial, CreateReply, history, server
  <2>2. ASSUME NEW u \in Users, wraps[u][1] # NoKey PROVE wraps'[u][1] # NoKey
    <3>1. UNCHANGED wraps \/ \E us : wraps' = Insert(f, us)
      BY <1>7, <2>0 DEF CalmFlow, At, KeyRequest, AcceptReply, RefreshRead, RefreshApply, LoadMember,
              LoadRead, LoadApply, WrapNext, KickDelete, KickList, KickCompute, KickReply, RemovedEvent, UploadRole,
              UploadCurrent, UploadWrite, UploadPartial, CreateReply, server
    <3> QED BY <1>0, <2>2, <3>1 DEF Insert, KeyMap
  <2>3. ASSUME NEW u \in Users, holds[u][1] # NoKey PROVE holds'[u][1] # NoKey
    <3>1. CASE LoadApply(f)
      BY <1>0, <2>3, <3>1 DEF LoadApply
    <3>2. CASE CreateReply(f)
      BY <1>0, <2>3, <3>2 DEF CreateReply, keyMap, FirstKey, NoKeys, NoKey
    <3>3. CASE ~LoadApply(f) /\ ~CreateReply(f)
      <4>1. UNCHANGED holds
        BY <1>7, <2>0, <3>3 DEF CalmFlow, At, KeyRequest, AcceptReply, RefreshRead, RefreshApply, LoadMember,
              LoadRead, WrapNext, KickDelete, KickList, KickCompute, KickReply, RemovedEvent, UploadRole,
              UploadCurrent, UploadWrite, UploadPartial, client, keyMap
      <4> QED BY <2>3, <4>1
    <3> QED BY <3>1, <3>2, <3>3
  <2>4. ~RemovedEvent(f)
    BY <2>0 DEF RemovedEvent, At
  <2>5. \A h \in flows : h # f => h \in flows'
    BY <1>7, <2>4, OthersGoOn
  <2>6. \A h \in flows, u \in Users : h # f /\ Brings(h, u) => h \in flows' /\ Brings(h, u)'
    BY <2>2, <2>5 DEF Brings
  \* What the step makes of a key that f brings, and that it starts no removal.
  <2>q. ASSUME \A g \in flows' : g \in flows \/ g.op # "removed",
               \A u \in members : Brings(f, u) => holds'[u][1] # NoKey \/ \E g \in flows' : Brings(g, u)'
        PROVE  FirstKeyInv'
    <3>1. ASSUME NEW u \in members' PROVE holds'[u][1] # NoKey \/ \E g \in flows' : Brings(g, u)'
      BY <1>0, <1>2, <2>1, <2>3, <2>6, <2>q, <3>1 DEF FirstKeyInv
    <3> QED BY <1>2, <2>1, <2>q, <3>1 DEF FirstKeyInv
  <2>g. ASSUME NEW g, NEW new, Step(f, g, new) PROVE g \in flows' /\ new \subseteq flows'
               /\ \A h \in flows' : h \in flows \/ h = g \/ h \in new
    BY <2>g DEF Step
  <2>e. ASSUME NEW new, End(f, new) PROVE new \subseteq flows' /\ \A h \in flows' : h \in flows \/ h \in new
    BY <2>e DEF End
  <2>11. CASE KeyRequest(f)
    <3>1. PICK g, new : /\ g = [f EXCEPT !.pc = "reply"]
                        /\ new = {NewFlow("wrap", u, f.who, "event") : u \in (members \intersect online) \ {f.who}}
      OBVIOUS
    <3>2. f.op = "accept" /\ f.pc = "request" /\ Step(f, g, new)
      BY <2>11, <3>1 DEF KeyRequest, At
    <3>3. g.op = "accept" /\ \A h \in new : h.op = "wrap"
      BY <2>0, <3>1, <3>2, NewFlows DEF Flow
    <3>4. PICK h : h = NewFlow("wrap", Owner, f.who, "event")
      OBVIOUS
    <3>5. h \in new
      BY <1>0, <1>1, <2>0, <3>1, <3>2, <3>4 DEF Sound, Peace
    <3>6. Brings(h, f.who)'
      BY <3>4, NewFlows DEF Brings
    <3>7. \A u \in members : Brings(f, u) => u = f.who
      BY <3>2 DEF Brings, At
    <3> QED BY <2>g, <2>q, <3>2, <3>3, <3>5, <3>6, <3>7
  <2>12. CASE AcceptReply(f) \/ RefreshRead(f) \/ RefreshApply(f)
    <3>1. f.op \in {"accept", "refresh"} /\ (f.op = "accept" => f.pc = "reply")
      BY <2>12 DEF AcceptReply, RefreshRead, RefreshApply, At
    <3>2. \A u : ~Brings(f, u)
      BY <3>1 DEF Brings, At
    <3>3. CASE AcceptReply(f)
      <4>1. End(f, {}) \/ End(f, {Refresh(f.who)})
        BY <3>3 DEF AcceptReply
      <4>2. Refresh(f.who).op = "refresh"
        BY NewFlows DEF Refresh
      <4> QED BY <2>e, <2>q, <3>2, <4>1, <4>2
    <3>4. CASE RefreshRead(f)
      <4>1. PICK g : g = [f EXCEPT !.pc = "apply", !.seen = IF f.who \in members THEN current ELSE 0]
        OBVIOUS
      <4>2. Step(f, g, {}) /\ g.op = f.op
        BY <2>0, <3>4, <4>1 DEF RefreshRead, Flow
      <4> QED BY <2>0, <2>g, <2>q, <3>2, <4>2
    <3>5. CASE RefreshApply(f)
      <4>1. End(f, {}) \/ End(f, {NewFlow("load", f.who, f.who, "member")})
        BY <3>5 DEF RefreshApply
      <4>2. NewFlow("load", f.who, f.who, "member").op = "load"
        BY NewFlows
      <4> QED BY <2>e, <2>q, <3>2, <4>1, <4>2
    <3> QED BY <2>12, <3>3, <3>4, <3>5
  <2>13. CASE LoadMember(f)
    <3>1. PICK g : g = [f EXCEPT !.pc = "read"]
      OBVIOUS
    <3>2. /\ f.op = "load" /\ (Step(f, g, {}) \/ End(f, {}))
          /\ f.op = "load" /\ (f.who \in members => Step(f, g, {})) /\ f.pc \in {"event", "member"} /\ UNCHANGED wraps
      BY <2>13, <3>1 DEF LoadMember, server
    <3>3. g.op = "load" /\ g.who = f.who /\ g.pc = "read"
      BY <2>0, <3>1, <3>2 DEF Flow
    <3>4. \A u : Brings(f, u) => u = f.who /\ Brings(g, u)'
      BY <3>2, <3>3 DEF Brings, At
    <3> QED BY <2>e, <2>g, <2>q, <3>2, <3>3, <3>4
  <2>14. CASE LoadRead(f)
    <3>1. PICK g : g = [f EXCEPT !.pc = "apply", !.seen = current, !.got = wraps[f.who]]
      OBVIOUS
    <3>2. f.op = "load" /\ Step(f, g, {}) /\ UNCHANGED wraps
      BY <2>14, <3>1 DEF LoadRead, At, server
    <3>3. g.op = "load" /\ g.who = f.who /\ g.pc = "apply" /\ g.got = wraps[f.who]
      BY <2>0, <3>1, <3>2 DEF Flow
    <3>4. \A u : Brings(f, u) => Brings(g, u)'
      BY <3>2, <3>3 DEF Brings, At
    <3> QED BY <2>g, <2>q, <3>2, <3>3, <3>4
  <2>15. CASE LoadApply(f)
    <3>1. /\ f.op = "load" /\ f.pc = "apply" /\ End(f, {})
          /\ holds' = [holds EXCEPT ![f.who] =
                         [e \in Epochs |-> IF holds[f.who][e] # NoKey THEN holds[f.who][e] ELSE f.got[e]]]
      BY <2>15 DEF LoadApply, At
    <3>2. \A u : Brings(f, u) => u = f.who /\ f.got[1] # NoKey
      BY <3>1 DEF Brings, At
    <3>3. f.got[1] # NoKey => holds'[f.who][1] # NoKey
      BY <1>0, <2>0, <3>1
    <3> QED BY <2>e, <2>q, <3>1, <3>2, <3>3
  <2>16. CASE WrapNext(f)
    <3>1. f.op = "wrap" /\ f.pc \in {"event", "reply"} /\ f.alive /\ NextWrap(f)
      BY <2>0, <2>16 DEF WrapNext, Sound
    <3>2. PICK map : map = (IF f.got = NoKeys THEN holds[f.who] ELSE f.got)
      OBVIOUS
    <3>3. \/ End(f, {}) /\ \A e \in Epochs : ~(e > f.epoch /\ map[e] # NoKey)
          \/ \E g, e : /\ g = [f EXCEPT !.pc = "role", !.epoch = e, !.key = map[e],
                                                   !.targets = {f.about}, !.ok = TRUE]
                       /\ Step(f, g, {})
      BY <3>1, <3>2, Zenon DEF NextWrap
    <3>4. ASSUME NEW g, NEW e, g = [f EXCEPT !.pc = "role", !.epoch = e, !.key = map[e],
                                             !.targets = {f.about}, !.ok = TRUE]
          PROVE  g.op = "wrap" /\ g.who = f.who /\ g.about = f.about /\ g.pc = "role"
      BY <2>0, <3>1, <3>4 DEF Flow
    <3>5. \A u : Brings(f, u) => f.who = Owner /\ f.about = u /\ f.pc = "event"
      BY <3>1 DEF Brings, At
    <3>6. CASE End(f, {}) /\ \A e \in Epochs : ~(e > f.epoch /\ map[e] # NoKey)
      <4>1. ASSUME NEW u \in members, Brings(f, u) PROVE FALSE
        <5>1. f.got = NoKeys /\ f.epoch = 0 /\ holds[Owner][1] # NoKey
          BY <1>1, <2>0, <3>1, <3>5, <4>1 DEF Sound, Fits, Peace
        <5> QED BY <1>0, <3>2, <3>5, <3>6, <4>1, <5>1
      <4> QED BY <2>e, <2>q, <3>6, <4>1
    <3>7. ASSUME NEW g, NEW e, g = [f EXCEPT !.pc = "role", !.epoch = e, !.key = map[e],
                                             !.targets = {f.about}, !.ok = TRUE], Step(f, g, {})
          PROVE  FirstKeyInv'
      <4>1. g.op = "wrap" /\ g.who = f.who /\ g.about = f.about /\ g.pc = "role"
        BY <3>4, <3>7
      <4>2. \A u : Brings(f, u) => Brings(g, u)'
        BY <3>5, <4>1 DEF Brings
      <4>3. g \in flows' /\ \A h \in flows' : h \in flows \/ h = g
        BY <3>7, Zenon DEF Step
      <4>4. \A h \in flows' : h \in flows \/ h.op # "removed"
        BY <4>1, <4>3
      <4> QED BY <2>q, <4>2, <4>3, <4>4
    <3> QED BY <3>3, <3>6, <3>7
  <2>17. CASE CreateReply(f)
    <3>1. f.op = "create" /\ End(f, {Refresh(Owner)}) /\ holds' = [holds EXCEPT ![Owner] = FirstKey]
      BY <2>0, <2>17 DEF CreateReply, At, Sound
    <3>2. holds'[Owner][1] # NoKey
      BY <1>0, <3>1, FirstKeyType DEF FirstKey, NoKeys, NoKey
    <3>3. \A u : Brings(f, u) => u = Owner
      BY <3>1 DEF Brings, At
    <3>4. Refresh(Owner).op = "refresh"
      BY NewFlows DEF Refresh
    <3> QED BY <2>e, <2>q, <3>1, <3>2, <3>3, <3>4
  \* An upload stays a create, or a wrap by the owner, until it is answered.
  <2>u. ASSUME NEW g, g.op = f.op, g.who = f.who, g.about = f.about, f.pc \in UploadPCs, g.pc # "reply"
        PROVE  \A u : Brings(f, u) => Brings(g, u)'
    BY <2>0, <2>u DEF Brings, At, Sound
  <2>b. ASSUME f.pc \in UploadPCs
        PROVE  \A u : Brings(f, u) => (f.op = "create" \/ (f.op = "wrap" /\ f.who = Owner /\ f.about = u)) /\ f.who \in members
                                    /\ (f.op = "create" => f.who = u /\ u = Owner)
    BY <1>0, <2>0, <2>b DEF Brings, At, Sound, Shaped
  <2>18. CASE UploadRole(f)
    <3>1. PICK g : g = [f EXCEPT !.pc = "current"]
      OBVIOUS
    <3>2. f.pc = "role" /\ (Step(f, g, {}) \/ \E h : f.who \notin members /\ Answered(h, f) /\ Step(f, h, {}))
      BY <2>18, <3>1, Zenon DEF UploadRole, Answered
    <3>3. g.op = f.op /\ g.who = f.who /\ g.about = f.about /\ g.pc = "current"
      BY <2>0, <3>1 DEF Flow
    <3>4. CASE Step(f, g, {})
      BY <2>0, <2>g, <2>q, <2>u, <3>2, <3>3, <3>4 DEF UploadPCs
    <3>5. ASSUME NEW h, f.who \notin members, Answered(h, f), Step(f, h, {}) PROVE FirstKeyInv'
      <4>1. h.op = f.op
        BY <2>0, <3>5, Answers DEF Kin
      <4> QED BY <2>0, <2>b, <2>g, <2>q, <3>2, <3>5, <4>1 DEF UploadPCs
    <3> QED BY <3>2, <3>4, <3>5
  <2>19. CASE UploadCurrent(f)
    <3>1. PICK g : g = [f EXCEPT !.pc = "write", !.rotating = (f.epoch = current + 1)]
      OBVIOUS
    <3>2. /\ f.pc = "current"
          /\ \/ Step(f, g, {})
             \/ \E h : /\ ~(IF f.epoch = current + 1 THEN f.who = Owner ELSE f.epoch \in 1..current)
                       /\ Answered(h, f) /\ Step(f, h, {})
      BY <2>19, <3>1, Zenon DEF UploadCurrent, Answered
    <3>3. g.op = f.op /\ g.who = f.who /\ g.about = f.about /\ g.pc = "write"
      BY <2>0, <3>1 DEF Flow
    <3>4. f.epoch = 1 /\ current \in Nat /\ current >= 1
      BY <1>0, <2>0, <3>2 DEF UploadPCs
    <3>5. CASE Step(f, g, {})
      BY <2>0, <2>g, <2>q, <2>u, <3>2, <3>3, <3>5 DEF UploadPCs
    <3> QED BY <3>2, <3>4, <3>5
  <2>20. CASE UploadWrite(f)
    <3>1. PICK g, new : g = Answer(f, TRUE) /\ new = {EventLoad(u) : u \in f.targets \intersect online}
      OBVIOUS
    <3>2. /\ f.pc = "write" /\ Step(f, g, new) /\ wraps' = Insert(f, f.targets)
      BY <2>20, <3>1 DEF UploadWrite
    <3>3. g.op = f.op /\ g.who = f.who /\ g.about = f.about
      BY <2>0, <3>1 DEF Flow, Answer
    <3>4. \A u : EventLoad(u).op = "load" /\ EventLoad(u).who = u /\ EventLoad(u).pc = "event"
      BY NewFlows DEF EventLoad
    <3>5. ASSUME NEW u \in members, Brings(f, u) PROVE \E h \in flows' : Brings(h, u)'
      <4>1. CASE f.op = "create"
        <5>1. Brings(g, u)'
          BY <2>b, <3>2, <3>3, <3>5, <4>1 DEF Brings, UploadPCs
        <5> QED BY <2>g, <3>2, <5>1
      <4>2. CASE f.op # "create"
        <5>1. f.op = "wrap" /\ f.who = Owner /\ f.about = u
          BY <2>b, <3>2, <3>5, <4>2 DEF UploadPCs
        <5>2. f.targets = {u} /\ f.key # NoKey /\ f.epoch = 1 /\ u \in Users
          BY <1>0, <2>0, <3>2, <5>1 DEF Sound, UploadPCs
        <5>3. wraps'[u][1] # NoKey
          BY <1>0, <3>2, <5>2 DEF Insert, KeyMap
        <5>4. EventLoad(u) \in flows'
          <6>1. u \in f.targets \intersect online
            BY <1>1, <5>2 DEF Peace
          <6>2. EventLoad(u) \in new
            BY <3>1, <6>1
          <6> QED BY <2>g, <3>2, <6>2
        <5>5. Brings(EventLoad(u), u)'
          BY <3>4, <5>3 DEF Brings
        <5> QED BY <5>4, <5>5
      <4> QED BY <4>1, <4>2
    <3>6. \A h \in flows' : h \in flows \/ h.op # "removed"
      <4>1. \A h \in new : h.op = "load"
        BY <3>1, <3>4
      <4> QED BY <2>0, <2>g, <3>2, <3>3, <4>1
    <3> QED BY <2>q, <3>5, <3>6
  <2>21. CASE UploadPartial(f)
    <3>1. f.pc = "write" /\ ~ f.targets \subseteq members /\ \E h : Answered(h, f) /\ Step(f, h, {})
      BY <2>21, Zenon DEF UploadPartial, Answered
    <3>2. ASSUME NEW u \in members, Brings(f, u) PROVE FALSE
      BY <1>0, <2>0, <2>b, <3>1, <3>2 DEF Sound, UploadPCs
    <3>3. PICK h : Answered(h, f) /\ Step(f, h, {})
      BY <3>1
    <3>4. h.op = f.op
      BY <2>0, <3>3, Answers DEF Kin
    <3> QED BY <2>0, <2>g, <2>q, <3>2, <3>3, <3>4
  <2>22. ~KickDelete(f) /\ ~KickList(f) /\ ~KickCompute(f) /\ ~KickReply(f)
    BY <2>0 DEF KickDelete, KickList, KickCompute, KickReply, At
  <2> QED
    BY <1>7, <2>4, <2>11, <2>12, <2>13, <2>14, <2>15, <2>16, <2>17, <2>18, <2>19, <2>20, <2>21, <2>22 DEF CalmFlow
<1> QED BY <1>1, <1>4, <1>5, <1>6, <1>7

-----------------------------------------------------------------------------
(* As long as no invite is out: a space being created has its owner only;    *)
(* in any other, the members hold key 1 but for one whom a removal under way *)
(* takes out, and the one rotation knows every member.                       *)
Leaves(u) == \E f \in flows : At(f, "kick", "delete") /\ f.about = u

Between(f) ==
  /\ f.op \in {"kick", "removed", "load"}
  /\ f.op = "removed" => f.who \notin members \/ Leaves(f.who)
  /\ f.op = "load" => made = 2
  /\ f.op = "kick" /\ f.pc \in UploadPCs \union {"compute"} => f.targets = members
  /\ f.op = "kick" /\ f.pc \notin Deciding => f.epoch = 2 /\ f.key = 2

Alone == members = {Owner} /\ made = 1 /\ \A f \in flows : f.op # "kick"
Together ==
  /\ Owner \in loaded
  /\ \A f \in flows : Between(f)
  /\ \A u \in members : (holds[u][1] # NoKey /\ cur[u] # 0) \/ Leaves(u)

QuietInv ==
  ~spent.faulty /\ made <= 2 /\ ~invited => IF FirstMembers = {} THEN Alone ELSE Together

(* Only StartKick starts a removal: a flow goes on as one of its kind, and   *)
(* starts others that wrap, load or refresh.                                 *)
LEMMA Kinds ==
  ASSUME TypeInv, NEW f \in flows, CalmFlow(f)
  PROVE  \A h \in flows' : h \in flows \/ h.op = f.op \/ h.op \in {"wrap", "load", "refresh"}
<1> USE DEF Step, End
<1>0. f \in Flow /\ flows \subseteq Flow
  BY DEF TypeInv, TypeOK
<1>1. CASE KeyRequest(f)
  <2>1. [f EXCEPT !.pc = "reply"].op = f.op
    BY <1>0 DEF Flow
  <2>2. \A h \in {NewFlow("wrap", u, f.who, "event") : u \in (members \intersect online) \ {f.who}} : h.op = "wrap"
    BY NewFlows
  <2> QED BY <1>1, <2>1, <2>2 DEF KeyRequest
<1>2. CASE AcceptReply(f) \/ RefreshApply(f) \/ LoadApply(f) \/ KickReply(f) \/ CreateReply(f)
  BY <1>2, NewFlows DEF AcceptReply, RefreshApply, LoadApply, KickReply, CreateReply, Refresh
<1>3. CASE RefreshRead(f)
  <2>1. PICK g : g = [f EXCEPT !.pc = "apply", !.seen = IF f.who \in members THEN current ELSE 0]
    OBVIOUS
  <2>2. g.op = f.op
    BY <1>0, <2>1 DEF Flow
  <2> QED BY <1>3, <2>1, <2>2 DEF RefreshRead
<1>4. CASE LoadMember(f) \/ UploadRole(f) \/ UploadCurrent(f) \/ UploadPartial(f) \/ KickDelete(f)
  <2>1. \A h \in flows' : \/ h \in flows \/ Answered(h, f) \/ h = [f EXCEPT !.pc = "read"]
                          \/ h = [f EXCEPT !.pc = "list"] \/ h = [f EXCEPT !.pc = "current"]
                          \/ h = [f EXCEPT !.pc = "write", !.rotating = (f.epoch = current + 1)]
    BY <1>4, Zenon DEF LoadMember, UploadRole, UploadCurrent, UploadPartial, KickDelete, Answered
  <2>2. /\ [f EXCEPT !.pc = "read"].op = f.op /\ [f EXCEPT !.pc = "list"].op = f.op
        /\ [f EXCEPT !.pc = "current"].op = f.op
        /\ [f EXCEPT !.pc = "write", !.rotating = (f.epoch = current + 1)].op = f.op
    BY <1>0 DEF Flow
  <2> QED BY <1>0, <2>1, <2>2, Answers DEF Kin
<1>5. CASE LoadRead(f)
  <2>1. PICK g : g = [f EXCEPT !.pc = "apply", !.seen = current, !.got = wraps[f.who]]
    OBVIOUS
  <2>2. g.op = f.op
    BY <1>0, <2>1 DEF Flow
  <2> QED BY <1>5, <2>1, <2>2 DEF LoadRead
<1>6. CASE WrapNext(f)
  <2>1. PICK map : map = (IF f.got = NoKeys THEN holds[f.who] ELSE f.got)
    OBVIOUS
  <2>2. \A h \in flows' : h \in flows \/ \E e : h = [f EXCEPT !.pc = "role", !.epoch = e, !.key = map[e],
                                                          !.targets = {f.about}, !.ok = TRUE]
    BY <1>6, <2>1, Zenon DEF WrapNext, NextWrap
  <2>3. \A e : [f EXCEPT !.pc = "role", !.epoch = e, !.key = map[e], !.targets = {f.about}, !.ok = TRUE].op = f.op
    BY <1>0 DEF Flow
  <2> QED BY <2>2, <2>3
<1>7. CASE KickList(f)
  <2>1. [f EXCEPT !.pc = "compute", !.targets = members].op = f.op
    BY <1>0 DEF Flow
  <2> QED BY <1>7, <2>1 DEF KickList
<1>8. CASE KickCompute(f)
  <2>1. [f EXCEPT !.pc = "role", !.epoch = cur[Owner] + 1, !.key = made + 1].op = f.op
    BY <1>0 DEF Flow
  <2> QED BY <1>8, <2>1 DEF KickCompute
<1>9. CASE RemovedEvent(f)
  <2>1. \A h \in flows' : h \in flows \/ \E g \in flows : g.op = "wrap" /\ h = [g EXCEPT !.got = holds[f.who]]
    BY <1>9, Zenon DEF RemovedEvent
  <2>2. ASSUME NEW g \in flows, g.op = "wrap" PROVE [g EXCEPT !.got = holds[f.who]].op = "wrap"
    BY <1>0, <2>2 DEF Flow
  <2> QED BY <2>1, <2>2
<1>10. CASE UploadWrite(f)
  <2>1. Answer(f, TRUE).op = f.op
    BY <1>0, Answers DEF Answered, Kin
  <2>2. \A h \in {EventLoad(u) : u \in f.targets \intersect online} : h.op = "load"
    BY NewFlows DEF EventLoad
  <2> QED BY <1>10, <2>1, <2>2 DEF UploadWrite
<1> QED BY <1>1, <1>2, <1>3, <1>4, <1>5, <1>6, <1>7, <1>8, <1>9, <1>10 DEF CalmFlow

LEMMA QuietInit == Init => QuietInv
<1> SUFFICES ASSUME Init PROVE IF FirstMembers = {} THEN Alone ELSE Together
  BY DEF QuietInv
<1>1. CASE FirstMembers = {}
  <2>1. Create.op = "create"
    BY DEF Create, NewFlow
  <2> QED BY <1>1, <2>1 DEF Init, StartWith, Alone
<1>2. CASE FirstMembers # {}
  <2>1. flows = {} /\ members = FirstMembers /\ loaded = FirstMembers /\ Owner \in loaded
    BY <1>2, ConstantsAssumption DEF Init, StartWith
  <2>2. ASSUME NEW u \in members PROVE holds[u][1] # NoKey /\ cur[u] # 0
    BY <2>1, <2>2, ConstantsAssumption, FirstKeyType DEF Init, StartWith, FirstKey, NoKeys, NoKey
  <2> QED BY <1>2, <2>1, <2>2 DEF Together
<1> QED BY <1>1, <1>2

LEMMA TogetherStep ==
  ASSUME TypeInv, KeysInv, FlowsInv, Peace, Together, made' <= 2, NEW f \in flows, CalmFlow(f)
  PROVE  Together'
<1> USE ConstantsAssumption
<1>0. /\ flows \subseteq Flow /\ flows \subseteq Upto(made) /\ made \in Nat \ {0} /\ Keys = Epochs
      /\ 0 \notin Epochs /\ 1 \in Epochs /\ Epochs \subseteq Nat /\ current \in Epochs /\ current <= made
      /\ holds \in [Users -> KeyMap] /\ wraps \in [Users -> KeyMap] /\ members \subseteq Users /\ Owner \in members
      /\ cur \in [Users -> Epochs \union {0}] /\ \A u \in Users : cur[u] <= made
  BY FirstKeyType DEF TypeInv, TypeOK, Bounded, Keys, KeysInv
<1>1. /\ f \in Flow /\ Sound(f) /\ Fits(f) /\ Shaped(f) /\ Led(f) /\ Between(f) /\ f.who \in Users /\ f.about \in Users
      /\ f.epoch \in Epochs \union {0} /\ f.key \in Keys \union {NoKey}
  <2>1. f \in Upto(made)
    BY <1>0
  <2> QED BY <1>0, <2>1, FlowFields DEF Peace, FlowsInv, Together
<1>2. \A h \in flows : f.op = "kick" /\ h.op = "kick" => h = f
  BY DEF Peace
<1>3. ~At(f, "kick", "delete") => \A u : Leaves(u) => Leaves(u)'
  BY OthersGoOn DEF Leaves, At
<1>4. f.op = "kick" => \A u : Leaves(u) => u = f.about /\ f.pc = "delete"
  BY <1>2 DEF Leaves, At
\* The step of a flow that leaves the members and the number of keys.
<1>s. ASSUME UNCHANGED <<members, made>>, Owner \in loaded', ~At(f, "kick", "delete"),
             \A h \in flows' : h \in flows \/ Between(h)',
             \A u \in members : holds[u][1] # NoKey /\ cur[u] # 0 => (holds'[u][1] # NoKey /\ cur'[u] # 0) \/ Leaves(u)
      PROVE  Together'
  <2>1. \A h \in flows : Between(h)'
    BY <1>3, <1>s DEF Together, Between
  <2> QED BY <1>3, <1>s, <2>1 DEF Together
\* The same when the keys held and the lists stay too.
<1>g. ASSUME UNCHANGED <<members, made, loaded, holds, cur>>, ~At(f, "kick", "delete"), NEW g, NEW new,
             Step(f, g, new) \/ End(f, new), Between(g)', \A h \in new : Between(h)'
      PROVE  Together'
  <2>1. \A h \in flows' : h \in flows \/ Between(h)'
    BY <1>g DEF Step, End
  <2> QED BY <1>g, <1>s, <2>1 DEF Together
<1>5. CASE LoadMember(f)
  <2>1. PICK g : g = [f EXCEPT !.pc = "read"]
    OBVIOUS
  <2>2. f.op = "load" /\ (Step(f, g, {}) \/ End(f, {})) /\ UNCHANGED <<members, made, loaded, holds, cur>>
    BY <1>5, <2>1 DEF LoadMember, server, client, keyMap, history
  <2>3. g.op = "load"
    BY <1>1, <2>1, <2>2 DEF Flow
  <2> QED BY <1>1, <1>g, <2>2, <2>3 DEF Between, At
<1>6. CASE LoadRead(f)
  <2>1. PICK g : g = [f EXCEPT !.pc = "apply", !.seen = current, !.got = wraps[f.who]]
    OBVIOUS
  <2>2. f.op = "load" /\ Step(f, g, {}) /\ UNCHANGED <<members, made, loaded, holds, cur>>
    BY <1>6, <2>1 DEF LoadRead, At, server, client, keyMap, history
  <2>3. g.op = "load"
    BY <1>1, <2>1, <2>2 DEF Flow
  <2> QED BY <1>1, <1>g, <2>2, <2>3 DEF Between, At
<1>7. CASE LoadApply(f)
  <2>1. /\ f.op = "load" /\ f.pc = "apply" /\ End(f, {}) /\ UNCHANGED <<members, made>>
        /\ loaded' = loaded \union {f.who}
        /\ cur' = [cur EXCEPT ![f.who] = IF cur[f.who] = 0 THEN 0 ELSE f.seen]
        /\ holds' = [holds EXCEPT ![f.who] =
                       [e \in Epochs |-> IF holds[f.who][e] # NoKey THEN holds[f.who][e] ELSE f.got[e]]]
    BY <1>7 DEF LoadApply, At, server, history
  <2>2. ASSUME NEW u \in members, holds[u][1] # NoKey /\ cur[u] # 0 PROVE holds'[u][1] # NoKey /\ cur'[u] # 0
    <3>1. f.seen # 0
      BY <1>1, <2>1 DEF Shaped, At
    <3> QED BY <1>0, <1>1, <2>1, <2>2, <3>1
  <2>3. \A h \in flows' : h \in flows
    BY <2>1 DEF End
  <2> QED BY <1>s, <2>1, <2>2, <2>3 DEF Together, At
<1>8. CASE KickDelete(f)
  <2>1. PICK g : g = [f EXCEPT !.pc = "list"]
    OBVIOUS
  <2>2. /\ f.op = "kick" /\ f.pc = "delete" /\ Step(f, g, {}) /\ members' = members \ {f.about}
        /\ UNCHANGED <<made, loaded, holds, cur>>
    BY <1>1, <1>8, <2>1 DEF KickDelete, At, client, keyMap, history, Fits
  <2>3. g.op = "kick" /\ g.pc = "list"
    BY <1>1, <2>1, <2>2 DEF Flow
  <2>4. Between(g)'
    BY <2>3 DEF Between, UploadPCs, Deciding
  <2>5. \A u : Leaves(u) => u \notin members'
    BY <1>4, <2>2
  <2>6. \A h \in flows : h = f \/ Between(h)'
    BY <1>2, <2>2, <2>5 DEF Together, Between
  <2>7. \A h \in flows' : Between(h)'
    BY <2>2, <2>4, <2>6 DEF Step
  <2>8. ASSUME NEW u \in members' PROVE holds'[u][1] # NoKey /\ cur'[u] # 0
    BY <2>2, <2>5, <2>8 DEF Together
  <2> QED BY <2>2, <2>7, <2>8 DEF Together
<1>9. CASE KickList(f)
  <2>1. PICK g : g = [f EXCEPT !.pc = "compute", !.targets = members]
    OBVIOUS
  <2>2. f.op = "kick" /\ f.pc = "list" /\ (Step(f, g, {}) \/ End(f, {})) /\ UNCHANGED <<members, made, loaded, holds, cur>>
    BY <1>9, <2>1 DEF KickList, At, server, client, keyMap, history
  <2>3. g.op = "kick" /\ g.pc = "compute" /\ g.targets = members
    BY <1>1, <2>1, <2>2 DEF Flow
  <2>4. Between(g)'
    BY <2>2, <2>3 DEF Between, UploadPCs, Deciding
  <2> QED BY <1>g, <2>2, <2>4 DEF At
<1>10. CASE KickCompute(f)
  <2>1. PICK g : g = [f EXCEPT !.pc = "role", !.epoch = cur[Owner] + 1, !.key = made + 1]
    OBVIOUS
  <2>2. /\ f.op = "kick" /\ f.pc = "compute" /\ Step(f, g, {}) /\ made' = made + 1
        /\ UNCHANGED <<members, loaded, holds, cur>>
    BY <1>10, <2>1 DEF KickCompute, At, server, client, keyMap
  <2>3. made = 1 /\ cur[Owner] = 1
    <3>1. cur[Owner] # 0 /\ cur[Owner] \in Nat /\ cur[Owner] <= made
      BY <1>0, <1>1, <2>2 DEF Led, Sound
    <3> QED BY <1>0, <2>2, <3>1
  <2>4. g.op = "kick" /\ g.pc = "role" /\ g.epoch = 2 /\ g.key = 2 /\ g.targets = f.targets
    BY <1>1, <2>1, <2>2, <2>3 DEF Flow
  <2>5. Between(g)'
    BY <1>1, <2>2, <2>4 DEF Between, UploadPCs
  <2>6. \A u : ~Leaves(u)
    BY <1>4, <2>2
  <2>7. \A h \in flows : h = f \/ Between(h)'
    BY <1>2, <2>2, <2>3, <2>6 DEF Together, Between
  <2>8. \A h \in flows' : Between(h)'
    BY <2>2, <2>5, <2>7 DEF Step
  <2> QED BY <2>2, <2>6, <2>8 DEF Together
<1>11. CASE KickReply(f)
  <2>1. /\ f.op = "kick" /\ f.pc = "reply" /\ End(f, {}) /\ UNCHANGED <<members, made, loaded>>
        /\ \/ UNCHANGED <<holds, cur>>
           \/ /\ cur' = [cur EXCEPT ![Owner] = f.epoch]
              /\ holds' = holds \/ holds' = [holds EXCEPT ![Owner] = [holds[Owner] EXCEPT ![f.epoch] = f.key]]
    BY <1>11 DEF KickReply, At, server, history
  <2>2. f.epoch = 2 /\ f.key = 2
    BY <1>1, <2>1 DEF Between, Deciding
  <2>3. \A u \in members : holds[u][1] # NoKey /\ cur[u] # 0 => holds'[u][1] # NoKey /\ cur'[u] # 0
    BY <1>0, <2>1, <2>2 DEF KeyMap
  <2>4. \A h \in flows' : h \in flows
    BY <2>1 DEF End
  <2> QED BY <1>s, <2>1, <2>3, <2>4 DEF Together, At
<1>12. CASE RemovedEvent(f)
  <2>1. /\ f.op = "removed" /\ f.pc = "event" /\ UNCHANGED <<members, made>>
        /\ holds' = [holds EXCEPT ![f.who] = NoKeys] /\ loaded' = loaded \ {f.who} /\ cur' = [cur EXCEPT ![f.who] = 0]
    BY <1>12 DEF RemovedEvent, At, server, history
  <2>2. f.who # Owner /\ (f.who \notin members \/ Leaves(f.who))
    BY <1>1, <2>1 DEF Shaped, Between
  <2>3. \A h \in flows' : h \in flows
    <3>1. \A h \in flows : h.op # "wrap"
      BY DEF Together, Between
    <3> QED BY <1>12, <3>1 DEF RemovedEvent
  <2>4. ASSUME NEW u \in members, holds[u][1] # NoKey /\ cur[u] # 0
        PROVE  (holds'[u][1] # NoKey /\ cur'[u] # 0) \/ Leaves(u)
    BY <1>0, <2>1, <2>2, <2>4
  <2> QED BY <1>s, <2>1, <2>2, <2>3, <2>4 DEF Together, At
\* The uploads: they are of a removal.
<1>u. ASSUME f.pc \in UploadPCs PROVE f.op = "kick" /\ f.epoch = 2 /\ f.key = 2 /\ f.targets = members /\ made = 2
  <2>1. f.op = "kick"
    BY <1>1, <1>u DEF Sound, Between
  <2>2. made > 1 /\ f.epoch = 2 /\ f.key = 2 /\ f.targets = members
    BY <1>1, <1>u, <2>1 DEF Fits, Between, UploadPCs, Deciding
  <2>3. made' \in {made, made + 1}
    BY MadeSteps DEF CalmFlow, Next, FlowStep
  <2>4. made = 2
    BY <1>0, <2>2, <2>3
  <2> QED BY <2>1, <2>2, <2>4
<1>v. ASSUME f.pc \in UploadPCs, NEW g, g.op = f.op, g.pc \in UploadPCs, g.epoch = f.epoch, g.key = f.key,
             g.targets = f.targets, UNCHANGED <<members, made>>
      PROVE  Between(g)'
  BY <1>u, <1>v DEF Between
<1>w. ASSUME f.pc \in UploadPCs, NEW g, Answered(g, f) PROVE Between(g)'
  <2>1. g.op = "kick" /\ g.pc = "reply" /\ g.epoch = 2 /\ g.key = 2
    BY <1>1, <1>u, <1>w, Answers DEF Kin
  <2> QED BY <2>1 DEF Between, UploadPCs
<1>13. CASE UploadRole(f) \/ UploadCurrent(f) \/ UploadPartial(f)
  <2>1. f.pc \in UploadPCs /\ UNCHANGED <<members, made, loaded, holds, cur>>
    BY <1>13 DEF UploadRole, UploadCurrent, UploadPartial, UploadPCs, server, client, keyMap, history
  <2>2. \/ \E g : Answered(g, f) /\ Step(f, g, {})
        \/ \E g : g = [f EXCEPT !.pc = "current"] /\ Step(f, g, {})
        \/ \E g : g = [f EXCEPT !.pc = "write", !.rotating = (f.epoch = current + 1)] /\ Step(f, g, {})
    BY <1>13, Zenon DEF UploadRole, UploadCurrent, UploadPartial, Answered
  <2>3. \E g : Step(f, g, {}) /\ Between(g)'
    <3>1. ASSUME NEW g, g = [f EXCEPT !.pc = "current"]
                        \/ g = [f EXCEPT !.pc = "write", !.rotating = (f.epoch = current + 1)]
          PROVE  Between(g)'
      <4>1. /\ g.op = f.op /\ g.pc \in UploadPCs /\ g.epoch = f.epoch /\ g.key = f.key /\ g.targets = f.targets
        BY <1>1, <3>1 DEF Flow, UploadPCs
      <4> QED BY <1>v, <2>1, <4>1
    <3> QED BY <1>w, <2>1, <2>2, <3>1
  <2>4. ~At(f, "kick", "delete")
    BY <2>1 DEF At, UploadPCs
  <2> QED BY <1>g, <2>1, <2>3, <2>4
<1>14. CASE UploadWrite(f)
  <2>1. PICK g, new : g = Answer(f, TRUE) /\ new = {EventLoad(u) : u \in f.targets \intersect online}
    OBVIOUS
  <2>2. f.pc \in UploadPCs /\ UNCHANGED <<members, made, loaded, holds, cur>> /\ Step(f, g, new)
    BY <1>14, <2>1 DEF UploadWrite, UploadPCs, client, keyMap, history
  <2>3. made = 2 /\ Between(g)'
    BY <1>u, <1>w, <2>1, <2>2 DEF Answered
  <2>4. \A h \in new : h.op = "load"
    BY <2>1, NewFlows DEF EventLoad
  <2>5. \A h \in new : Between(h)'
    BY <2>2, <2>3, <2>4 DEF Between
  <2>6. ~At(f, "kick", "delete")
    BY <2>2 DEF At, UploadPCs
  <2> QED BY <1>g, <2>2, <2>3, <2>5, <2>6
<1>15. ~KeyRequest(f) /\ ~AcceptReply(f) /\ ~RefreshRead(f) /\ ~RefreshApply(f) /\ ~WrapNext(f) /\ ~CreateReply(f)
  BY <1>1 DEF Between, KeyRequest, AcceptReply, RefreshRead, RefreshApply, WrapNext, CreateReply, At
<1> QED BY <1>5, <1>6, <1>7, <1>8, <1>9, <1>10, <1>11, <1>12, <1>13, <1>14, <1>15 DEF CalmFlow

LEMMA QuietStep ==
  ASSUME TypeInv, KeysInv, FlowsInv, PeaceInv, QuietInv, [Next]_vars
  PROVE  QuietInv'
<1> USE ConstantsAssumption
<1> SUFFICES ASSUME ~spent'.faulty, made' <= 2, ~invited' PROVE (IF FirstMembers = {} THEN Alone ELSE Together)'
  BY DEF QuietInv
<1>0. made \in Nat
  BY FirstKeyType DEF TypeInv, TypeOK
<1>1. /\ ~spent.faulty /\ Peace
      /\ \/ UNCHANGED vars
         \/ CreateInvite
         \/ \E u \in Users : AcceptInvite(u) \/ StartKick(u)
         \/ \E f \in flows : CalmFlow(f)
  BY CalmSteps
<1>2. UNCHANGED invited \/ CreateInvite \/ \E u \in Users : AcceptInvite(u)
  BY <1>1 DEF vars, server, StartKick, CalmFlow, KeyRequest, AcceptReply, RefreshRead, RefreshApply, LoadMember,
              LoadRead, LoadApply, WrapNext, KickDelete, KickList, KickCompute, KickReply, RemovedEvent, UploadRole,
              UploadCurrent, UploadWrite, UploadPartial, CreateReply
<1>3. ~CreateInvite /\ ~invited /\ \A u \in Users : ~AcceptInvite(u)
  BY <1>2 DEF CreateInvite, AcceptInvite
<1>4. IF FirstMembers = {} THEN Alone ELSE Together
  BY <1>0, <1>1, <1>3, MadeSteps DEF QuietInv
<1>5. CASE UNCHANGED vars
  BY <1>4, <1>5 DEF vars, server, client, keyMap, history, Alone, Together, Between, Leaves
<1>6. ASSUME NEW t \in Users, StartKick(t) PROVE (IF FirstMembers = {} THEN Alone ELSE Together)'
  <2>1. PICK g, h : g = NewFlow("kick", Owner, t, "delete") /\ h = NewFlow("removed", t, t, "event")
    OBVIOUS
  <2>2. /\ flows \subseteq flows' /\ flows' \subseteq flows \union {g, h} /\ g \in flows' /\ t \in members \ {Owner}
        /\ UNCHANGED <<members, made, loaded, holds, cur>>
    BY <1>6, <2>1 DEF StartKick, server, client, keyMap, history
  <2>3. FirstMembers # {} /\ Together
    BY <1>4, <2>2 DEF Alone
  <2>4. g.op = "kick" /\ g.pc = "delete" /\ g.about = t /\ h.op = "removed" /\ h.who = t
    BY <2>1, NewFlows
  <2>5. Leaves(t)' /\ \A u : Leaves(u) => Leaves(u)'
    BY <2>2, <2>4 DEF Leaves, At
  <2>6. Between(g)' /\ Between(h)'
    BY <2>4, <2>5 DEF Between, UploadPCs, Deciding
  <2>7. \A f \in flows : Between(f)'
    BY <2>2, <2>3, <2>5 DEF Together, Between
  <2> QED BY <2>2, <2>3, <2>5, <2>6, <2>7 DEF Together
<1>7. ASSUME NEW f \in flows, CalmFlow(f) PROVE (IF FirstMembers = {} THEN Alone ELSE Together)'
  <2>1. CASE FirstMembers = {}
    <3>1. /\ f.op # "kick" /\ members = {Owner} /\ made = 1
      BY <1>4, <2>1 DEF Alone
    <3>2. UNCHANGED <<members, made>>
      BY <1>7, <3>1 DEF CalmFlow, At, KeyRequest, AcceptReply, RefreshRead, RefreshApply, LoadMember,
              LoadRead, LoadApply, WrapNext, KickDelete, KickList, KickCompute, KickReply, RemovedEvent, UploadRole,
              UploadCurrent, UploadWrite, UploadPartial, CreateReply, server, history
    <3>3. \A h \in flows' : h.op # "kick"
      BY <1>4, <1>7, <2>1, <3>1, Kinds DEF Alone
    <3> QED BY <1>4, <2>1, <3>1, <3>2, <3>3 DEF Alone
  <2>2. CASE FirstMembers # {}
    BY <1>1, <1>4, <1>7, <2>2, TogetherStep
  <2> QED BY <2>1, <2>2
<1> QED BY <1>1, <1>3, <1>5, <1>6, <1>7

-----------------------------------------------------------------------------
(* Once the second key is made with no invite out, its upload is under way   *)
(* and nothing is loading, or it is written and every member has it or is    *)
(* loading it.                                                               *)
Loads(u, e) == \E f \in flows : f.op = "load" /\ f.who = u /\ (f.pc = "apply" => f.got[e] # NoKey)

Rotating ==
  /\ current = 1 /\ \A f \in flows : f.op # "load"
  /\ \E f \in flows : f.op = "kick" /\ f.pc \in UploadPCs /\ (f.pc = "write" => f.rotating)

Rotated ==
  /\ current = 2
  /\ \A f \in flows : ~(f.op = "kick" /\ f.pc \in UploadPCs) /\ (At(f, "load", "apply") => f.seen = 2)
  /\ \A u \in members : wraps[u][2] # NoKey /\ (Loads(u, 2) \/ (holds[u][2] # NoKey /\ cur[u] = 2))

SecondKeyInv == since[2] \subseteq members /\ (Rotating \/ Rotated)
SecondInv == ~spent.faulty /\ made = 2 /\ ~invited /\ ~Kicking => SecondKeyInv

(* The step that makes the second key.                                       *)
LEMMA SecondMade ==
  ASSUME TypeInv, KeysInv, FlowsInv, Peace, Together, made = 1, NEW f \in flows, KickCompute(f)
  PROVE  SecondKeyInv'
<1>1. PICK g : g = [f EXCEPT !.pc = "role", !.epoch = cur[Owner] + 1, !.key = made + 1]
  OBVIOUS
<1>2. /\ f.op = "kick" /\ Step(f, g, {}) /\ UNCHANGED <<members, current>> /\ made < MaxKicks + 1
      /\ since' = [since EXCEPT ![made + 1] = members]
  BY <1>1 DEF KickCompute, At, server
<1>3. g.op = "kick" /\ g.pc = "role"
  BY <1>1, <1>2 DEF TypeInv, TypeOK, Flow
<1>4. since'[2] = members
  BY <1>2, ConstantsAssumption DEF TypeInv, TypeOK, Keys
<1>5. current = 1
  BY ConstantsAssumption DEF TypeInv, TypeOK, Bounded, Epochs
<1>6. \A h \in flows' : h.op # "load"
  BY <1>2, <1>3 DEF Step, Together, Between
<1>7. g \in flows'
  BY <1>2 DEF Step
<1> QED BY <1>2, <1>3, <1>4, <1>5, <1>6, <1>7 DEF SecondKeyInv, Rotating, UploadPCs

(* The steps of the flows after it.                                          *)
LEMMA SecondFlow ==
  ASSUME TypeInv, KeysInv, FlowsInv, Peace, Together, ~Kicking, made = 2, SecondKeyInv, NEW f \in flows, CalmFlow(f)
  PROVE  SecondKeyInv'
<1> USE ConstantsAssumption
<1>0. /\ flows \subseteq Flow /\ flows \subseteq Upto(made) /\ Keys = Epochs
      /\ 0 \notin Epochs /\ 1 \in Epochs /\ 2 \in Epochs /\ Epochs \subseteq Nat /\ current \in Epochs
      /\ holds \in [Users -> KeyMap] /\ wraps \in [Users -> KeyMap] /\ members \subseteq Users /\ Owner \in members
      /\ cur \in [Users -> Epochs \union {0}]
  BY FirstKeyType DEF TypeInv, TypeOK, Bounded, Keys, KeysInv
<1>1. /\ f \in Flow /\ Sound(f) /\ Fits(f) /\ Shaped(f) /\ Between(f) /\ f.who \in Users /\ f.about \in Users
      /\ f.key \in Keys \union {NoKey} /\ ~(f.op = "kick" /\ f.pc \in Deciding)
  <2>1. f \in Upto(made)
    BY <1>0
  <2> QED BY <1>0, <2>1, FlowFields DEF Peace, FlowsInv, Together, Kicking
<1>2. \A h \in flows : f.op = "kick" /\ h.op = "kick" => h = f
  BY DEF Peace
<1>3. \A u : ~Leaves(u)
  BY DEF Leaves, Kicking, At, Deciding
<1>4. \A u \in members : holds[u][1] # NoKey /\ cur[u] # 0
  BY <1>3 DEF Together
<1>5. UNCHANGED <<members, since>>
  BY <1>1 DEF CalmFlow, At, KeyRequest, AcceptReply, RefreshRead, RefreshApply, LoadMember, LoadRead, LoadApply,
              WrapNext, KickDelete, KickList, KickCompute, KickReply, RemovedEvent, UploadRole, UploadCurrent,
              UploadWrite, UploadPartial, CreateReply, server, history, Deciding
<1>6. ~RemovedEvent(f) => \A h \in flows : h # f => h \in flows'
  BY OthersGoOn
\* A step that writes nothing and that brings no key or load where there was none.
<1>a. ASSUME Rotating, UNCHANGED <<current>>, \A h \in flows' : h \in flows \/ h.op # "load",
             \E h \in flows' : h.op = "kick" /\ h.pc \in UploadPCs /\ (h.pc = "write" => h.rotating)
      PROVE  SecondKeyInv'
  BY <1>5, <1>a DEF SecondKeyInv, Rotating
<1>b. ASSUME Rotated, UNCHANGED <<current, wraps>>,
             \A h \in flows' : h \in flows \/ (~(h.op = "kick" /\ h.pc \in UploadPCs) /\ (At(h, "load", "apply") => h.seen = 2)),
             \A u \in members : Loads(u, 2) \/ (holds[u][2] # NoKey /\ cur[u] = 2) =>
                                  Loads(u, 2)' \/ (holds'[u][2] # NoKey /\ cur'[u] = 2)
      PROVE  SecondKeyInv'
  BY <1>5, <1>b DEF SecondKeyInv, Rotated
<1>c. f.op # "load" /\ ~RemovedEvent(f) => \A u : Loads(u, 2) => Loads(u, 2)'
  BY <1>6 DEF Loads
\* What a load carries, it carries on.
<1>l. ASSUME NEW g, f.op = "load", ~RemovedEvent(f), UNCHANGED <<holds, cur>>, g \in flows', g.op = "load", g.who = f.who,
             f.who \in members => ((f.pc = "apply" => f.got[2] # NoKey) => (g.pc = "apply" => g.got[2] # NoKey))
      PROVE  \A u \in members : Loads(u, 2) => Loads(u, 2)'
  BY <1>6, <1>l DEF Loads
<1>7. CASE LoadMember(f)
  <2>1. PICK g : g = [f EXCEPT !.pc = "read"]
    OBVIOUS
  <2>2. /\ f.op = "load" /\ UNCHANGED <<current, wraps, holds, cur>>
        /\ IF f.who \in members THEN Step(f, g, {}) ELSE End(f, {})
    BY <1>7, <2>1 DEF LoadMember, server, client, keyMap
  <2>3. g.op = "load" /\ g.who = f.who /\ g.pc = "read"
    BY <1>1, <2>1, <2>2 DEF Flow
  <2>4. ~RemovedEvent(f) /\ Rotated
    BY <2>2 DEF RemovedEvent, At, SecondKeyInv, Rotating
  <2>5. CASE f.who \in members
    <3>1. g \in flows' /\ \A h \in flows' : h \in flows \/ h = g
      BY <2>2, <2>5 DEF Step
    <3>2. \A u \in members : Loads(u, 2) => Loads(u, 2)'
      BY <1>l, <2>2, <2>3, <2>4, <3>1
    <3> QED BY <1>b, <2>2, <2>3, <2>4, <3>1, <3>2 DEF At
  <2>6. CASE f.who \notin members
    <3>1. \A h \in flows' : h \in flows
      BY <2>2, <2>6 DEF End
    <3>2. \A u \in members : Loads(u, 2) => Loads(u, 2)'
      BY <1>6, <2>4, <2>6 DEF Loads
    <3> QED BY <1>b, <2>2, <2>4, <3>1, <3>2
  <2> QED BY <2>5, <2>6
<1>8. CASE LoadRead(f)
  <2>1. PICK g : g = [f EXCEPT !.pc = "apply", !.seen = current, !.got = wraps[f.who]]
    OBVIOUS
  <2>2. f.op = "load" /\ Step(f, g, {}) /\ UNCHANGED <<current, wraps, holds, cur>>
    BY <1>8, <2>1 DEF LoadRead, At, server, client, keyMap
  <2>3. g.op = "load" /\ g.who = f.who /\ g.pc = "apply" /\ g.seen = current /\ g.got = wraps[f.who]
    BY <1>1, <2>1, <2>2 DEF Flow
  <2>4. ~RemovedEvent(f) /\ Rotated
    BY <2>2 DEF RemovedEvent, At, SecondKeyInv, Rotating
  <2>5. g \in flows' /\ \A h \in flows' : h \in flows \/ h = g
    BY <2>2 DEF Step
  <2>6. f.who \in members => g.got[2] # NoKey
    BY <2>3, <2>4 DEF Rotated
  <2>7. \A u \in members : Loads(u, 2) => Loads(u, 2)'
    BY <1>l, <2>2, <2>3, <2>4, <2>5, <2>6
  <2>8. g.seen = 2
    BY <2>3, <2>4 DEF Rotated
  <2> QED BY <1>b, <2>2, <2>3, <2>4, <2>5, <2>7, <2>8
<1>9. CASE LoadApply(f)
  <2>1. /\ f.op = "load" /\ f.pc = "apply" /\ End(f, {}) /\ UNCHANGED <<current, wraps>>
        /\ cur' = [cur EXCEPT ![f.who] = IF cur[f.who] = 0 THEN 0 ELSE f.seen]
        /\ holds' = [holds EXCEPT ![f.who] =
                       [e \in Epochs |-> IF holds[f.who][e] # NoKey THEN holds[f.who][e] ELSE f.got[e]]]
    BY <1>9 DEF LoadApply, At, server
  <2>2. ~RemovedEvent(f) /\ Rotated
    BY <2>1 DEF RemovedEvent, At, SecondKeyInv, Rotating
  <2>3. f.seen = 2
    BY <2>1, <2>2 DEF Rotated, At
  <2>4. ASSUME NEW u \in members, Loads(u, 2) \/ (holds[u][2] # NoKey /\ cur[u] = 2)
        PROVE  Loads(u, 2)' \/ (holds'[u][2] # NoKey /\ cur'[u] = 2)
    <3>1. CASE holds[u][2] # NoKey /\ cur[u] = 2
      BY <1>0, <1>1, <2>1, <2>3, <3>1
    <3>2. CASE u = f.who /\ f.got[2] # NoKey
      BY <1>0, <1>1, <1>4, <2>1, <2>3, <3>2
    <3>3. ASSUME NEW h \in flows, h # f, h.op = "load", h.who = u, h.pc = "apply" => h.got[2] # NoKey
          PROVE  Loads(u, 2)'
      BY <1>6, <2>2, <3>3 DEF Loads
    <3> QED BY <2>1, <2>4, <3>1, <3>2, <3>3 DEF Loads
  <2>5. \A h \in flows' : h \in flows
    BY <2>1 DEF End
  <2> QED BY <1>b, <2>1, <2>2, <2>4, <2>5
<1>10. CASE KickReply(f)
  <2>1. /\ f.op = "kick" /\ f.pc = "reply" /\ End(f, {}) /\ UNCHANGED <<current, wraps>>
        /\ \/ UNCHANGED <<holds, cur>>
           \/ /\ cur' = [cur EXCEPT ![Owner] = f.epoch]
              /\ holds' = [holds EXCEPT ![Owner] = [holds[Owner] EXCEPT ![f.epoch] = f.key]]
    BY <1>10 DEF KickReply, At, server, Together
  <2>2. f.epoch = 2 /\ f.key = 2
    BY <1>1, <2>1 DEF Between, Deciding
  <2>3. ~RemovedEvent(f) /\ Rotated
    BY <1>2, <2>1 DEF RemovedEvent, At, SecondKeyInv, Rotating, UploadPCs
  <2>4. \A u \in members : holds[u][2] # NoKey /\ cur[u] = 2 => holds'[u][2] # NoKey /\ cur'[u] = 2
    BY <1>0, <2>1, <2>2 DEF KeyMap, NoKey
  <2>5. \A h \in flows' : h \in flows
    BY <2>1 DEF End
  <2> QED BY <1>b, <1>c, <2>1, <2>3, <2>4, <2>5
<1>11. CASE RemovedEvent(f)
  <2>1. /\ f.op = "removed" /\ UNCHANGED <<current, wraps>>
        /\ holds' = [holds EXCEPT ![f.who] = NoKeys] /\ cur' = [cur EXCEPT ![f.who] = 0]
    BY <1>11 DEF RemovedEvent, At, server
  <2>2. f.who \notin members
    BY <1>1, <1>3, <2>1 DEF Between
  <2>3. \A h \in flows' : h \in flows
    <3>1. \A h \in flows : h.op # "wrap"
      BY DEF Together, Between
    <3> QED BY <1>11, <3>1 DEF RemovedEvent
  <2>4. \A h \in flows : h # f /\ h.op # "wrap" => h \in flows'
    BY OthersGoOn
  <2>5. \A u : Loads(u, 2) => Loads(u, 2)'
    BY <2>1, <2>4 DEF Loads
  <2>6. \A u \in members : holds'[u] = holds[u] /\ cur'[u] = cur[u]
    BY <1>0, <2>1, <2>2
  <2>7. CASE Rotating
    <3>1. PICK k \in flows : k.op = "kick" /\ k.pc \in UploadPCs /\ (k.pc = "write" => k.rotating)
      BY <2>7 DEF Rotating
    <3>2. k \in flows'
      BY <2>1, <2>4, <3>1
    <3> QED BY <1>a, <2>1, <2>3, <2>7, <3>1, <3>2
  <2>8. CASE Rotated
    BY <1>b, <2>1, <2>3, <2>5, <2>6, <2>8
  <2> QED BY <2>7, <2>8 DEF SecondKeyInv
\* The uploads: the one of the rotation, by the owner, of epoch 2.
<1>u. ASSUME f.pc \in UploadPCs
      PROVE  /\ Rotating /\ f.op = "kick" /\ f.who = Owner /\ f.epoch = 2 /\ f.key = 2 /\ f.targets = members
             /\ f.pc = "write" => f.rotating
  <2>1. f.op = "kick"
    BY <1>1, <1>u DEF Sound, Between
  <2>2. Rotating
    BY <1>u, <2>1 DEF SecondKeyInv, Rotated
  <2>3. f.pc = "write" => f.rotating
    BY <1>2, <2>1, <2>2 DEF Rotating
  <2> QED BY <1>1, <1>u, <2>1, <2>2, <2>3 DEF Shaped, Between, UploadPCs, Deciding
<1>12. CASE UploadRole(f)
  <2>1. PICK g : g = [f EXCEPT !.pc = "current"]
    OBVIOUS
  <2>2. f.pc = "role" /\ UNCHANGED current
    BY <1>12 DEF UploadRole, server
  <2>3. Rotating /\ f.op = "kick" /\ Step(f, g, {})
    BY <1>0, <1>12, <1>u, <2>1, <2>2 DEF UploadRole, UploadPCs
  <2>4. g.op = f.op /\ g.pc = "current"
    BY <1>1, <2>1 DEF Flow
  <2>5. g \in flows' /\ \A h \in flows' : h \in flows \/ h = g
    BY <2>3 DEF Step
  <2> QED BY <1>a, <2>2, <2>3, <2>4, <2>5 DEF UploadPCs
<1>13. CASE UploadCurrent(f)
  <2>1. PICK g : g = [f EXCEPT !.pc = "write", !.rotating = (f.epoch = current + 1)]
    OBVIOUS
  <2>2. f.pc = "current" /\ UNCHANGED current
    BY <1>13 DEF UploadCurrent, server
  <2>3. Rotating /\ f.op = "kick" /\ f.epoch = current + 1 /\ f.who = Owner
    BY <1>u, <2>2 DEF UploadPCs, Rotating
  <2>4. Step(f, g, {})
    BY <1>13, <2>1, <2>3 DEF UploadCurrent
  <2>5. g.op = f.op /\ g.pc = "write" /\ g.rotating
    BY <1>1, <2>1, <2>3 DEF Flow
  <2>6. g \in flows' /\ \A h \in flows' : h \in flows \/ h = g
    BY <2>4 DEF Step
  <2> QED BY <1>a, <2>2, <2>3, <2>5, <2>6 DEF UploadPCs
<1>14. CASE UploadWrite(f)
  <2>1. PICK g, new : g = Answer(f, TRUE) /\ new = {EventLoad(u) : u \in f.targets \intersect online}
    OBVIOUS
  <2>2. /\ f.pc = "write" /\ Step(f, g, new) /\ wraps' = Insert(f, f.targets)
        /\ current' = (IF f.rotating THEN f.epoch ELSE current)
    BY <1>14, <2>1 DEF UploadWrite
  <2>3. /\ Rotating /\ f.op = "kick" /\ f.epoch = 2 /\ f.key = 2 /\ f.targets = members /\ f.rotating
    BY <1>u, <2>2 DEF UploadPCs
  <2>4. g.op = "kick" /\ g.pc = "reply"
    BY <1>1, <2>1, <2>3 DEF Flow, Answer
  <2>5. \A u : EventLoad(u).op = "load" /\ EventLoad(u).who = u /\ EventLoad(u).pc = "event"
    BY NewFlows DEF EventLoad
  <2>6. \A h \in new : h.op = "load" /\ h.pc = "event"
    BY <2>1, <2>5
  <2>7. \A h \in flows' : (h \in flows /\ h # f) \/ h = g \/ h \in new
    BY <2>2 DEF Step
  <2>8. \A h \in flows' : ~(h.op = "kick" /\ h.pc \in UploadPCs) /\ ~At(h, "load", "apply")
    BY <1>2, <2>3, <2>4, <2>6, <2>7 DEF Rotating, At, UploadPCs
  <2>9. ASSUME NEW u \in members PROVE wraps'[u][2] # NoKey /\ Loads(u, 2)'
    <3>1. wraps'[u][2] # NoKey
      BY <1>0, <2>2, <2>3 DEF Insert, KeyMap, NoKey
    <3>2. u \in f.targets \intersect online
      BY <1>0, <2>3 DEF Peace
    <3>3. EventLoad(u) \in new
      BY <2>1, <3>2
    <3>4. EventLoad(u) \in flows'
      BY <2>2, <3>3 DEF Step
    <3> QED BY <2>5, <3>1, <3>4 DEF Loads
  <2> QED BY <1>5, <2>2, <2>3, <2>8, <2>9 DEF SecondKeyInv, Rotated
<1>15. ~UploadPartial(f)
  BY <1>u DEF UploadPartial, UploadPCs
<1>16. /\ ~KeyRequest(f) /\ ~AcceptReply(f) /\ ~RefreshRead(f) /\ ~RefreshApply(f) /\ ~WrapNext(f) /\ ~CreateReply(f)
       /\ ~KickDelete(f) /\ ~KickList(f) /\ ~KickCompute(f)
  BY <1>1 DEF Between, KeyRequest, AcceptReply, RefreshRead, RefreshApply, WrapNext, CreateReply, KickDelete,
              KickList, KickCompute, At, Deciding
<1> QED BY <1>7, <1>8, <1>9, <1>10, <1>11, <1>12, <1>13, <1>14, <1>15, <1>16 DEF CalmFlow

LEMMA SecondStep ==
  ASSUME TypeInv, KeysInv, FlowsInv, PeaceInv, QuietInv, SecondInv, [Next]_vars
  PROVE  SecondInv'
<1> SUFFICES ASSUME ~spent'.faulty, made' = 2, ~invited', ~Kicking' PROVE SecondKeyInv'
  BY DEF SecondInv
<1>0. made \in Nat
  BY FirstKeyType DEF TypeInv, TypeOK
<1>1. /\ ~spent.faulty /\ Peace
      /\ \/ UNCHANGED vars
         \/ CreateInvite
         \/ \E u \in Users : AcceptInvite(u) \/ StartKick(u)
         \/ \E f \in flows : CalmFlow(f)
  BY CalmSteps
<1>2. UNCHANGED invited \/ CreateInvite \/ \E u \in Users : AcceptInvite(u)
  BY <1>1 DEF vars, server, StartKick, CalmFlow, KeyRequest, AcceptReply, RefreshRead, RefreshApply, LoadMember,
              LoadRead, LoadApply, WrapNext, KickDelete, KickList, KickCompute, KickReply, RemovedEvent, UploadRole,
              UploadCurrent, UploadWrite, UploadPartial, CreateReply
<1>3. ~CreateInvite /\ ~invited /\ \A u \in Users : ~AcceptInvite(u)
  BY <1>2 DEF CreateInvite, AcceptInvite
<1>4. made' = made \/ (made' = made + 1 /\ \E f \in flows : KickCompute(f))
  BY MadeSteps
<1>5. IF FirstMembers = {} THEN Alone ELSE Together
  BY <1>0, <1>1, <1>3, <1>4 DEF QuietInv
<1>6. CASE made = 1
  <2>1. PICK f \in flows : KickCompute(f)
    BY <1>4, <1>6
  <2>2. Together
    BY <1>5, <2>1 DEF Alone, KickCompute, At
  <2> QED BY <1>1, <1>6, <2>1, <2>2, SecondMade
<1>7. CASE made = 2
  <2>1. ~Kicking
    BY <1>0, <1>7, KickingStays
  <2>2. SecondKeyInv /\ Together
    BY <1>1, <1>3, <1>5, <1>7, <2>1 DEF SecondInv, Alone
  <2>3. CASE UNCHANGED vars
    BY <2>2, <2>3 DEF vars, server, client, keyMap, history, SecondKeyInv, Rotating, Rotated, Loads
  <2>4. ASSUME NEW t \in Users, StartKick(t) PROVE FALSE
    <3>1. NewFlow("kick", Owner, t, "delete") \in flows'
      BY <2>4 DEF StartKick
    <3> QED BY <3>1, NewFlows DEF Kicking, Deciding
  <2>5. ASSUME NEW f \in flows, CalmFlow(f) PROVE SecondKeyInv'
    BY <1>1, <1>7, <2>1, <2>2, <2>5, SecondFlow
  <2> QED BY <1>1, <1>3, <2>3, <2>4, <2>5
<1> QED BY <1>0, <1>4, <1>6, <1>7

-----------------------------------------------------------------------------
(* The invariants together, and what they come to once nothing is in flight. *)
CalmInv == PeaceInv /\ FirstInv /\ QuietInv /\ SecondInv

LEMMA CalmInvariance == Spec => [](TypeInv /\ KeysInv /\ FlowsInv /\ EpochInv /\ CalmInv)
<1>1. Init => SecondInv
  BY DEF Init, StartWith, SecondInv
<1>2. Init => CalmInv
  BY <1>1, PeaceInit, FirstInit, QuietInit DEF CalmInv
<1>3. TypeInv /\ KeysInv /\ FlowsInv /\ CalmInv /\ [Next]_vars => CalmInv'
  BY PeaceStep, FirstStep, QuietStep, SecondStep DEF CalmInv
<1> QED BY <1>2, <1>3, KeysInvariance, PTL DEF Spec

LEMMA SettledCalm ==
  ASSUME TypeInv, KeysInv, EpochInv, CalmInv, Calm, Settled, ~JoinMetRotation, NEW u \in members
  PROVE  /\ current = made /\ cur[u] \in {0, made}
         /\ \A e \in 1..made : holds[u][e] = e
         /\ since[made] \subseteq members
<1> USE ConstantsAssumption
<1>1. /\ made \in Epochs /\ current \in Epochs /\ current <= made /\ u \in Users
      /\ cur[u] \in Epochs \union {0} /\ cur[u] <= made /\ Epochs \subseteq Nat \ {0}
  BY FirstKeyType DEF TypeInv, TypeOK, Bounded
<1>2. ~Kicking /\ ~spent.faulty /\ made <= 2 /\ flows = {}
  BY DEF Settled, Calm, Kicking
<1>3. \A e \in Epochs : holds[u][e] # NoKey => holds[u][e] = e
  BY <1>1, <1>2 DEF EpochInv, Plain
<1>4. CASE made = 1
  <2>1. FirstKeyInv
    BY <1>2, <1>4 DEF CalmInv, FirstInv
  <2>2. holds[u][1] # NoKey /\ since[1] \subseteq members
    BY <1>2, <2>1 DEF FirstKeyInv
  <2>3. current = 1 /\ cur[u] \in {0, 1} /\ 1..made = {1} /\ 1 \in Epochs
    <3>1. \A e \in Epochs \union {0} : e <= 1 => e \in {0, 1}
      BY DEF Epochs
    <3>2. current \in {0, 1} /\ cur[u] \in {0, 1}
      BY <1>1, <1>4, <3>1
    <3>3. current # 0
      BY <1>1
    <3>4. 1..made = {1}
      BY <1>4
    <3>5. 1 \in Epochs
      BY <1>1, <1>4
    <3> QED BY <3>2, <3>3, <3>4, <3>5
  <2> QED BY <1>3, <1>4, <2>2, <2>3
<1>5. CASE made = 2
  <2>1. ~invited
    BY <1>5 DEF JoinMetRotation
  <2>2. Together /\ SecondKeyInv
    BY <1>2, <1>5, <2>1 DEF CalmInv, QuietInv, SecondInv, Alone
  <2>3. /\ holds[u][1] # NoKey /\ since[2] \subseteq members /\ current = 2
        /\ holds[u][2] # NoKey /\ cur[u] = 2
    BY <1>2, <2>2 DEF Together, Leaves, SecondKeyInv, Rotating, Rotated, Loads
  <2>4. 1..made = {1, 2} /\ 1 \in Epochs /\ 2 \in Epochs
    BY <1>1, <1>5 DEF Epochs
  <2> QED BY <1>3, <1>5, <2>3, <2>4
<1> QED BY <1>1, <1>2, <1>4, <1>5

(* While nothing goes wrong and one removal at most has rotated the key,     *)
(* members end with every epoch and write with the current one (upload_keys, *)
(* wrapKeysFor, loadSpaceKeys).                                              *)
THEOREM MembersKeptUpHolds == Spec => []MembersKeptUpCalm
<1>1. TypeInv /\ KeysInv /\ EpochInv /\ CalmInv => MembersKeptUpCalm
  <2> SUFFICES ASSUME TypeInv, KeysInv, EpochInv, CalmInv, Calm, Settled, ~JoinMetRotation, NEW u \in members
               PROVE  (\A e \in 1..current : holds[u][e] # NoKey) /\ cur[u] \in {0, current}
    BY DEF MembersKeptUpCalm, MembersHaveKeys, MembersUseCurrent
  <2>1. /\ current = made /\ cur[u] \in {0, made} /\ \A e \in 1..made : holds[u][e] = e
    BY SettledCalm
  <2> QED BY <2>1 DEF NoKey
<1> QED BY <1>1, CalmInvariance, PTL

(* Under the same conditions nobody who was removed has the key that members *)
(* end up writing with (removeMember of the store).                          *)
THEOREM RotatedAfterRemovalHolds == Spec => []RotatedAfterRemovalCalm
<1>1. TypeInv /\ KeysInv /\ EpochInv /\ CalmInv => RotatedAfterRemovalCalm
  <2> SUFFICES ASSUME TypeInv, KeysInv, EpochInv, CalmInv, Calm, Settled, ~JoinMetRotation, NEW u \in members,
                      cur[u] # 0
               PROVE  since[holds[u][cur[u]]] \subseteq members
    BY DEF RotatedAfterRemovalCalm, RotatedAfterRemoval
  <2>1. /\ cur[u] = made /\ since[made] \subseteq members /\ \A e \in 1..made : holds[u][e] = e
    BY SettledCalm
  <2>2. made \in 1..made
    BY ConstantsAssumption DEF TypeInv, TypeOK, Keys
  <2> QED BY <2>1, <2>2
<1> QED BY <1>1, CalmInvariance, PTL
=============================================================================

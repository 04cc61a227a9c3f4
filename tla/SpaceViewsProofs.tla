-------------------------- MODULE SpaceViewsProofs --------------------------
(***************************************************************************)
(* However answers, events and the users' own writes are ordered, no list    *)
(* shows an item twice, object URLs are owned, and lists agree with the      *)
(* server once nothing is under way.                                         *)
(*                                                                           *)
(* Every step is first shown to be one of a few kinds (Step), in which the   *)
(* handlers are told apart only by what they do to requests, events, tables  *)
(* and lists.                                                                *)
(***************************************************************************)
EXTENDS SpaceViews, FiniteSetTheorems, SequenceTheorems, TLAPS

-----------------------------------------------------------------------------
(* Lists.                                                                    *)

\* The numbers of S up to i are counted by a natural number between 1 and the
\* size of S, and a larger element of S counts more of them.
LEMMA RankRises ==
  ASSUME NEW S \in SUBSET Nat, IsFiniteSet(S)
  PROVE  /\ \A i \in S : Cardinality({j \in S : j <= i}) \in 1..Cardinality(S)
         /\ \A i, k \in S : i < k => Cardinality({j \in S : j <= i}) < Cardinality({j \in S : j <= k})
<1>0. Cardinality(S) \in Nat
  BY FS_CardinalityType
<1>1. ASSUME NEW i \in S PROVE /\ IsFiniteSet({j \in S : j <= i}) /\ Cardinality({j \in S : j <= i}) \in 1..Cardinality(S)
  <2>1. {j \in S : j <= i} \in SUBSET S /\ {j \in S : j <= i} # {}
    OBVIOUS
  <2>2. IsFiniteSet({j \in S : j <= i}) /\ Cardinality({j \in S : j <= i}) <= Cardinality(S)
    BY <2>1, FS_Subset
  <2>3. Cardinality({j \in S : j <= i}) \in Nat /\ Cardinality({j \in S : j <= i}) # 0
    BY <2>1, <2>2, FS_CardinalityType, FS_EmptySet
  <2> QED BY <1>0, <2>2, <2>3
<1>2. ASSUME NEW i \in S, NEW k \in S, i < k
      PROVE  Cardinality({j \in S : j <= i}) < Cardinality({j \in S : j <= k})
  <2>0. i \in Nat /\ k \in Nat /\ k \in {j \in S : j <= k} /\ k \notin {j \in S : j <= i}
        /\ \A j \in S : j \in Nat
    BY <1>2
  <2>1. {j \in S : j <= i} \in SUBSET {j \in S : j <= k} /\ {j \in S : j <= i} # {j \in S : j <= k}
    <3>1. \A j \in S : j <= i => j <= k
      BY <1>2, <2>0
    <3> QED BY <2>0, <3>1
  <2>2. Cardinality({j \in S : j <= i}) <= Cardinality({j \in S : j <= k})
        /\ Cardinality({j \in S : j <= i}) # Cardinality({j \in S : j <= k})
    BY <1>1, <2>1, FS_Subset
  <2> QED BY <1>0, <1>1, <2>2
<1> QED BY <1>1, <1>2

\* The list of a finite set shows its elements, each once.
LEMMA SortedLists ==
  ASSUME NEW S \in SUBSET Nat, IsFiniteSet(S)
  PROVE  Sorted(S) \in Seq(S) /\ IsInjective(Sorted(S)) /\ ToSet(Sorted(S)) = S
<1> DEFINE N == Cardinality(S)
           rank == [i \in S |-> Cardinality({j \in S : j <= i})]
<1>0. N \in Nat
  BY FS_CardinalityType
<1>1. rank \in [S -> 1..N] /\ \A i, k \in S : i < k => rank[i] < rank[k]
  BY RankRises
<1>2. \A i, k \in S : rank[i] = rank[k] => i = k
  BY <1>0, <1>1
<1>3. IsFiniteSet(1..N) /\ Cardinality(1..N) = N
  BY <1>0, FS_Interval
<1>4. rank \in Injection(S, 1..N)
  BY <1>1, <1>2 DEF Injection, IsInjective
<1>5. rank \in Surjection(S, 1..N)
  BY <1>3, <1>4, FS_Injection
<1>6. \A n \in 1..N : \E i \in S : rank[i] = n
  BY <1>5 DEF Surjection
<1> HIDE DEF N
<1> DEFINE at == [n \in 1..N |-> CHOOSE i \in S : Cardinality({j \in S : j <= i}) = n]
<1>7. Sorted(S) = at
  BY DEF Sorted, N
<1>8. \A n \in 1..N : at[n] \in S /\ rank[at[n]] = n
  <2>1. \A n \in 1..N : \E i \in S : Cardinality({j \in S : j <= i}) = n
    BY <1>6
  <2>2. \A n \in 1..N : at[n] \in S /\ Cardinality({j \in S : j <= at[n]}) = n
    BY <2>1
  <2> HIDE DEF at
  <2> QED BY <2>2
<1>9. \A i \in S : at[rank[i]] = i
  BY <1>1, <1>2, <1>8
<1> HIDE DEF rank
<1>10. at \in [1..N -> S]
  BY <1>8
<1>12. at \in Seq(S)
  <2> HIDE DEF at
  <2> QED BY <1>0, <1>10
<1> HIDE DEF at
<1>11. DOMAIN at = 1..N
  BY DEF at
<1> QED
  BY <1>1, <1>7, <1>8, <1>9, <1>12, <1>11 DEF IsInjective, ToSet

\* Without an item a list shows the rest, and nothing twice that was not.
LEMMA WithoutLists ==
  ASSUME NEW q \in Seq(Nat), IsInjective(q), NEW i
  PROVE  Without(q, i) \in Seq(Nat) /\ IsInjective(Without(q, i)) /\ ToSet(Without(q, i)) = ToSet(q) \ {i}
<1> DEFINE K == {n \in DOMAIN q : q[n] # i}
           kept == Sorted(K)
<1>1. DOMAIN q = 1..Len(q) /\ Len(q) \in Nat /\ K \in SUBSET Nat
  OBVIOUS
<1>2. IsFiniteSet(K)
  <2>1. IsFiniteSet(1..Len(q))
    BY <1>1, FS_Interval
  <2>2. K \in SUBSET (1..Len(q))
    BY <1>1
  <2> QED BY <2>1, <2>2, FS_Subset
<1>3. kept \in Seq(K) /\ IsInjective(kept) /\ ToSet(kept) = K
  BY <1>1, <1>2, SortedLists
<1> DEFINE w == [n \in DOMAIN kept |-> q[kept[n]]]
<1>4. Without(q, i) = w
  BY DEF Without
<1> HIDE DEF kept
<1>5. DOMAIN kept = 1..Len(kept) /\ Len(kept) \in Nat /\ \A n \in DOMAIN kept : kept[n] \in K
  BY <1>3
<1>6. w \in Seq(Nat)
  BY <1>1, <1>5
<1>7. IsInjective(w)
  BY <1>1, <1>3, <1>5 DEF IsInjective
<1>8. ToSet(w) = {q[n] : n \in K}
  BY <1>3, <1>5 DEF ToSet
<1>9. {q[n] : n \in K} = ToSet(q) \ {i}
  BY DEF ToSet
<1> QED BY <1>4, <1>6, <1>7, <1>8, <1>9

\* Appending what is not shown.
LEMMA AppendLists ==
  ASSUME NEW q \in Seq(Nat), IsInjective(q), NEW i \in Nat, i \notin ToSet(q)
  PROVE  Append(q, i) \in Seq(Nat) /\ IsInjective(Append(q, i)) /\ ToSet(Append(q, i)) = ToSet(q) \union {i}
<1>1. /\ Append(q, i) \in Seq(Nat) /\ Len(q) \in Nat /\ DOMAIN q = 1..Len(q)
      /\ DOMAIN Append(q, i) = 1..(Len(q) + 1)
      /\ \A n \in 1..(Len(q) + 1) : Append(q, i)[n] = IF n = Len(q) + 1 THEN i ELSE q[n]
  OBVIOUS
<1>2. \A n \in 1..Len(q) : q[n] # i
  BY <1>1 DEF ToSet
<1>3. IsInjective(Append(q, i))
  BY <1>1, <1>2 DEF IsInjective
<1>4. ToSet(Append(q, i)) = ToSet(q) \union {i}
  BY <1>1 DEF ToSet
<1> QED BY <1>1, <1>3, <1>4

-----------------------------------------------------------------------------
(* The inductive invariant.                                                  *)

\* Kinds whose events tell an item, which the client puts into its list.
NewsKinds == {"messages", "channels", "stickers"}

Events == [kind : Kinds, op : {"add", "del"}, item : Nat, ver : Nat]
Requests == [u : Users, op : {"load", "fetch", "add", "del"}, kind : Kinds, item : Nat,
             pc : {"read", "write", "fan", "reply"}, ans : SUBSET Nat, ver : Nat, n : Nat]

\* The variables that matter here keep their types, and sets are finite.
Typed ==
  /\ table \in [Kinds -> SUBSET Nat] /\ reqs \in SUBSET Requests /\ IsFiniteSet(reqs)
  /\ wire \in [Users -> Seq(Events)] /\ online \in SUBSET Users
  /\ view \in [Users -> [Kinds -> Seq(Nat)]] /\ loaded \in [Users -> SUBSET Kinds]
  /\ urls \in [Users -> SUBSET Stickers] /\ objects \in [Users -> [Stickers -> Int]]
  /\ made \in [Kinds -> Nat] /\ ver \in [Kinds -> Nat] /\ heard \in [Users -> [Kinds -> Nat]]
  /\ \A k \in Kinds : IsFiniteSet(table[k])
  /\ \A r \in reqs : IsFiniteSet(r.ans)

\* What requests there are, and where in their handlers they can be.
Asked(r) ==
  /\ r.op \in {"load", "fetch"} => r.pc \in {"read", "reply"}
  /\ r.op = "fetch" => r.kind = "stickers" /\ r.item \in Stickers /\ r.ans \subseteq {r.item}
  /\ r.op \in {"add", "del"} => r.pc \in {"write", "fan", "reply"} /\ r.ans = {}
  /\ r.op \in {"add", "del"} /\ r.kind = "stickers" => r.u = Owner /\ r.item \in Stickers
  /\ r.op = "del" => r.kind \in {"members", "stickers"}
  /\ r.op = "del" /\ r.kind = "members" => r.u = Owner /\ r.item \in Users \ {Owner}
  /\ r.op = "add" /\ r.kind = "members" => r.item \in Users
  /\ r.ver <= ver[r.kind]

\* An event is about a change that has been made.
Wired(e) == e.ver <= ver[e.kind] /\ (e.kind = "stickers" => e.item \in Stickers)

\* Nothing is newer than the server, and the owner stays.
Placed ==
  /\ Owner \in Members /\ Members \subseteq Users /\ 0 \in table["channels"]
  /\ \A r \in reqs : Asked(r)
  /\ \A u \in Users : \A j \in DOMAIN wire[u] : Wired(wire[u][j])
  /\ \A u \in Users, k \in Kinds : heard[u][k] <= ver[k]

-----------------------------------------------------------------------------
(* Requests.                                                                 *)

\* z is the request q, whatever tells it from equal ones.
Like(z, q) ==
  /\ z \in Requests /\ z.u = q.u /\ z.op = q.op /\ z.kind = q.kind /\ z.item = q.item
  /\ z.pc = q.pc /\ z.ans = q.ans /\ z.ver = q.ver

\* There is a number left for one more request.
LEMMA WithAdds ==
  ASSUME NEW rs \in SUBSET Requests, IsFiniteSet(rs), NEW q \in Requests
  PROVE  \E z \in Requests : With(rs, q) = rs \union {z} /\ Like(z, q)
<1> DEFINE same == {r \in rs : [r EXCEPT !.n = 0, !.pc = q.pc, !.ans = {}, !.ver = 0] = q}
           free == CHOOSE n \in 0..Cardinality(same) : \A r \in same : r.n # n
           z == [q EXCEPT !.n = free]
<1>1. With(rs, q) = rs \union {z}
  BY DEF With
<1>2. IsFiniteSet(same) /\ same \in SUBSET rs
  BY FS_Subset
<1> HIDE DEF same
<1> DEFINE c == Cardinality(same)
<1>3. c \in Nat /\ IsFiniteSet(0..c) /\ Cardinality(0..c) = c + 1
  BY <1>2, FS_CardinalityType, FS_Interval
<1>4. \E n \in 0..c : \A r \in same : r.n # n
  <2>1. SUFFICES ASSUME \A n \in 0..c : \E r \in same : r.n = n PROVE FALSE
    OBVIOUS
  <2> DEFINE f == [n \in 0..c |-> CHOOSE r \in same : r.n = n]
  <2>2. \A n \in 0..c : f[n] \in same /\ f[n].n = n
    BY <2>1
  <2>3. f \in [0..c -> same]
    BY <2>2
  <2>4. Cardinality(same) < Cardinality(0..c)
    BY <1>3
  <2> HIDE DEF c, f
  <2>5. \E x, y \in 0..c : x # y /\ f[x] = f[y]
    BY <1>2, <1>3, <2>3, <2>4, FS_PigeonHole
  <2> QED BY <2>2, <2>5
<1>5. free \in Nat
  BY <1>3, <1>4
<1> HIDE DEF free
<1>6. z \in Requests /\ Like(z, q)
  BY <1>5 DEF Requests, Like
<1> QED BY <1>1, <1>6

\* A fresh request is well-formed.
LEMMA RequestTyped ==
  ASSUME NEW u \in Users, NEW op \in {"load", "fetch", "add", "del"}, NEW k \in Kinds, NEW i \in Nat,
         NEW pc \in {"read", "write", "fan", "reply"}, NEW q, q = Request(u, op, k, i, pc)
  PROVE  /\ q \in Requests /\ q.u = u /\ q.op = op /\ q.kind = k /\ q.item = i /\ q.pc = pc
         /\ q.ans = {} /\ q.ver = 0
BY DEF Request, Requests

-----------------------------------------------------------------------------
(* What the steps do, one definition for each kind of step.                  *)

shown == <<view, loaded, urls, objects>>

\* A new item is made and asked to be added.
NewItem(z) ==
  /\ z.op = "add" /\ z.kind \in NewsKinds /\ z.pc = "write" /\ z.item = made[z.kind] + 1
  /\ z.kind = "stickers" => z.u = Owner /\ z.item \in Stickers
  /\ made' = [made EXCEPT ![z.kind] = @ + 1]

\* Anything else that a user asks for.
OldItem(z) ==
  /\ UNCHANGED made
  /\ \/ z.op = "add" /\ z.kind = "members" /\ z.pc = "write" /\ z.item \in Users
     \/ z.op = "del" /\ z.kind = "members" /\ z.pc = "fan" /\ z.u = Owner /\ z.item \in Users \ {Owner}
     \/ z.op = "del" /\ z.kind = "stickers" /\ z.pc = "write" /\ z.u = Owner /\ z.item \in Stickers
     \/ z.op = "load" /\ z.pc = "read"
     \/ z.op = "fetch" /\ z.kind = "stickers" /\ z.pc = "read" /\ z.item \in Stickers /\ ~Cached(z.u, z.item)

AskStep ==
  \E z \in Requests :
    /\ reqs' = reqs \union {z} /\ z.ans = {} /\ z.ver = 0
    /\ NewItem(z) \/ OldItem(z)
    /\ UNCHANGED <<table, wire, online, shown, ver, heard, behind>>

\* z is r, further on in its handler.
Turned(r, z, pc) ==
  /\ z \in Requests /\ z.u = r.u /\ z.op = r.op /\ z.kind = r.kind /\ z.item = r.item /\ z.pc = pc
  /\ reqs' = (reqs \ {r}) \union {z}

InsertStep(r) ==
  /\ r.op = "add" /\ r.pc = "write" /\ (r.kind = "members" => r.item \notin Members)
  /\ table' = [table EXCEPT ![r.kind] = @ \union {r.item}] /\ ver' = [ver EXCEPT ![r.kind] = @ + 1]
  /\ \E z \in Requests : Turned(r, z, "fan") /\ z.ans = {} /\ z.ver = ver[r.kind] + 1
  /\ UNCHANGED <<wire, online, shown, made, heard, behind>>

DeleteStep(r) ==
  /\ r.op = "del" /\ r.pc = "write" /\ r.item \in table[r.kind]
  /\ table' = [table EXCEPT ![r.kind] = @ \ {r.item}] /\ ver' = [ver EXCEPT ![r.kind] = @ + 1]
  /\ \E z \in Requests : /\ Turned(r, z, IF r.kind = "members" THEN "reply" ELSE "fan")
                         /\ z.ans = {} /\ z.ver = ver[r.kind] + 1
  /\ behind' = IF r.kind = "members" THEN behind \union ({r.item} \X Kinds) ELSE behind
  /\ UNCHANGED <<wire, online, shown, made, heard>>

\* A member already, or nothing to delete.
NoStep(r) ==
  /\ r.pc = "write" /\ r.op \in {"add", "del"}
  /\ \/ r.op = "add" /\ r.kind = "members" /\ \E z \in Requests : Turned(r, z, "reply") /\ z.ans = {} /\ z.ver = r.ver
     \/ r.op = "del" /\ r.item \notin table[r.kind] /\ reqs' = reqs \ {r}
  /\ behind' = IF r.op = "del" /\ r.kind = "members" THEN behind \union ({r.item} \X Kinds) ELSE behind
  /\ UNCHANGED <<table, ver, wire, online, shown, made, heard>>

FanStep(r) ==
  /\ r.pc = "fan" /\ r.op \in {"add", "del"}
  /\ \E z \in Requests :
       /\ Turned(r, z, IF r.op = "del" /\ r.kind = "members" THEN "write" ELSE "reply")
       /\ z.ans = {} /\ z.ver = r.ver
  /\ \E e \in Events :
       /\ e.kind = r.kind /\ e.op = r.op /\ e.item = r.item
       /\ e.ver = IF r.op = "del" /\ r.kind = "members" THEN ver["members"] ELSE r.ver
       /\ wire' = [u \in Users |-> IF u \in Members \intersect online THEN Append(wire[u], e) ELSE wire[u]]
  /\ behind' = behind \union {<<u, r.kind>> : u \in Members \ online}
  /\ UNCHANGED <<table, online, shown, made, ver, heard>>

ReadStep(r) ==
  /\ r.pc = "read" /\ r.op \in {"load", "fetch"}
  /\ \/ r.u \notin Members /\ r.kind # "channels" /\ reqs' = reqs \ {r}
     \/ \E z \in Requests :
          /\ Turned(r, z, "reply") /\ z.ver = ver[r.kind]
          /\ \/ r.u \notin Members /\ r.kind = "channels" /\ z.ans = {}
             \/ r.u \in Members /\ r.op = "load" /\ z.ans = table[r.kind]
             \/ r.u \in Members /\ r.op = "fetch" /\ z.ans = table[r.kind] \intersect {r.item}
  /\ behind' = IF BeforeRemoval(r) THEN behind \union {<<r.u, r.kind>>} ELSE behind
  /\ UNCHANGED <<table, wire, online, shown, made, ver, heard>>

\* A list asked for again.
Reload(z) == z.op = "load" /\ z.pc = "read" /\ z.ans = {} /\ z.ver = 0

\* The space is not in the answer.
Outsider(r) == r.kind = "channels" /\ r.ans = {}

Replied(r) ==
  /\ behind' = IF (r.op \in {"load", "fetch"} \/ r.kind = "stickers") /\ r.ver < heard[r.u][r.kind]
                 THEN behind \union {<<r.u, r.kind>>} ELSE behind
  /\ heard' = Later(r.u, r.kind, r.ver)
  /\ UNCHANGED <<table, wire, online, made, ver>>

\* An answer is done with, perhaps with a list to be loaded next.
Finished(r) == \/ reqs' = reqs \ {r}
               \/ \E z \in Requests : reqs' = (reqs \ {r}) \union {z} /\ Reload(z)

LoadStep(r) ==
  /\ r.pc = "reply" /\ r.op = "load" /\ Finished(r) /\ Replied(r)
  /\ view' = [view EXCEPT ![r.u][r.kind] = Sorted(r.ans)]
  /\ loaded' = [loaded EXCEPT ![r.u] = IF Outsider(r) THEN @ \ {r.kind} ELSE @ \union {r.kind}]
  /\ UNCHANGED <<urls, objects>>

FetchStep(r) ==
  /\ r.pc = "reply" /\ r.op = "fetch" /\ reqs' = reqs \ {r} /\ Replied(r)
  /\ \/ UNCHANGED <<urls, objects>>
     \/ /\ r.ans # {} /\ urls' = [urls EXCEPT ![r.u] = @ \union {r.item}]
        /\ objects' = [objects EXCEPT ![r.u][r.item] = @ + 1]
  /\ UNCHANGED <<view, loaded>>

WriterStep(r) ==
  /\ r.pc = "reply" /\ r.op \in {"add", "del"} /\ Finished(r) /\ Replied(r)
  /\ \/ r.kind # "stickers" /\ UNCHANGED shown
     \/ /\ r.kind = "stickers" /\ r.op = "add"
        /\ view' = IF Shows(r.u, "stickers", r.item) THEN view
                    ELSE [view EXCEPT ![r.u]["stickers"] = Append(@, r.item)]
        /\ loaded' = [loaded EXCEPT ![r.u] = @ \union {"stickers"}]
        /\ UNCHANGED <<urls, objects>>
     \/ /\ r.kind = "stickers" /\ r.op = "del"
        /\ view' = [view EXCEPT ![r.u]["stickers"] = Without(@, r.item)]
        /\ Revoked(r.u, r.item) /\ UNCHANGED loaded

HearStep(u) ==
  /\ wire[u] # <<>> /\ wire' = [wire EXCEPT ![u] = Tail(@)]
  /\ LET e == Head(wire[u])
     IN /\ heard' = Later(u, e.kind, e.ver)
        /\ behind' = IF e.kind = "stickers" /\ e.ver < heard[u][e.kind]
                       THEN behind \union {<<u, e.kind>>} ELSE behind
        /\ \/ /\ e.kind = "members" /\ e.op = "del" /\ e.item = u
              /\ loaded' = [loaded EXCEPT ![u] = @ \ {"channels"}]
              /\ UNCHANGED <<view, urls, objects, reqs>>
           \/ /\ e.kind = "members"
              /\ \E z \in Requests : reqs' = reqs \union {z} /\ Reload(z) /\ z.u = u /\ z.kind = "members"
              /\ UNCHANGED shown
           \/ /\ e.kind # "members" /\ e.op = "add"
              /\ view' = IF Fresh(u, e.kind, e.item) THEN [view EXCEPT ![u][e.kind] = Append(@, e.item)]
                          ELSE view
              /\ UNCHANGED <<loaded, urls, objects, reqs>>
           \/ /\ e.kind = "stickers" /\ e.op = "del"
              /\ view' = [view EXCEPT ![u]["stickers"] = Without(@, e.item)]
              /\ Revoked(u, e.item) /\ UNCHANGED <<loaded, reqs>>
  /\ UNCHANGED <<table, online, made, ver>>

DropStep(u) ==
  /\ wire' = [wire EXCEPT ![u] = <<>>] /\ online' = online \ {u}
  /\ behind' = behind \union {<<u, wire[u][j].kind>> : j \in DOMAIN wire[u]}
  /\ UNCHANGED <<table, reqs, shown, made, ver, heard>>

\* A key arrives, a WebSocket opens, or nothing happens.
IdleStep ==
  /\ online' \in SUBSET Users
  /\ UNCHANGED <<table, reqs, wire, shown, made, ver, heard, behind>>

Step ==
  \/ AskStep \/ IdleStep
  \/ \E r \in reqs : \/ InsertStep(r) \/ DeleteStep(r) \/ NoStep(r) \/ FanStep(r) \/ ReadStep(r)
                      \/ LoadStep(r) \/ FetchStep(r) \/ WriterStep(r)
  \/ \E u \in Users : HearStep(u) \/ DropStep(u)

-----------------------------------------------------------------------------
(* Every step is one of these.                                               *)

LEMMA KindsAre == Kinds = {"messages", "channels", "members", "stickers"} /\ Owner = 1
BY DEF Kinds, Owner

LEMMA AsksAre ==
  ASSUME Typed, Placed, NEW q \in Requests, q.ans = {}, q.ver = 0, Ask(q), NewItem(q) \/ OldItem(q)
  PROVE  AskStep
<1>1. PICK z \in Requests : With(reqs, q) = reqs \union {z} /\ Like(z, q)
  BY WithAdds DEF Typed
<1>2. NewItem(z) \/ OldItem(z)
  BY <1>1 DEF NewItem, OldItem, Like
<1> QED
  BY <1>1, <1>2 DEF AskStep, Ask, Like, shown, client, history

LEMMA UserAsks ==
  ASSUME Typed, Placed, NEW u \in Users, User(u)
  PROVE  AskStep
<1>1. CASE SendMessage(u)
  <2> DEFINE q == Request(u, "add", "messages", made["messages"] + 1, "write")
  <2>0. q \in Requests /\ q.u = u /\ q.op = "add" /\ q.kind = "messages" /\ q.item = made["messages"] + 1
        /\ q.pc = "write" /\ q.ans = {} /\ q.ver = 0
    <3>1. made["messages"] + 1 \in Nat /\ "messages" \in Kinds
      BY KindsAre DEF Typed
    <3> QED BY <3>1, RequestTyped
  <2>1. Ask(q) /\ made' = [made EXCEPT !["messages"] = @ + 1]
    BY <1>1 DEF SendMessage, Make
  <2> HIDE DEF q
  <2> QED BY <2>0, <2>1, AsksAre DEF NewItem, NewsKinds
<1>2. CASE AcceptInvite(u)
  <2> DEFINE q == Request(u, "add", "members", u, "write")
  <2>0. q \in Requests /\ q.u = u /\ q.op = "add" /\ q.kind = "members" /\ q.item = u
        /\ q.pc = "write" /\ q.ans = {} /\ q.ver = 0
    <3>1. u \in Nat /\ "members" \in Kinds
      BY KindsAre, ConstantsAssumption
    <3> QED BY <3>1, RequestTyped
  <2>1. Ask(q) /\ UNCHANGED made
    BY <1>2 DEF AcceptInvite
  <2> HIDE DEF q
  <2> QED BY <2>0, <2>1, AsksAre DEF OldItem
<1>3. CASE \E k \in {"messages", "stickers"} : Open(u, k)
  <2>0. PICK k \in {"messages", "stickers"} : Open(u, k)
    BY <1>3
  <2> DEFINE q == Load(u, k)
  <2>1. q \in Requests /\ q.u = u /\ q.op = "load" /\ q.kind = k /\ q.item = 0
        /\ q.pc = "read" /\ q.ans = {} /\ q.ver = 0
    BY RequestTyped, KindsAre DEF Load
  <2>2. Ask(q) /\ UNCHANGED made
    BY <2>0 DEF Open
  <2> HIDE DEF q
  <2> QED BY <2>1, <2>2, AsksAre DEF OldItem
<1>4. CASE \E s \in Stickers : Show(u, s)
  <2>0. PICK s \in Stickers : Show(u, s)
    BY <1>4
  <2> DEFINE q == Request(u, "fetch", "stickers", s, "read")
  <2>1. q \in Requests /\ q.u = u /\ q.op = "fetch" /\ q.kind = "stickers" /\ q.item = s
        /\ q.pc = "read" /\ q.ans = {} /\ q.ver = 0
    <3>1. s \in Nat /\ "stickers" \in Kinds
      BY KindsAre, ConstantsAssumption
    <3> QED BY <3>1, RequestTyped
  <2>2. Ask(q) /\ UNCHANGED made /\ ~Cached(u, s)
    BY <2>0 DEF Show
  <2> HIDE DEF q
  <2> QED BY <2>1, <2>2, AsksAre DEF OldItem
<1> QED BY <1>1, <1>2, <1>3, <1>4 DEF User

LEMMA OwnerAsks ==
  ASSUME Typed, Placed, OwnerOnly
  PROVE  AskStep
<1>0. Owner \in Users /\ Owner \in Nat
  BY ConstantsAssumption DEF Owner
<1>1. ASSUME NEW k \in {"channels", "stickers"}, Make(Owner, k), k = "stickers" => made[k] + 1 \in Stickers
      PROVE  AskStep
  <2> DEFINE q == Request(Owner, "add", k, made[k] + 1, "write")
  <2>1. q \in Requests /\ q.u = Owner /\ q.op = "add" /\ q.kind = k /\ q.item = made[k] + 1
        /\ q.pc = "write" /\ q.ans = {} /\ q.ver = 0
    <3>1. made[k] + 1 \in Nat /\ k \in Kinds
      BY KindsAre DEF Typed
    <3> QED BY <1>0, <3>1, RequestTyped
  <2>2. Ask(q) /\ made' = [made EXCEPT ![k] = @ + 1]
    BY <1>1 DEF Make
  <2> HIDE DEF q
  <2> QED BY <1>1, <2>1, <2>2, AsksAre DEF NewItem, NewsKinds
<1>2. CASE \E i \in Users : RemoveMember(i)
  <2>0. PICK i \in Users : RemoveMember(i)
    BY <1>2
  <2> DEFINE q == Request(Owner, "del", "members", i, "fan")
  <2>1. q \in Requests /\ q.u = Owner /\ q.op = "del" /\ q.kind = "members" /\ q.item = i
        /\ q.pc = "fan" /\ q.ans = {} /\ q.ver = 0
    <3>1. i \in Nat /\ "members" \in Kinds
      BY KindsAre, ConstantsAssumption
    <3> QED BY <1>0, <3>1, RequestTyped
  <2>2. Ask(q) /\ UNCHANGED made /\ i # Owner
    BY <2>0 DEF RemoveMember
  <2> HIDE DEF q
  <2> QED BY <2>1, <2>2, AsksAre DEF OldItem
<1>3. CASE \E s \in Stickers : DeleteSticker(s)
  <2>0. PICK s \in Stickers : DeleteSticker(s)
    BY <1>3
  <2> DEFINE q == Request(Owner, "del", "stickers", s, "write")
  <2>1. q \in Requests /\ q.u = Owner /\ q.op = "del" /\ q.kind = "stickers" /\ q.item = s
        /\ q.pc = "write" /\ q.ans = {} /\ q.ver = 0
    <3>1. s \in Nat /\ "stickers" \in Kinds
      BY KindsAre, ConstantsAssumption
    <3> QED BY <1>0, <3>1, RequestTyped
  <2>2. Ask(q) /\ UNCHANGED made
    BY <2>0 DEF DeleteSticker
  <2> HIDE DEF q
  <2> QED BY <2>1, <2>2, AsksAre DEF OldItem
<1> QED BY <1>1, <1>2, <1>3 DEF OwnerOnly, CreateChannel, AddSticker

\* What is known of a request under way.
LEMMA RequestFields ==
  ASSUME Typed, Placed, NEW r \in reqs
  PROVE  /\ r \in Requests /\ Asked(r) /\ r.u \in Users /\ r.kind \in Kinds /\ r.item \in Nat /\ r.ver \in Nat
         /\ r.op \in {"load", "fetch", "add", "del"} /\ r.pc \in {"read", "write", "fan", "reply"}
         /\ r.ans \in SUBSET Nat /\ IsFiniteSet(r.ans)
BY DEF Typed, Placed, Requests

\* A request moves on to another section.
LEMMA TurnsOnly ==
  ASSUME Typed, NEW r \in reqs, NEW pc \in {"read", "write", "fan", "reply"},
         NEW z, z = [r EXCEPT !.pc = pc], Became(r, z)
  PROVE  z \in Requests /\ Turned(r, z, pc) /\ z.ans = r.ans /\ z.ver = r.ver
<1>0. r \in Requests
  BY DEF Typed
<1> QED BY <1>0 DEF Became, Turned, Requests

LEMMA WritesAre ==
  ASSUME Typed, Placed, NEW r \in reqs, Write(r)
  PROVE  InsertStep(r) \/ DeleteStep(r) \/ NoStep(r)
<1>0. /\ r \in Requests /\ r.u \in Users /\ r.kind \in Kinds /\ r.item \in Nat /\ Asked(r) /\ r.pc = "write"
      /\ r.ver \in Nat /\ ver[r.kind] \in Nat /\ ver[r.kind] + 1 \in Nat
  BY RequestFields DEF Write, Typed
<1>1. /\ UNCHANGED <<wire, online, shown, made, heard>>
      /\ behind' = IF Removal(r) THEN behind \union ({r.item} \X Kinds) ELSE behind
  BY DEF Write, client, shown
<1>2. ASSUME NEW now, Wrote(r, now), r.op \in {"add", "del"}
      PROVE  /\ table' = [table EXCEPT ![r.kind] = now] /\ ver' = [ver EXCEPT ![r.kind] = @ + 1]
             /\ \E z \in Requests : Turned(r, z, Written(r)) /\ z.ans = {} /\ z.ver = ver[r.kind] + 1
  <2>1. r.ans = {} /\ Written(r) \in {"reply", "fan"}
    BY <1>0, <1>2 DEF Asked, Written
  <2>2. Became(r, [r EXCEPT !.pc = Written(r), !.ver = ver[r.kind] + 1])
    BY <1>2 DEF Wrote
  <2> HIDE DEF Written
  <2>3. \E z \in Requests : Turned(r, z, Written(r)) /\ z.ans = {} /\ z.ver = ver[r.kind] + 1
    <3>1. PICK pc \in {"read", "write", "fan", "reply"}, v \in Nat : pc = Written(r) /\ v = ver[r.kind] + 1
      BY <1>0, <2>1
    <3>2. PICK z : z = [r EXCEPT !.pc = pc, !.ver = v]
      OBVIOUS
    <3>3. Became(r, z)
      BY <2>2, <3>1, <3>2
    <3>4. z \in Requests /\ Turned(r, z, pc) /\ z.ans = r.ans /\ z.ver = v
      BY <1>0, <3>2, <3>3 DEF Became, Turned, Requests
    <3> QED BY <2>1, <3>1, <3>4
  <2> QED BY <1>2, <2>3 DEF Wrote
<1>3. ASSUME NEW k \in Kinds, Insert(r, k), k = "members" => r.item \notin Members
      PROVE  InsertStep(r)
  <2>1. r.op = "add" /\ r.kind = k /\ Wrote(r, table[k] \union {r.item})
    BY <1>3 DEF Insert
  <2>2. Written(r) = "fan" /\ ~Removal(r)
    BY <2>1 DEF Written, Removal
  <2> QED BY <1>0, <1>1, <1>2, <1>3, <2>1, <2>2 DEF InsertStep
<1>4. ASSUME NEW k \in Kinds, Delete(r, k)
      PROVE  DeleteStep(r) \/ NoStep(r)
  <2>1. r.op = "del" /\ r.kind = k
    BY <1>4 DEF Delete
  <2>2. Written(r) = (IF r.kind = "members" THEN "reply" ELSE "fan") /\ (Removal(r) <=> r.kind = "members")
    BY <2>1 DEF Written, Removal
  <2>3. CASE r.item \in table[k]
    <3>1. Wrote(r, table[k] \ {r.item})
      BY <1>4, <2>3 DEF Delete
    <3> QED BY <1>0, <1>1, <1>2, <2>1, <2>2, <2>3, <3>1 DEF DeleteStep
  <2>4. CASE r.item \notin table[k]
    <3>1. reqs' = reqs \ {r} /\ UNCHANGED <<table, ver>>
      BY <1>4, <2>4 DEF Delete
    <3> QED BY <1>0, <1>1, <2>1, <2>2, <2>4, <3>1 DEF NoStep
  <2> QED BY <2>3, <2>4
<1>5. CASE InsertMember(r)
  <2>1. CASE r.op = "add" /\ r.kind = "members" /\ r.item \in Members
    <3>1. Became(r, [r EXCEPT !.pc = "reply"]) /\ UNCHANGED <<table, ver>>
      BY <1>5, <2>1 DEF InsertMember
    <3>2. \E z \in Requests : Turned(r, z, "reply") /\ z.ans = r.ans /\ z.ver = r.ver
      BY <3>1, TurnsOnly
    <3>3. r.ans = {} /\ ~Removal(r)
      BY <1>0, <2>1 DEF Asked, Removal
    <3> QED BY <1>0, <1>1, <2>1, <3>1, <3>2, <3>3 DEF NoStep
  <2>2. CASE ~(r.op = "add" /\ r.kind = "members" /\ r.item \in Members)
    <3>1. Insert(r, "members")
      BY <1>5, <2>2 DEF InsertMember
    <3> QED BY <1>3, <2>2, <3>1, KindsAre DEF Insert
  <2> QED BY <2>1, <2>2
<1> QED
  BY <1>3, <1>4, <1>5, KindsAre DEF Write, PostMessage, InsertChannel, InsertSticker, DeleteMember, DeleteStickerRow

LEMMA FansAre ==
  ASSUME Typed, Placed, NEW r \in reqs, Fan(r)
  PROVE  FanStep(r)
<1>0. /\ r.u \in Users /\ r.kind \in Kinds /\ r.item \in Nat /\ Asked(r) /\ r.pc = "fan" /\ r.ver \in Nat
      /\ r.op \in {"add", "del"} /\ r.ans = {}
  BY RequestFields DEF Fan, Asked
<1> DEFINE v == IF Removal(r) THEN ver["members"] ELSE r.ver
           e == [kind |-> r.kind, op |-> r.op, item |-> r.item, ver |-> v]
           pc == IF Removal(r) THEN "write" ELSE "reply"
<1>1. /\ wire' = [u \in Users |-> IF u \in Members \intersect online THEN Append(wire[u], e) ELSE wire[u]]
      /\ behind' = behind \union {<<u, r.kind>> : u \in Members \ online}
      /\ Became(r, [r EXCEPT !.pc = pc])
      /\ UNCHANGED <<table, online, shown, made, ver, heard>>
  BY DEF Fan, client, shown
<1>2. v \in Nat
  BY <1>0, KindsAre DEF Typed
<1>3. Removal(r) <=> (r.op = "del" /\ r.kind = "members")
  BY DEF Removal
<1>4. \E z \in Requests : Turned(r, z, pc) /\ z.ans = {} /\ z.ver = r.ver
  <2>1. PICK p \in {"read", "write", "fan", "reply"} : p = pc
    OBVIOUS
  <2>2. PICK z : z = [r EXCEPT !.pc = p]
    OBVIOUS
  <2>3. Became(r, z)
    BY <1>1, <2>1, <2>2
  <2>4. z \in Requests /\ Turned(r, z, p) /\ z.ans = r.ans /\ z.ver = r.ver
    BY <2>2, <2>3, TurnsOnly
  <2> QED BY <1>0, <2>1, <2>4
<1>5. e \in Events /\ e.kind = r.kind /\ e.op = r.op /\ e.item = r.item /\ e.ver = v
  BY <1>0, <1>2 DEF Events
<1> HIDE DEF e
<1> QED BY <1>0, <1>1, <1>3, <1>4, <1>5 DEF FanStep

LEMMA ReadsAre ==
  ASSUME Typed, Placed, NEW r \in reqs, Read(r)
  PROVE  ReadStep(r)
<1>0. /\ r \in Requests /\ r.u \in Users /\ r.kind \in Kinds /\ r.item \in Nat /\ Asked(r) /\ r.pc = "read"
      /\ r.op \in {"load", "fetch"} /\ ver[r.kind] \in Nat /\ table[r.kind] \in SUBSET Nat
  BY RequestFields DEF Read, Asked, Typed
<1>1. /\ behind' = IF BeforeRemoval(r) THEN behind \union {<<r.u, r.kind>>} ELSE behind
      /\ UNCHANGED <<table, wire, online, shown, made, ver, heard>>
  BY DEF Read, client, shown
<1>2. ASSUME NEW is \in SUBSET Nat, Answers(r, is)
      PROVE  \E z \in Requests : Turned(r, z, "reply") /\ z.ver = ver[r.kind] /\ z.ans = is
  <2>1. PICK z : z = [r EXCEPT !.pc = "reply", !.ver = ver[r.kind], !.ans = is]
    OBVIOUS
  <2>2. Became(r, z)
    BY <1>2, <2>1 DEF Answers
  <2>3. z \in Requests /\ Turned(r, z, "reply") /\ z.ans = is /\ z.ver = ver[r.kind]
    BY <1>0, <2>1, <2>2 DEF Became, Turned, Requests
  <2> QED BY <2>3
<1>3. Refused(r) => r.u \notin Members /\ r.kind # "channels" /\ reqs' = reqs \ {r}
  BY DEF Refused
<1>4. ASSUME ListSpaces(r) PROVE /\ r.kind = "channels" /\ r.op = "load"
                                 /\ Answers(r, IF r.u \in Members THEN table["channels"] ELSE {})
  BY <1>0, <1>4 DEF ListSpaces, Asked
<1>5. ASSUME NEW k \in {"members", "messages", "stickers"}, ToMember(r, "load", k), Answers(r, table[k])
      PROVE  r.u \in Members /\ r.op = "load" /\ r.kind = k /\ Answers(r, table[r.kind])
  BY <1>5 DEF ToMember
<1>6. ASSUME FetchSticker(r)
      PROVE  r.u \in Members /\ r.op = "fetch" /\ Answers(r, table[r.kind] \intersect {r.item})
  BY <1>6 DEF ToMember, FetchSticker
<1>7. CASE Refused(r)
  BY <1>0, <1>1, <1>3, <1>7 DEF ReadStep
<1>8. CASE ListSpaces(r)
  BY <1>0, <1>1, <1>2, <1>4, <1>8 DEF ReadStep
<1>9. CASE ListMembers(r) \/ FetchMessages(r) \/ ListStickers(r)
  <2>1. r.u \in Members /\ r.op = "load" /\ Answers(r, table[r.kind])
    BY <1>5, <1>9 DEF ListMembers, FetchMessages, ListStickers, Members
  <2> QED BY <1>0, <1>1, <1>2, <2>1 DEF ReadStep
<1>10. CASE FetchSticker(r)
  <2>1. table[r.kind] \intersect {r.item} \in SUBSET Nat
    BY <1>0
  <2> QED BY <1>0, <1>1, <1>2, <1>6, <1>10, <2>1 DEF ReadStep
<1> QED BY <1>7, <1>8, <1>9, <1>10 DEF Read

\* A list is asked for again.
LEMMA ReloadAdds ==
  ASSUME NEW rs \in SUBSET Requests, IsFiniteSet(rs), NEW u \in Users, NEW k \in Kinds
  PROVE  \E z \in Requests : With(rs, Load(u, k)) = rs \union {z} /\ Reload(z) /\ z.u = u /\ z.kind = k
<1> DEFINE q == Load(u, k)
<1>1. q \in Requests /\ q.u = u /\ q.op = "load" /\ q.kind = k /\ q.pc = "read" /\ q.ans = {} /\ q.ver = 0
  BY RequestTyped DEF Load
<1> HIDE DEF q
<1>2. PICK z \in Requests : With(rs, q) = rs \union {z} /\ Like(z, q)
  BY <1>1, WithAdds
<1> QED BY <1>1, <1>2 DEF Like, Reload, q

LEMMA LoadRepliesAre ==
  ASSUME Typed, Placed, NEW r \in reqs, Reply(r), LoadReply(r)
  PROVE  LoadStep(r)
<1>0. /\ r.u \in Users /\ r.kind \in Kinds /\ r.pc = "reply" /\ r.op = "load" /\ Replied(r)
      /\ reqs \ {r} \in SUBSET Requests /\ IsFiniteSet(reqs \ {r})
  BY RequestFields, FS_RemoveElement DEF Reply, LoadReply, Replied, Typed
<1>1. /\ view' = [view EXCEPT ![r.u][r.kind] = Sorted(r.ans)] /\ UNCHANGED <<urls, objects>>
      /\ loaded' = [loaded EXCEPT ![r.u] = IF Outsider(r) THEN @ \ {r.kind} ELSE @ \union {r.kind}]
  BY DEF LoadReply, Shown, Outsider
<1>2. reqs' = IF r.kind = "channels" /\ ~Outsider(r) THEN With(reqs \ {r}, Load(r.u, "members")) ELSE reqs \ {r}
  BY DEF LoadReply, Outsider
<1>3. \E z \in Requests : With(reqs \ {r}, Load(r.u, "members")) = (reqs \ {r}) \union {z} /\ Reload(z)
  BY <1>0, ReloadAdds, KindsAre
<1>4. Finished(r)
  BY <1>2, <1>3 DEF Finished
<1> QED BY <1>0, <1>1, <1>4 DEF LoadStep

LEMMA FetchRepliesAre ==
  ASSUME Typed, Placed, NEW r \in reqs, Reply(r), FetchReply(r)
  PROVE  FetchStep(r)
BY DEF Reply, FetchReply, FetchStep, Replied

LEMMA WriteRepliesAre ==
  ASSUME Typed, Placed, NEW r \in reqs, Reply(r), WriteReply(r)
  PROVE  WriterStep(r)
<1>0. /\ r.u \in Users /\ r.kind \in Kinds /\ r.pc = "reply" /\ r.op \in {"add", "del"} /\ Replied(r)
      /\ reqs \ {r} \in SUBSET Requests /\ IsFiniteSet(reqs \ {r})
  BY RequestFields, FS_RemoveElement DEF Reply, WriteReply, Replied, Typed
<1>1. \A x : x \in reqs' <=> (x \in reqs \ {r} \/ \E k \in Reloads(r) : x \in With(reqs \ {r}, Load(r.u, k)))
  <2>1. reqs' = (reqs \ {r}) \union UNION {With(reqs \ {r}, Load(r.u, k)) : k \in Reloads(r)}
    BY DEF WriteReply
  <2> QED BY <2>1
<1>2. Reloads(r) = {} \/ \E k \in Kinds : Reloads(r) = {k}
  BY KindsAre DEF Reloads
<1>3. Finished(r)
  <2>1. CASE Reloads(r) = {}
    <3>1. \A x : x \in reqs' <=> x \in reqs \ {r}
      BY <1>1, <2>1
    <3>2. reqs' = reqs \ {r}
      BY <3>1
    <3> QED BY <3>2 DEF Finished
  <2>2. CASE \E k \in Kinds : Reloads(r) = {k}
    <3>1. PICK k \in Kinds : Reloads(r) = {k}
      BY <2>2
    <3>2. PICK z \in Requests : With(reqs \ {r}, Load(r.u, k)) = (reqs \ {r}) \union {z} /\ Reload(z)
      BY <1>0, ReloadAdds
    <3>3. \A x : x \in reqs' <=> x \in (reqs \ {r}) \union {z}
      BY <1>1, <3>1, <3>2
    <3>4. reqs' = (reqs \ {r}) \union {z}
      BY <3>3
    <3> QED BY <3>2, <3>4 DEF Finished
  <2> QED BY <1>2, <2>1, <2>2
<1>4. \/ r.kind # "stickers" /\ UNCHANGED shown
      \/ /\ r.kind = "stickers" /\ r.op = "add"
         /\ view' = IF Shows(r.u, "stickers", r.item) THEN view
                     ELSE [view EXCEPT ![r.u]["stickers"] = Append(@, r.item)]
         /\ loaded' = [loaded EXCEPT ![r.u] = @ \union {"stickers"}]
         /\ UNCHANGED <<urls, objects>>
      \/ /\ r.kind = "stickers" /\ r.op = "del"
         /\ view' = [view EXCEPT ![r.u]["stickers"] = Without(@, r.item)]
         /\ Revoked(r.u, r.item) /\ UNCHANGED loaded
  <2>1. \/ r.kind # "stickers" /\ UNCHANGED <<view, loaded, urls, objects>>
        \/ /\ r.kind = "stickers" /\ r.op = "add"
           /\ IF Shows(r.u, "stickers", r.item) THEN UNCHANGED view
              ELSE Shown(r.u, "stickers", Append(view[r.u]["stickers"], r.item))
           /\ loaded' = [loaded EXCEPT ![r.u] = @ \union {"stickers"}]
           /\ UNCHANGED <<urls, objects>>
        \/ /\ r.kind = "stickers" /\ r.op = "del"
           /\ Shown(r.u, "stickers", Without(view[r.u]["stickers"], r.item))
           /\ Revoked(r.u, r.item) /\ UNCHANGED loaded
    BY DEF WriteReply
  <2>2. "stickers" \in DOMAIN view[r.u] /\ r.u \in DOMAIN view
    BY <1>0, KindsAre DEF Typed
  <2> QED BY <2>1, <2>2 DEF shown, Shown
<1> QED BY <1>0, <1>3, <1>4 DEF WriterStep

LEMMA HearsAre ==
  ASSUME Typed, Placed, NEW u \in Users, Receive(u)
  PROVE  HearStep(u)
<1> DEFINE e == Head(wire[u])
<1>0. wire[u] # <<>> /\ e \in Events /\ e.kind \in Kinds /\ e.item \in Nat
  <2>1. wire[u] # <<>> /\ wire[u] \in Seq(Events)
    BY DEF Receive, Typed
  <2>2. e \in Events
    BY <2>1
  <2> QED BY <2>1, <2>2 DEF Events
<1> HIDE DEF e
<1>1. /\ wire' = [wire EXCEPT ![u] = Tail(@)] /\ heard' = Later(u, e.kind, e.ver)
      /\ behind' = IF e.kind = "stickers" /\ e.ver < heard[u][e.kind]
                     THEN behind \union {<<u, e.kind>>} ELSE behind
      /\ UNCHANGED <<table, online, made, ver>>
      /\ \/ e.kind = "members" /\ MemberChanged(u, e)
         \/ e.kind # "members" /\ e.op = "add" /\ Added(u, e.kind, e.item)
         \/ e.kind = "stickers" /\ e.op = "del" /\ StickerRemoved(u, e.item)
  BY DEF Receive, e
<1>2. \/ /\ e.kind = "members" /\ e.op = "del" /\ e.item = u
         /\ loaded' = [loaded EXCEPT ![u] = @ \ {"channels"}]
         /\ UNCHANGED <<view, urls, objects, reqs>>
      \/ /\ e.kind = "members"
         /\ \E z \in Requests : reqs' = reqs \union {z} /\ Reload(z) /\ z.u = u /\ z.kind = "members"
         /\ UNCHANGED shown
      \/ /\ e.kind # "members" /\ e.op = "add"
         /\ view' = IF Fresh(u, e.kind, e.item) THEN [view EXCEPT ![u][e.kind] = Append(@, e.item)] ELSE view
         /\ UNCHANGED <<loaded, urls, objects, reqs>>
      \/ /\ e.kind = "stickers" /\ e.op = "del"
         /\ view' = [view EXCEPT ![u]["stickers"] = Without(@, e.item)]
         /\ Revoked(u, e.item) /\ UNCHANGED <<loaded, reqs>>
  <2>0. u \in DOMAIN view /\ e.kind \in DOMAIN view[u] /\ "stickers" \in DOMAIN view[u]
    BY <1>0, KindsAre DEF Typed
  <2>1. CASE e.kind = "members" /\ MemberChanged(u, e)
    <3>1. CASE e.op = "del" /\ e.item = u
      BY <2>1, <3>1 DEF MemberChanged
    <3>2. CASE ~(e.op = "del" /\ e.item = u)
      <4>1. reqs' = With(reqs, Load(u, "members")) /\ UNCHANGED shown
        BY <2>1, <3>2 DEF MemberChanged, client, shown
      <4>2. \E z \in Requests : reqs' = reqs \union {z} /\ Reload(z) /\ z.u = u /\ z.kind = "members"
        <5>1. reqs \in SUBSET Requests /\ IsFiniteSet(reqs) /\ "members" \in Kinds
          BY KindsAre DEF Typed
        <5>2. \E z \in Requests : With(reqs, Load(u, "members")) = reqs \union {z} /\ Reload(z) /\ z.u = u /\ z.kind = "members"
          BY <5>1, ReloadAdds
        <5> QED BY <4>1, <5>2
      <4> QED BY <2>1, <4>1, <4>2
    <3> QED BY <3>1, <3>2
  <2>2. CASE e.kind # "members" /\ e.op = "add" /\ Added(u, e.kind, e.item)
    BY <2>0, <2>2 DEF Added, Shown
  <2>3. CASE e.kind = "stickers" /\ e.op = "del" /\ StickerRemoved(u, e.item)
    BY <2>0, <2>3 DEF StickerRemoved, Shown
  <2> QED BY <1>1, <2>1, <2>2, <2>3
<1> QED BY <1>0, <1>1, <1>2 DEF HearStep, e

LEMMA StepsAre ==
  ASSUME Typed, Placed, [Next]_vars
  PROVE  Step
<1>1. CASE OwnerOnly \/ \E u \in Users : User(u)
  BY <1>1, OwnerAsks, UserAsks DEF Step
<1>2. ASSUME NEW u \in Users, Client(u)
      PROVE  Step
  <2>1. CASE Receive(u)
    BY <2>1, HearsAre DEF Step
  <2>2. CASE KeysUpdated(u)
    BY <2>2 DEF KeysUpdated, history, Step, IdleStep, shown, Typed
  <2>3. CASE Drop(u)
    <3>1. DropStep(u)
      BY <2>3 DEF Drop, DropStep, client, shown
    <3> QED BY <3>1 DEF Step
  <2>4. CASE Reopen(u)
    <3>1. IdleStep
      BY <2>4 DEF Reopen, client, history, IdleStep, shown, Typed
    <3> QED BY <3>1 DEF Step
  <2> QED BY <1>2, <2>1, <2>2, <2>3, <2>4 DEF Client
<1>3. ASSUME NEW r \in reqs, Call(r)
      PROVE  Step
  <2>1. CASE Write(r)
    BY <2>1, WritesAre DEF Step
  <2>2. CASE Fan(r)
    BY <2>2, FansAre DEF Step
  <2>3. CASE Read(r)
    BY <2>3, ReadsAre DEF Step
  <2>4. CASE Reply(r)
    <3>1. LoadReply(r) \/ FetchReply(r) \/ WriteReply(r)
      BY <2>4 DEF Reply
    <3> QED BY <2>4, <3>1, LoadRepliesAre, FetchRepliesAre, WriteRepliesAre DEF Step
  <2> QED BY <1>3, <2>1, <2>2, <2>3, <2>4 DEF Call
<1>4. CASE UNCHANGED vars
  <2>1. IdleStep
    BY <1>4 DEF vars, client, history, IdleStep, shown, Typed
  <2> QED BY <2>1 DEF Step
<1> QED BY <1>1, <1>2, <1>3, <1>4 DEF Next

-----------------------------------------------------------------------------
(* Types.                                                                    *)

\* What is known of an event on its way.
LEMMA WireFields ==
  ASSUME Typed, NEW u \in Users, NEW j \in DOMAIN wire[u]
  PROVE  /\ wire[u][j] \in Events /\ wire[u][j].kind \in Kinds /\ wire[u][j].op \in {"add", "del"}
         /\ wire[u][j].item \in Nat /\ wire[u][j].ver \in Nat
<1>1. wire[u] \in Seq(Events)
  BY DEF Typed
<1>2. wire[u][j] \in Events
  BY <1>1
<1> QED BY <1>2 DEF Events

\* Requests keep their types when one is added or replaced by another.
LEMMA RequestsKept ==
  ASSUME Typed, Placed, NEW rs \in SUBSET reqs, NEW z \in Requests, IsFiniteSet(z.ans)
  PROVE  /\ rs \in SUBSET Requests /\ IsFiniteSet(rs) /\ \A r \in rs : IsFiniteSet(r.ans)
         /\ rs \union {z} \in SUBSET Requests /\ IsFiniteSet(rs \union {z})
         /\ \A r \in rs \union {z} : IsFiniteSet(r.ans)
<1>1. rs \in SUBSET Requests /\ IsFiniteSet(rs) /\ \A r \in rs : IsFiniteSet(r.ans)
  BY FS_Subset DEF Typed
<1>2. IsFiniteSet(rs \union {z})
  BY <1>1, FS_AddElement
<1> QED BY <1>1, <1>2

\* So when only the requests change.
LEMMA TypedRequests ==
  ASSUME Typed, Placed, NEW rs \in SUBSET reqs, NEW z \in Requests, IsFiniteSet(z.ans),
         reqs' = rs \/ reqs' = rs \union {z}
  PROVE  reqs' \in SUBSET Requests /\ IsFiniteSet(reqs') /\ \A r \in reqs' : IsFiniteSet(r.ans)
BY RequestsKept

LEMMA TypedRest ==
  ASSUME Typed, Placed, reqs' \in SUBSET Requests, IsFiniteSet(reqs'), \A r \in reqs' : IsFiniteSet(r.ans),
         UNCHANGED <<table, online, made, ver>>,
         wire' \in [Users -> Seq(Events)], view' \in [Users -> [Kinds -> Seq(Nat)]],
         loaded' \in [Users -> SUBSET Kinds], urls' \in [Users -> SUBSET Stickers],
         objects' \in [Users -> [Stickers -> Int]], heard' \in [Users -> [Kinds -> Nat]]
  PROVE  Typed'
BY DEF Typed

\* A request that only moves on, or a new one, is one of those there are.
LEMMA AskedKept ==
  ASSUME Typed, Placed, \A k \in Kinds : ver'[k] \in Nat /\ ver[k] <= ver'[k], NEW r \in reqs
  PROVE  Asked(r)'
<1>1. r.kind \in Kinds /\ r.ver \in Nat /\ Asked(r) /\ ver[r.kind] \in Nat
  BY RequestFields DEF Typed
<1> QED BY <1>1 DEF Asked

LEMMA AsksTyped ==
  ASSUME Typed, Placed, AskStep
  PROVE  Typed' /\ Placed'
<1>1. PICK z \in Requests :
        /\ reqs' = reqs \union {z} /\ z.ans = {} /\ z.ver = 0 /\ (NewItem(z) \/ OldItem(z))
        /\ UNCHANGED <<table, wire, online, shown, ver, heard, behind>>
  BY DEF AskStep
<1>2. made' \in [Kinds -> Nat]
  <2>1. CASE NewItem(z)
    <3>1. z.kind \in Kinds /\ made[z.kind] + 1 \in Nat /\ made \in [Kinds -> Nat]
      BY <1>1 DEF Requests, Typed
    <3> QED BY <2>1, <3>1 DEF NewItem
  <2>2. CASE OldItem(z)
    BY <2>2 DEF OldItem, Typed
  <2> QED BY <1>1, <2>1, <2>2
<1>3. IsFiniteSet(z.ans)
  BY <1>1, FS_EmptySet
<1>4. reqs' \in SUBSET Requests /\ IsFiniteSet(reqs') /\ \A r \in reqs' : IsFiniteSet(r.ans)
  BY <1>1, <1>3, TypedRequests
<1>5. Typed'
  BY <1>1, <1>2, <1>4 DEF Typed, shown
<1>6. Asked(z)'
  <2>1. z.kind \in Kinds /\ ver'[z.kind] \in Nat
    BY <1>1 DEF Requests, Typed
  <2> QED BY <1>1, <2>1 DEF NewItem, OldItem, Asked, NewsKinds
<1>7. \A r \in reqs : Asked(r)'
  BY <1>1, AskedKept DEF Typed
<1>8. \A u \in Users : \A j \in DOMAIN wire[u] : Wired(wire[u][j])'
  <2>1. ASSUME NEW u \in Users, NEW j \in DOMAIN wire[u] PROVE Wired(wire[u][j])'
    <3>1. Wired(wire[u][j]) /\ wire' = wire /\ ver' = ver
      BY <1>1 DEF Placed
    <3> QED BY <3>1 DEF Wired
  <2> QED BY <2>1
<1> QED BY <1>1, <1>5, <1>6, <1>7, <1>8 DEF Placed, Members

LEMMA InsertsTyped ==
  ASSUME Typed, Placed, NEW r \in reqs, InsertStep(r)
  PROVE  Typed' /\ Placed'
<1>0. /\ r.kind \in Kinds /\ r.item \in Nat /\ Asked(r) /\ r.op = "add" /\ table[r.kind] \in SUBSET Nat
      /\ IsFiniteSet(table[r.kind]) /\ ver[r.kind] \in Nat
  BY RequestFields DEF Typed, InsertStep
<1>1. PICK z \in Requests : Turned(r, z, "fan") /\ z.ans = {} /\ z.ver = ver[r.kind] + 1
  BY DEF InsertStep
<1>2. /\ table' = [table EXCEPT ![r.kind] = @ \union {r.item}] /\ ver' = [ver EXCEPT ![r.kind] = @ + 1]
      /\ UNCHANGED <<wire, online, view, loaded, urls, objects, made, heard, behind>>
      /\ reqs' = (reqs \ {r}) \union {z} /\ z.kind = r.kind /\ z.op = "add" /\ z.u = r.u /\ z.item = r.item /\ z.pc = "fan"
  BY <1>0, <1>1 DEF InsertStep, shown, Turned
<1>3. reqs' \in SUBSET Requests /\ IsFiniteSet(reqs') /\ \A q \in reqs' : IsFiniteSet(q.ans)
  <2>1. IsFiniteSet(z.ans) /\ reqs \ {r} \in SUBSET reqs
    BY <1>1, FS_EmptySet
  <2> QED BY <1>2, <2>1, TypedRequests
<1>4. table' \in [Kinds -> SUBSET Nat] /\ ver' \in [Kinds -> Nat] /\ \A k \in Kinds : ver[k] <= ver'[k]
  BY <1>0, <1>2 DEF Typed
<1>5. \A k \in Kinds : IsFiniteSet(table'[k])
  <2>1. IsFiniteSet(table[r.kind] \union {r.item})
    BY <1>0, FS_AddElement
  <2> QED BY <1>0, <1>2, <2>1 DEF Typed
<1>6. Typed'
  BY <1>2, <1>3, <1>4, <1>5 DEF Typed
<1>7. Asked(z)'
  BY <1>0, <1>1, <1>2, <1>4 DEF Asked, Typed
<1>8. \A q \in reqs' : Asked(q)'
  BY <1>2, <1>4, <1>7, AskedKept
<1>9. \A k \in Kinds : table[k] \subseteq table'[k]
  BY <1>0, <1>2 DEF Typed
<1>10. table'["members"] \subseteq Users
  <2>1. r.kind = "members" => r.item \in Users
    BY <1>0 DEF Asked
  <2> QED BY <1>0, <1>2, <2>1, KindsAre DEF Typed, Placed, Members
<1>11. \A u \in Users : \A j \in DOMAIN wire[u] : Wired(wire[u][j])'
  <2>1. ASSUME NEW u \in Users, NEW j \in DOMAIN wire[u] PROVE Wired(wire[u][j])'
    <3>1. wire[u][j].kind \in Kinds /\ wire[u][j].ver \in Nat /\ Wired(wire[u][j]) /\ wire' = wire
      BY <1>2, WireFields DEF Placed
    <3>2. ver[wire[u][j].kind] \in Nat /\ ver'[wire[u][j].kind] \in Nat /\ ver[wire[u][j].kind] <= ver'[wire[u][j].kind]
      BY <1>4, <3>1 DEF Typed
    <3> QED BY <3>1, <3>2 DEF Wired
  <2> QED BY <2>1
<1>12. \A u \in Users, k \in Kinds : heard[u][k] <= ver'[k]
  BY <1>4 DEF Typed, Placed
<1> QED BY <1>2, <1>6, <1>8, <1>9, <1>10, <1>11, <1>12, KindsAre DEF Placed, Members

LEMMA DeletesTyped ==
  ASSUME Typed, Placed, NEW r \in reqs, DeleteStep(r)
  PROVE  Typed' /\ Placed'
<1>0. /\ r.kind \in Kinds /\ r.item \in Nat /\ Asked(r) /\ r.op = "del" /\ r.pc = "write"
      /\ table[r.kind] \in SUBSET Nat /\ IsFiniteSet(table[r.kind]) /\ ver[r.kind] \in Nat
      /\ r.kind \in {"members", "stickers"}
  BY RequestFields DEF Typed, DeleteStep, Asked
<1> DEFINE pc == IF r.kind = "members" THEN "reply" ELSE "fan"
<1>1. PICK z \in Requests : Turned(r, z, pc) /\ z.ans = {} /\ z.ver = ver[r.kind] + 1
  BY DEF DeleteStep
<1>2. /\ table' = [table EXCEPT ![r.kind] = @ \ {r.item}] /\ ver' = [ver EXCEPT ![r.kind] = @ + 1]
      /\ UNCHANGED <<wire, online, view, loaded, urls, objects, made, heard>>
      /\ reqs' = (reqs \ {r}) \union {z} /\ z.kind = r.kind /\ z.op = "del" /\ z.u = r.u /\ z.item = r.item
      /\ z.pc \in {"reply", "fan"}
  BY <1>0, <1>1 DEF DeleteStep, shown, Turned
<1>3. reqs' \in SUBSET Requests /\ IsFiniteSet(reqs') /\ \A q \in reqs' : IsFiniteSet(q.ans)
  <2>1. IsFiniteSet(z.ans) /\ reqs \ {r} \in SUBSET reqs
    BY <1>1, FS_EmptySet
  <2> QED BY <1>2, <2>1, TypedRequests
<1>4. table' \in [Kinds -> SUBSET Nat] /\ ver' \in [Kinds -> Nat] /\ \A k \in Kinds : ver[k] <= ver'[k]
  BY <1>0, <1>2 DEF Typed
<1>5. \A k \in Kinds : IsFiniteSet(table'[k])
  <2>1. IsFiniteSet(table[r.kind] \ {r.item})
    BY <1>0, FS_RemoveElement
  <2> QED BY <1>0, <1>2, <2>1 DEF Typed
<1>6. Typed'
  BY <1>2, <1>3, <1>4, <1>5 DEF Typed
<1>7. Asked(z)'
  BY <1>0, <1>1, <1>2, <1>4 DEF Asked, Typed
<1>8. \A q \in reqs' : Asked(q)'
  BY <1>2, <1>4, <1>7, AskedKept
<1>9. /\ Owner \in table'["members"] /\ table'["members"] \subseteq table["members"]
      /\ table'["channels"] = table["channels"]
  <2>1. r.kind = "members" => r.item # Owner
    BY <1>0 DEF Asked
  <2> QED BY <1>0, <1>2, <2>1, KindsAre DEF Typed, Placed, Members
<1>11. \A u \in Users : \A j \in DOMAIN wire[u] : Wired(wire[u][j])'
  <2>1. ASSUME NEW u \in Users, NEW j \in DOMAIN wire[u] PROVE Wired(wire[u][j])'
    <3>1. wire[u][j].kind \in Kinds /\ wire[u][j].ver \in Nat /\ Wired(wire[u][j]) /\ wire' = wire
      BY <1>2, WireFields DEF Placed
    <3>2. ver[wire[u][j].kind] \in Nat /\ ver'[wire[u][j].kind] \in Nat /\ ver[wire[u][j].kind] <= ver'[wire[u][j].kind]
      BY <1>4, <3>1 DEF Typed
    <3> QED BY <3>1, <3>2 DEF Wired
  <2> QED BY <2>1
<1>12. \A u \in Users, k \in Kinds : heard[u][k] <= ver'[k]
  BY <1>4 DEF Typed, Placed
<1> QED BY <1>2, <1>6, <1>8, <1>9, <1>11, <1>12, KindsAre DEF Placed, Members

\* When the tables do not change, what is placed stays so.
LEMMA PlacedRest ==
  ASSUME Typed, Placed, UNCHANGED <<table, ver>>,
         \A q \in reqs' : q \in reqs \/ Asked(q),
         \A u \in Users : \A j \in DOMAIN wire'[u] : Wired(wire'[u][j]),
         \A u \in Users, k \in Kinds : heard'[u][k] <= ver[k]
  PROVE  Placed'
<1>1. \A q \in reqs' : Asked(q)
  BY DEF Placed
<1>2. \A q \in reqs' : Asked(q)'
  BY <1>1 DEF Asked
<1>3. (\A u \in Users : \A j \in DOMAIN wire[u] : Wired(wire[u][j]))'
  <2>1. (\A u \in Users : \A j \in DOMAIN wire[u] :
           wire[u][j].ver <= ver[wire[u][j].kind] /\ (wire[u][j].kind = "stickers" => wire[u][j].item \in Stickers))'
    BY DEF Wired
  <2> QED BY <2>1 DEF Wired
<1> QED BY <1>2, <1>3 DEF Placed, Members

LEMMA NothingsTyped ==
  ASSUME Typed, Placed, NEW r \in reqs, NoStep(r)
  PROVE  Typed' /\ Placed'
<1>0. /\ r.kind \in Kinds /\ Asked(r) /\ r.op \in {"add", "del"} /\ r.pc = "write" /\ r \in Requests
      /\ UNCHANGED <<table, ver, wire, online, view, loaded, urls, objects, made, heard>>
  BY RequestFields DEF NoStep, shown
<1>1. /\ reqs' \in SUBSET Requests /\ IsFiniteSet(reqs') /\ \A q \in reqs' : IsFiniteSet(q.ans)
      /\ \A q \in reqs' : q \in reqs \/ Asked(q)
  <2>1. CASE \E z \in Requests : r.op = "add" /\ Turned(r, z, "reply") /\ z.ans = {} /\ z.ver = r.ver
    <3>1. PICK z \in Requests : r.op = "add" /\ Turned(r, z, "reply") /\ z.ans = {} /\ z.ver = r.ver
      BY <2>1
    <3>2. reqs' = (reqs \ {r}) \union {z} /\ IsFiniteSet(z.ans) /\ reqs \ {r} \in SUBSET reqs
      BY <3>1, FS_EmptySet DEF Turned
    <3>3. Asked(z)
      BY <1>0, <3>1 DEF Turned, Asked
    <3> QED BY <3>2, <3>3, TypedRequests
  <2>2. CASE reqs' = reqs \ {r}
    <3>1. reqs' \in SUBSET Requests /\ IsFiniteSet(reqs')
      BY <2>2, FS_RemoveElement DEF Typed
    <3> QED BY <2>2, <3>1 DEF Typed
  <2> QED BY <2>1, <2>2 DEF NoStep
<1>2. Typed'
  BY <1>0, <1>1 DEF Typed
<1>3. Placed'
  BY <1>0, <1>1, PlacedRest DEF Placed
<1> QED BY <1>2, <1>3

LEMMA FansTyped ==
  ASSUME Typed, Placed, NEW r \in reqs, FanStep(r)
  PROVE  Typed' /\ Placed'
<1>0. /\ r.kind \in Kinds /\ Asked(r) /\ r.op \in {"add", "del"} /\ r.pc = "fan" /\ r \in Requests
      /\ UNCHANGED <<table, ver, online, view, loaded, urls, objects, made, heard>>
  BY RequestFields DEF FanStep, shown
<1> DEFINE pc == IF r.op = "del" /\ r.kind = "members" THEN "write" ELSE "reply"
<1>1. PICK z \in Requests : Turned(r, z, pc) /\ z.ans = {} /\ z.ver = r.ver
  BY DEF FanStep
<1>2. PICK e \in Events :
       /\ e.kind = r.kind /\ e.op = r.op /\ e.item = r.item
       /\ e.ver = IF r.op = "del" /\ r.kind = "members" THEN ver["members"] ELSE r.ver
       /\ wire' = [u \in Users |-> IF u \in Members \intersect online THEN Append(wire[u], e) ELSE wire[u]]
  BY DEF FanStep
<1>3. /\ reqs' \in SUBSET Requests /\ IsFiniteSet(reqs') /\ \A q \in reqs' : IsFiniteSet(q.ans)
      /\ \A q \in reqs' : q \in reqs \/ Asked(q)
  <2>2. reqs' = (reqs \ {r}) \union {z} /\ IsFiniteSet(z.ans) /\ reqs \ {r} \in SUBSET reqs
    BY <1>1, FS_EmptySet DEF Turned
  <2>3. Asked(z)
    BY <1>0, <1>1 DEF Turned, Asked
  <2> QED BY <2>2, <2>3, TypedRequests
<1>4. wire' \in [Users -> Seq(Events)]
  BY <1>2 DEF Typed
<1>5. Wired(e)
  BY <1>0, <1>2 DEF Asked, Typed, Wired
<1>6. ASSUME NEW u \in Users PROVE \A j \in DOMAIN wire'[u] : Wired(wire'[u][j])
  <2>1. wire[u] \in Seq(Events) /\ (wire'[u] = wire[u] \/ wire'[u] = Append(wire[u], e))
    BY <1>2 DEF Typed
  <2>2. \A j \in DOMAIN wire'[u] : wire'[u][j] = e \/ (j \in DOMAIN wire[u] /\ wire'[u][j] = wire[u][j])
    BY <2>1
  <2> QED BY <1>5, <2>2 DEF Placed
<1>7. Typed'
  BY <1>0, <1>3, <1>4 DEF Typed
<1>8. Placed'
  BY <1>0, <1>3, <1>6, PlacedRest DEF Placed
<1> QED BY <1>7, <1>8

LEMMA ReadsTyped ==
  ASSUME Typed, Placed, NEW r \in reqs, ReadStep(r)
  PROVE  Typed' /\ Placed'
<1>0. /\ r.kind \in Kinds /\ Asked(r) /\ r.op \in {"load", "fetch"} /\ r.pc = "read" /\ r \in Requests
      /\ UNCHANGED <<table, ver, wire, online, view, loaded, urls, objects, made, heard>>
      /\ IsFiniteSet(table[r.kind]) /\ ver[r.kind] \in Nat
  BY RequestFields DEF ReadStep, shown, Typed
<1>1. /\ reqs' \in SUBSET Requests /\ IsFiniteSet(reqs') /\ \A q \in reqs' : IsFiniteSet(q.ans)
      /\ \A q \in reqs' : q \in reqs \/ Asked(q)
  <2>1. CASE reqs' = reqs \ {r}
    <3>1. reqs' \in SUBSET Requests /\ IsFiniteSet(reqs')
      BY <2>1, FS_RemoveElement DEF Typed
    <3> QED BY <2>1, <3>1 DEF Typed
  <2>2. CASE reqs' # reqs \ {r}
    <3>1. PICK z \in Requests : /\ Turned(r, z, "reply") /\ z.ver = ver[r.kind]
            /\ \/ z.ans = {}
               \/ r.op = "load" /\ z.ans = table[r.kind]
               \/ r.op = "fetch" /\ z.ans = table[r.kind] \intersect {r.item}
      BY <2>2 DEF ReadStep
    <3>2. reqs' = (reqs \ {r}) \union {z} /\ reqs \ {r} \in SUBSET reqs
      BY <3>1 DEF Turned
    <3>3. IsFiniteSet(z.ans)
      <4>1. IsFiniteSet(table[r.kind] \intersect {r.item})
        BY <1>0, FS_Intersection
      <4> QED BY <1>0, <3>1, <4>1, FS_EmptySet
    <3>4. Asked(z)
      BY <1>0, <3>1 DEF Turned, Asked
    <3> QED BY <3>2, <3>3, <3>4, TypedRequests
  <2> QED BY <2>1, <2>2
<1>2. Typed'
  BY <1>0, <1>1 DEF Typed
<1>3. Placed'
  BY <1>0, <1>1, PlacedRest DEF Placed
<1> QED BY <1>2, <1>3

\* A client that learns of a version.
LEMMA LaterTyped ==
  ASSUME Typed, Placed, NEW u \in Users, NEW k \in Kinds, NEW v \in Nat, v <= ver[k], heard' = Later(u, k, v)
  PROVE  /\ heard' \in [Users -> [Kinds -> Nat]]
         /\ heard'[u][k] = IF v > heard[u][k] THEN v ELSE heard[u][k]
         /\ \A w \in Users, j \in Kinds : heard[w][j] <= heard'[w][j] /\ heard'[w][j] <= ver[j]
         /\ \A w \in Users, j \in Kinds : (w # u \/ j # k) => heard'[w][j] = heard[w][j]
<1>1. heard' = [heard EXCEPT ![u][k] = IF v > @ THEN v ELSE @]
  BY DEF Later
<1>2. heard \in [Users -> [Kinds -> Nat]] /\ \A w \in Users, j \in Kinds : heard[w][j] <= ver[j]
  BY DEF Typed, Placed
<1>3. /\ heard'[u][k] = (IF v > heard[u][k] THEN v ELSE heard[u][k])
      /\ \A w \in Users, j \in Kinds : (w # u \/ j # k) => heard'[w][j] = heard[w][j]
  BY <1>1, <1>2
<1>4. heard' \in [Users -> [Kinds -> Nat]]
  BY <1>1, <1>2
<1> QED BY <1>2, <1>3, <1>4

LEMMA RepliesTyped ==
  ASSUME Typed, Placed, NEW r \in reqs, Finished(r) \/ reqs' = reqs \ {r}, Replied(r),
         view' \in [Users -> [Kinds -> Seq(Nat)]], loaded' \in [Users -> SUBSET Kinds],
         urls' \in [Users -> SUBSET Stickers], objects' \in [Users -> [Stickers -> Int]]
  PROVE  Typed' /\ Placed'
<1>0. /\ r.u \in Users /\ r.kind \in Kinds /\ Asked(r) /\ r.ver \in Nat /\ r.ver <= ver[r.kind]
      /\ UNCHANGED <<table, wire, online, made, ver>> /\ heard' = Later(r.u, r.kind, r.ver)
  BY RequestFields DEF Replied, Asked
<1>1. /\ reqs' \in SUBSET Requests /\ IsFiniteSet(reqs') /\ \A q \in reqs' : IsFiniteSet(q.ans)
      /\ \A q \in reqs' : q \in reqs \/ Asked(q)
  <2>1. CASE reqs' = reqs \ {r}
    <3>1. reqs' \in SUBSET Requests /\ IsFiniteSet(reqs')
      BY <2>1, FS_RemoveElement DEF Typed
    <3> QED BY <2>1, <3>1 DEF Typed
  <2>2. CASE \E z \in Requests : reqs' = (reqs \ {r}) \union {z} /\ Reload(z)
    <3>1. PICK z \in Requests : reqs' = (reqs \ {r}) \union {z} /\ Reload(z)
      BY <2>2
    <3>2. reqs \ {r} \in SUBSET reqs /\ IsFiniteSet(z.ans)
      BY <3>1, FS_EmptySet DEF Reload
    <3>3. Asked(z)
      <4>1. z.kind \in Kinds /\ ver[z.kind] \in Nat
        BY DEF Requests, Typed
      <4> QED BY <3>1, <4>1 DEF Reload, Asked
    <3> QED BY <3>1, <3>2, <3>3, TypedRequests
  <2> QED BY <2>1, <2>2 DEF Finished
<1>2. heard' \in [Users -> [Kinds -> Nat]] /\ \A w \in Users, j \in Kinds : heard'[w][j] <= ver[j]
  BY <1>0, LaterTyped
<1>3. Typed'
  BY <1>0, <1>1, <1>2 DEF Typed
<1>4. Placed'
  BY <1>0, <1>1, <1>2, PlacedRest DEF Placed
<1> QED BY <1>3, <1>4

LEMMA LoadsTyped ==
  ASSUME Typed, Placed, NEW r \in reqs, LoadStep(r)
  PROVE  Typed' /\ Placed'
<1>0. r.u \in Users /\ r.kind \in Kinds /\ r.ans \in SUBSET Nat /\ IsFiniteSet(r.ans)
  BY RequestFields
<1>1. Sorted(r.ans) \in Seq(Nat)
  <2>1. Sorted(r.ans) \in Seq(r.ans)
    BY <1>0, SortedLists
  <2> QED BY <1>0, <2>1
<1>2. view' \in [Users -> [Kinds -> Seq(Nat)]]
  BY <1>0, <1>1 DEF LoadStep, Typed
<1>3. loaded' \in [Users -> SUBSET Kinds]
  BY <1>0 DEF LoadStep, Typed
<1> QED BY <1>2, <1>3, RepliesTyped DEF LoadStep, Typed

LEMMA FetchesTyped ==
  ASSUME Typed, Placed, NEW r \in reqs, FetchStep(r)
  PROVE  Typed' /\ Placed'
<1>0. r.u \in Users /\ r.item \in Stickers
  BY RequestFields DEF Asked, FetchStep
<1>1. urls' \in [Users -> SUBSET Stickers] /\ objects' \in [Users -> [Stickers -> Int]]
  <2>1. CASE UNCHANGED <<urls, objects>>
    BY <2>1 DEF Typed
  <2>2. CASE /\ urls' = [urls EXCEPT ![r.u] = @ \union {r.item}]
             /\ objects' = [objects EXCEPT ![r.u][r.item] = @ + 1]
    BY <1>0, <2>2 DEF Typed
  <2> QED BY <2>1, <2>2 DEF FetchStep
<1> QED BY <1>1, RepliesTyped DEF FetchStep, Typed

\* Lists keep showing nothing twice.
LEMMA RevokedTyped ==
  ASSUME Typed, NEW u \in Users, NEW s \in Stickers, Revoked(u, s)
  PROVE  urls' \in [Users -> SUBSET Stickers] /\ objects' \in [Users -> [Stickers -> Int]]
BY DEF Revoked, Typed

\* Lists are lists still, if they show nothing twice.
LEMMA AppendTyped ==
  ASSUME Typed, NoDuplicates, NEW u \in Users, NEW k \in Kinds, NEW i \in Nat
  PROVE  /\ view[u][k] \in Seq(Nat) /\ IsInjective(view[u][k])
         /\ [view EXCEPT ![u][k] = Append(@, i)] \in [Users -> [Kinds -> Seq(Nat)]]
         /\ [view EXCEPT ![u][k] = Without(@, i)] \in [Users -> [Kinds -> Seq(Nat)]]
<1>1. view[u][k] \in Seq(Nat) /\ IsInjective(view[u][k])
  BY DEF Typed, NoDuplicates
<1>2. Append(view[u][k], i) \in Seq(Nat) /\ Without(view[u][k], i) \in Seq(Nat)
  BY <1>1, WithoutLists
<1> QED BY <1>1, <1>2 DEF Typed

LEMMA WritersTyped ==
  ASSUME Typed, Placed, NoDuplicates, NEW r \in reqs, WriterStep(r)
  PROVE  Typed' /\ Placed'
<1>0. /\ r.u \in Users /\ r.kind \in Kinds /\ r.item \in Nat
      /\ r.kind = "stickers" => r.item \in Stickers
  BY RequestFields DEF Asked, WriterStep
<1>1. view' \in [Users -> [Kinds -> Seq(Nat)]]
  <2>1. "stickers" \in Kinds
    BY KindsAre
  <2>2. view' = view \/ view' = [view EXCEPT ![r.u]["stickers"] = Append(@, r.item)]
                     \/ view' = [view EXCEPT ![r.u]["stickers"] = Without(@, r.item)]
    BY DEF WriterStep, shown
  <2>3. CASE view' = view
    BY <2>3 DEF Typed
  <2>4. /\ [view EXCEPT ![r.u]["stickers"] = Append(@, r.item)] \in [Users -> [Kinds -> Seq(Nat)]]
        /\ [view EXCEPT ![r.u]["stickers"] = Without(@, r.item)] \in [Users -> [Kinds -> Seq(Nat)]]
    BY <1>0, <2>1, AppendTyped
  <2> QED BY <2>2, <2>3, <2>4
<1>2. loaded' \in [Users -> SUBSET Kinds]
  <2>1. loaded' = loaded \/ loaded' = [loaded EXCEPT ![r.u] = @ \union {"stickers"}]
    BY DEF WriterStep, shown
  <2>2. CASE loaded' = loaded
    BY <2>2 DEF Typed
  <2>3. CASE loaded' = [loaded EXCEPT ![r.u] = @ \union {"stickers"}]
    BY <1>0, <2>3, KindsAre DEF Typed
  <2> QED BY <2>1, <2>2, <2>3
<1>3. urls' \in [Users -> SUBSET Stickers] /\ objects' \in [Users -> [Stickers -> Int]]
  <2>1. CASE UNCHANGED <<urls, objects>>
    BY <2>1 DEF Typed
  <2>2. CASE r.kind = "stickers" /\ Revoked(r.u, r.item)
    BY <1>0, <2>2, RevokedTyped
  <2> QED BY <2>1, <2>2 DEF WriterStep, shown
<1> QED BY <1>1, <1>2, <1>3, RepliesTyped DEF WriterStep

LEMMA HearsTyped ==
  ASSUME Typed, Placed, NoDuplicates, NEW u \in Users, HearStep(u)
  PROVE  Typed' /\ Placed'
<1> DEFINE e == Head(wire[u])
<1>0. /\ wire[u] \in Seq(Events) /\ wire[u] # <<>> /\ e = wire[u][1] /\ 1 \in DOMAIN wire[u]
  BY DEF HearStep, Typed
<1>1. e \in Events /\ e.kind \in Kinds /\ e.item \in Nat /\ e.ver \in Nat /\ e.ver <= ver[e.kind]
      /\ (e.kind = "stickers" => e.item \in Stickers)
  BY <1>0, WireFields DEF Placed, Wired
<1>2. /\ wire' = [wire EXCEPT ![u] = Tail(@)] /\ UNCHANGED <<table, online, made, ver>>
      /\ heard' = Later(u, e.kind, e.ver)
  BY DEF HearStep
<1>3. wire' \in [Users -> Seq(Events)]
  BY <1>0, <1>2 DEF Typed
<1>4. \A w \in Users : \A j \in DOMAIN wire'[w] : Wired(wire'[w][j])
  <2>1. ASSUME NEW j \in DOMAIN Tail(wire[u]) PROVE j + 1 \in DOMAIN wire[u] /\ Tail(wire[u])[j] = wire[u][j + 1]
    BY <1>0
  <2> QED BY <1>0, <1>2, <2>1 DEF Typed, Placed
<1>5. heard' \in [Users -> [Kinds -> Nat]] /\ \A w \in Users, j \in Kinds : heard'[w][j] <= ver[j]
  BY <1>1, <1>2, LaterTyped
<1>6. view' \in [Users -> [Kinds -> Seq(Nat)]]
  <2>1. "stickers" \in Kinds
    BY KindsAre
  <2>2. \/ view' = view \/ view' = [view EXCEPT ![u][e.kind] = Append(@, e.item)]
        \/ view' = [view EXCEPT ![u]["stickers"] = Without(@, e.item)]
    BY DEF HearStep, shown
  <2> HIDE DEF e
  <2>3. CASE view' = view
    BY <2>3 DEF Typed
  <2>4. /\ [view EXCEPT ![u][e.kind] = Append(@, e.item)] \in [Users -> [Kinds -> Seq(Nat)]]
        /\ [view EXCEPT ![u]["stickers"] = Without(@, e.item)] \in [Users -> [Kinds -> Seq(Nat)]]
    BY <1>1, <2>1, AppendTyped
  <2> QED BY <2>2, <2>3, <2>4
<1>7. loaded' \in [Users -> SUBSET Kinds]
  <2>1. loaded' = loaded \/ loaded' = [loaded EXCEPT ![u] = @ \ {"channels"}]
    BY DEF HearStep, shown
  <2>2. CASE loaded' = loaded
    BY <2>2 DEF Typed
  <2>3. CASE loaded' = [loaded EXCEPT ![u] = @ \ {"channels"}]
    BY <2>3 DEF Typed
  <2> QED BY <2>1, <2>2, <2>3
<1>8. urls' \in [Users -> SUBSET Stickers] /\ objects' \in [Users -> [Stickers -> Int]]
  <2>1. CASE UNCHANGED <<urls, objects>>
    BY <2>1 DEF Typed
  <2>2. CASE e.kind = "stickers" /\ Revoked(u, e.item)
    BY <1>1, <2>2, RevokedTyped
  <2> QED BY <2>1, <2>2 DEF HearStep, shown
<1>9. /\ reqs' \in SUBSET Requests /\ IsFiniteSet(reqs') /\ \A q \in reqs' : IsFiniteSet(q.ans)
      /\ \A q \in reqs' : q \in reqs \/ Asked(q)
  <2>1. CASE UNCHANGED reqs
    BY <2>1 DEF Typed
  <2>2. CASE \E z \in Requests : reqs' = reqs \union {z} /\ Reload(z)
    <3>1. PICK z \in Requests : reqs' = reqs \union {z} /\ Reload(z)
      BY <2>2
    <3>2. IsFiniteSet(z.ans)
      BY <3>1, FS_EmptySet DEF Reload
    <3>3. Asked(z)
      <4>1. z.kind \in Kinds /\ ver[z.kind] \in Nat
        BY DEF Requests, Typed
      <4> QED BY <3>1, <4>1 DEF Reload, Asked
    <3> QED BY <3>1, <3>2, <3>3, TypedRequests
  <2> QED BY <2>1, <2>2 DEF HearStep
<1>10. Typed'
  BY <1>2, <1>3, <1>5, <1>6, <1>7, <1>8, <1>9 DEF Typed
<1>11. Placed'
  BY <1>2, <1>4, <1>5, <1>9, PlacedRest
<1> QED BY <1>10, <1>11

LEMMA DropsTyped ==
  ASSUME Typed, Placed, NEW u \in Users, DropStep(u)
  PROVE  Typed' /\ Placed'
<1>1. wire' \in [Users -> Seq(Events)] /\ \A w \in Users : wire'[w] = <<>> \/ wire'[w] = wire[w]
  BY DEF DropStep, Typed
<1>2. UNCHANGED <<table, reqs, view, loaded, urls, objects, made, ver, heard>> /\ online' \in SUBSET Users
  BY DEF DropStep, shown, Typed
<1>3. Typed'
  BY <1>1, <1>2 DEF Typed
<1>4. Placed'
  BY <1>1, <1>2, PlacedRest DEF Placed
<1> QED BY <1>3, <1>4

LEMMA IdlesTyped ==
  ASSUME Typed, Placed, IdleStep
  PROVE  Typed' /\ Placed'
<1>1. UNCHANGED <<table, reqs, wire, view, loaded, urls, objects, made, ver, heard>> /\ online' \in SUBSET Users
  BY DEF IdleStep, shown
<1>2. Typed'
  BY <1>1 DEF Typed
<1>3. Placed'
  BY <1>1, PlacedRest DEF Placed
<1> QED BY <1>2, <1>3

-----------------------------------------------------------------------------
(* What the clients show after a step.                                       *)

\* One list changes, the others stay.
OneList(u, k) == \A w \in Users, j \in Kinds : (w # u \/ j # k) => view'[w][j] = view[w][j]

\* So nothing is shown twice when that list shows nothing twice.
LEMMA OneListInjective ==
  ASSUME NoDuplicates, NEW u \in Users, NEW k \in Kinds, OneList(u, k), IsInjective(view'[u][k])
  PROVE  NoDuplicates'
<1>1. ASSUME NEW w \in Users, NEW j \in Kinds PROVE IsInjective(view'[w][j])
  <2>1. CASE w = u /\ j = k
    BY <2>1
  <2>2. CASE w # u \/ j # k
    BY <2>2 DEF OneList, NoDuplicates
  <2> QED BY <2>1, <2>2
<1> QED BY <1>1 DEF NoDuplicates

\* An answer replaces the list.
LEMMA LoadShows ==
  ASSUME Typed, Placed, NoDuplicates, NEW r \in reqs, LoadStep(r)
  PROVE  NoDuplicates' /\ OneList(r.u, r.kind) /\ ToSet(view'[r.u][r.kind]) = r.ans
<1>0. r.u \in Users /\ r.kind \in Kinds /\ r.ans \in SUBSET Nat /\ IsFiniteSet(r.ans)
  BY RequestFields
<1>1. IsInjective(Sorted(r.ans)) /\ ToSet(Sorted(r.ans)) = r.ans
  BY <1>0, SortedLists
<1>2. view'[r.u][r.kind] = Sorted(r.ans) /\ OneList(r.u, r.kind)
  BY <1>0 DEF LoadStep, Typed, OneList
<1> QED BY <1>0, <1>1, <1>2, OneListInjective

\* An item that is not shown yet is put at the end.
LEMMA AppendShows ==
  ASSUME Typed, NoDuplicates, NEW u \in Users, NEW k \in Kinds, NEW i \in Nat,
         ~Shows(u, k, i), OneList(u, k), view'[u][k] = Append(view[u][k], i)
  PROVE  NoDuplicates' /\ ToSet(view'[u][k]) = ToSet(view[u][k]) \union {i}
<1>0. view[u][k] \in Seq(Nat) /\ IsInjective(view[u][k]) /\ i \notin ToSet(view[u][k])
  BY DEF Typed, NoDuplicates, Shows
<1>1. IsInjective(Append(view[u][k], i)) /\ ToSet(Append(view[u][k], i)) = ToSet(view[u][k]) \union {i}
  BY <1>0, AppendLists
<1> QED BY <1>1, OneListInjective

\* A removed item is taken out.
LEMMA WithoutShows ==
  ASSUME Typed, NoDuplicates, NEW u \in Users, NEW k \in Kinds, NEW i \in Nat,
         OneList(u, k), view'[u][k] = Without(view[u][k], i)
  PROVE  NoDuplicates' /\ ToSet(view'[u][k]) = ToSet(view[u][k]) \ {i}
<1>0. view[u][k] \in Seq(Nat) /\ IsInjective(view[u][k])
  BY DEF Typed, NoDuplicates
<1>1. IsInjective(Without(view[u][k], i)) /\ ToSet(Without(view[u][k], i)) = ToSet(view[u][k]) \ {i}
  BY <1>0, WithoutLists
<1> QED BY <1>1, OneListInjective

\* The owner's own change of the stickers.
LEMMA WriterShows ==
  ASSUME Typed, Placed, NoDuplicates, NEW r \in reqs, WriterStep(r)
  PROVE  /\ NoDuplicates'
         /\ r.kind # "stickers" => view' = view
         /\ r.kind = "stickers" =>
              /\ OneList(r.u, "stickers")
              /\ r.op = "add" => ToSet(view'[r.u]["stickers"]) = ToSet(view[r.u]["stickers"]) \union {r.item}
              /\ r.op = "del" => ToSet(view'[r.u]["stickers"]) = ToSet(view[r.u]["stickers"]) \ {r.item}
<1>0. r.u \in Users /\ r.item \in Nat /\ "stickers" \in Kinds /\ r.op \in {"add", "del"}
  BY RequestFields, KindsAre DEF WriterStep
<1>1. CASE r.kind # "stickers"
  BY <1>1 DEF WriterStep, shown, NoDuplicates
<1>2. CASE r.kind = "stickers" /\ r.op = "add" /\ Shows(r.u, "stickers", r.item)
  <2>1. view' = view
    BY <1>2 DEF WriterStep
  <2> QED BY <1>0, <1>2, <2>1 DEF NoDuplicates, OneList, Shows
<1>3. CASE r.kind = "stickers" /\ r.op = "add" /\ ~Shows(r.u, "stickers", r.item)
  <2>1. view'[r.u]["stickers"] = Append(view[r.u]["stickers"], r.item) /\ OneList(r.u, "stickers")
    BY <1>0, <1>3 DEF WriterStep, Typed, OneList
  <2> QED BY <1>0, <1>3, <2>1, AppendShows
<1>4. CASE r.kind = "stickers" /\ r.op = "del"
  <2>1. view'[r.u]["stickers"] = Without(view[r.u]["stickers"], r.item) /\ OneList(r.u, "stickers")
    BY <1>0, <1>4 DEF WriterStep, Typed, OneList
  <2> QED BY <1>0, <1>4, <2>1, WithoutShows
<1> QED BY <1>0, <1>1, <1>2, <1>3, <1>4

\* An event that is heard.
LEMMA HeadOf ==
  ASSUME Typed, Placed, NEW u \in Users, wire[u] # <<>>, NEW e, e = Head(wire[u])
  PROVE  /\ wire[u] \in Seq(Events) /\ 1 \in DOMAIN wire[u] /\ e = wire[u][1] /\ e \in Events
         /\ e.kind \in Kinds /\ e.op \in {"add", "del"} /\ e.item \in Nat /\ e.ver \in Nat /\ Wired(e)
<1>1. wire[u] \in Seq(Events) /\ 1 \in DOMAIN wire[u] /\ e = wire[u][1]
  BY DEF Typed
<1> QED BY <1>1, WireFields DEF Placed

LEMMA HearShows ==
  ASSUME Typed, Placed, NoDuplicates, NEW u \in Users, HearStep(u), NEW e, e = Head(wire[u])
  PROVE  /\ NoDuplicates' /\ OneList(u, e.kind)
         /\ e.kind = "members" => view' = view
         /\ e.kind # "members" /\ e.op = "add" =>
              ToSet(view'[u][e.kind]) = IF e.kind \in loaded[u] THEN ToSet(view[u][e.kind]) \union {e.item}
                                        ELSE ToSet(view[u][e.kind])
         /\ e.kind # "members" /\ e.op = "del" =>
              /\ e.kind = "stickers"
              /\ ToSet(view'[u][e.kind]) = ToSet(view[u][e.kind]) \ {e.item}
<1>0. wire[u] # <<>> /\ e.kind \in Kinds /\ e.op \in {"add", "del"} /\ e.item \in Nat
  BY HeadOf DEF HearStep
<1>1. CASE e.kind = "members"
  <2>1. view' = view
    BY <1>1 DEF HearStep, shown
  <2> QED BY <1>1, <2>1 DEF OneList, NoDuplicates
<1>2. CASE e.kind # "members" /\ e.op = "add" /\ Fresh(u, e.kind, e.item)
  <2>0. view' = [view EXCEPT ![u][e.kind] = Append(@, e.item)]
    BY <1>2 DEF HearStep
  <2>1. view'[u][e.kind] = Append(view[u][e.kind], e.item) /\ OneList(u, e.kind)
    BY <1>0, <2>0 DEF Typed, OneList
  <2>2. ~Shows(u, e.kind, e.item) /\ e.kind \in loaded[u]
    BY <1>2 DEF Fresh
  <2>3. NoDuplicates' /\ ToSet(view'[u][e.kind]) = ToSet(view[u][e.kind]) \union {e.item}
    <3>1. PICK k \in Kinds, i \in Nat : k = e.kind /\ i = e.item
      BY <1>0
    <3>2. ~Shows(u, k, i) /\ OneList(u, k) /\ view'[u][k] = Append(view[u][k], i)
      BY <2>1, <2>2, <3>1
    <3>3. NoDuplicates' /\ ToSet(view'[u][k]) = ToSet(view[u][k]) \union {i}
      BY <3>2, AppendShows
    <3> QED BY <3>1, <3>3
  <2> QED BY <1>2, <2>1, <2>2, <2>3
<1>3. CASE e.kind # "members" /\ e.op = "add" /\ ~Fresh(u, e.kind, e.item)
  <2>1. view' = view
    BY <1>3 DEF HearStep
  <2>2. e.kind \in loaded[u] => e.item \in ToSet(view[u][e.kind])
    BY <1>3 DEF Fresh, Shows
  <2> QED BY <1>3, <2>1, <2>2 DEF OneList, NoDuplicates
<1>4. CASE e.kind # "members" /\ e.op = "del"
  <2>1. e.kind = "stickers" /\ view' = [view EXCEPT ![u]["stickers"] = Without(@, e.item)]
    BY <1>4 DEF HearStep
  <2>2. view'[u][e.kind] = Without(view[u][e.kind], e.item) /\ OneList(u, e.kind)
    BY <1>0, <2>1 DEF Typed, OneList
  <2> QED BY <1>0, <1>4, <2>1, <2>2, WithoutShows
<1> QED BY <1>0, <1>1, <1>2, <1>3, <1>4

LEMMA StepsTyped ==
  ASSUME Typed, Placed, NoDuplicates, Step
  PROVE  Typed' /\ Placed' /\ NoDuplicates'
<1>1. CASE AskStep
  BY <1>1, AsksTyped DEF AskStep, shown, NoDuplicates
<1>2. CASE IdleStep
  BY <1>2, IdlesTyped DEF IdleStep, shown, NoDuplicates
<1>3. ASSUME NEW r \in reqs,
             InsertStep(r) \/ DeleteStep(r) \/ NoStep(r) \/ FanStep(r) \/ ReadStep(r) \/ FetchStep(r)
      PROVE  Typed' /\ Placed' /\ NoDuplicates'
  <2>1. view' = view
    BY <1>3 DEF InsertStep, DeleteStep, NoStep, FanStep, ReadStep, FetchStep, shown
  <2> QED BY <1>3, <2>1, InsertsTyped, DeletesTyped, NothingsTyped, FansTyped, ReadsTyped, FetchesTyped DEF NoDuplicates
<1>4. ASSUME NEW r \in reqs, LoadStep(r) \/ WriterStep(r)
      PROVE  Typed' /\ Placed' /\ NoDuplicates'
  BY <1>4, LoadsTyped, LoadShows, WritersTyped, WriterShows
<1>5. ASSUME NEW u \in Users, HearStep(u) PROVE Typed' /\ Placed' /\ NoDuplicates'
  BY <1>5, HearsTyped, HearShows
<1>6. ASSUME NEW u \in Users, DropStep(u) PROVE Typed' /\ Placed' /\ NoDuplicates'
  BY <1>6, DropsTyped DEF DropStep, shown, NoDuplicates
<1> QED BY <1>1, <1>2, <1>3, <1>4, <1>5, <1>6 DEF Step

-----------------------------------------------------------------------------
(* No list shows an item twice.                                              *)

\* Who may be the first members.
First(first) == first \in SUBSET Users /\ Owner \in first /\ IsFiniteSet(first)

\* The empty list, and what the first members show.
LEMMA StartLists ==
  ASSUME NEW first, First(first), NEW k \in Kinds
  PROVE  LET v == Lists(Sorted(first), <<0>>, <<>>)[k]  w == Lists(<<>>, <<>>, <<>>)[k]
         IN /\ v \in Seq(Nat) /\ IsInjective(v) /\ w \in Seq(Nat) /\ IsInjective(w) /\ ToSet(w) = {}
            /\ ToSet(v) = Lists(first, {0}, {})[k]
<1> DEFINE one == Sorted(first)
<1>1. one \in Seq(Nat) /\ IsInjective(one) /\ ToSet(one) = first
  <2>1. first \in SUBSET Nat /\ IsFiniteSet(first)
    BY ConstantsAssumption DEF First
  <2>2. one \in Seq(first) /\ IsInjective(one) /\ ToSet(one) = first
    BY <2>1, SortedLists
  <2> HIDE DEF one
  <2> QED BY <2>1, <2>2, SeqMonotonic
<1>2. <<0>> \in Seq(Nat) /\ IsInjective(<<0>>) /\ ToSet(<<0>>) = {0}
  BY DEF IsInjective, ToSet
<1>3. <<>> \in Seq(Nat) /\ IsInjective(<<>>) /\ ToSet(<<>>) = {}
  BY DEF IsInjective, ToSet
<1> HIDE DEF one
<1>4. Lists(one, <<0>>, <<>>)[k] \in {one, <<0>>, <<>>} /\ Lists(<<>>, <<>>, <<>>)[k] = <<>>
  BY KindsAre DEF Lists
<1>5. ToSet(Lists(one, <<0>>, <<>>)[k]) = Lists(first, {0}, {})[k]
  <2>1. CASE k = "messages"
    BY <1>3, <2>1 DEF Lists
  <2>2. CASE k = "channels"
    BY <1>2, <2>2 DEF Lists
  <2>3. CASE k = "members"
    BY <1>1, <2>3 DEF Lists
  <2>4. CASE k = "stickers"
    BY <1>3, <2>4 DEF Lists
  <2> QED BY <2>1, <2>2, <2>3, <2>4, KindsAre
<1> QED BY <1>1, <1>2, <1>3, <1>4, <1>5 DEF one

\* Where everybody starts.
Started(first) ==
  /\ table = Lists(first, {0}, {}) /\ from = <<>> /\ reqs = {} /\ wire = [u \in Users |-> <<>>]
  /\ online = Users /\ holds = first /\ blind = [u \in Users |-> {}] /\ behind = {}
  /\ view = [u \in Users |-> IF u \in first THEN Lists(Sorted(first), <<0>>, <<>>) ELSE Lists(<<>>, <<>>, <<>>)]
  /\ loaded = [u \in Users |-> IF u \in first THEN {"channels", "members"} ELSE {}]
  /\ urls = [u \in Users |-> {}] /\ objects = [u \in Users |-> [s \in Stickers |-> 0]]
  /\ made = [k \in Kinds |-> 0] /\ ver = [k \in Kinds |-> 0] /\ heard = [u \in Users |-> ver]

LEMMA InitStarts ==
  ASSUME Init
  PROVE  \E first : First(first) /\ Started(first)
<1>1. PICK first \in SUBSET Users : Owner \in first /\ IsFiniteSet(first) /\ StartWith(first, Bounds)
  BY DEF Init
<1>2. Started(first)
  BY <1>1 DEF StartWith, Each, Started
<1> QED BY <1>1, <1>2 DEF First

LEMMA InitTyped ==
  ASSUME Init
  PROVE  Typed /\ Placed /\ NoDuplicates
<1>0. Owner \in Users /\ Owner \in Nat
  BY ConstantsAssumption DEF Owner
<1>1. PICK first : First(first) /\ Started(first)
  BY InitStarts
<1>2. view \in [Users -> [Kinds -> Seq(Nat)]] /\ NoDuplicates
  <2> DEFINE some == Lists(Sorted(first), <<0>>, <<>>)
             none == Lists(<<>>, <<>>, <<>>)
  <2>2. \A k \in Kinds : /\ some[k] \in Seq(Nat) /\ IsInjective(some[k])
                         /\ none[k] \in Seq(Nat) /\ IsInjective(none[k])
    BY <1>1, StartLists
  <2>3. some \in [Kinds -> Seq(Nat)] /\ none \in [Kinds -> Seq(Nat)]
    <3>1. \A k \in Kinds : some[k] \in Seq(Nat) /\ none[k] \in Seq(Nat)
      BY <2>2
    <3>2. some = [k \in Kinds |-> some[k]] /\ none = [k \in Kinds |-> none[k]]
      BY KindsAre DEF Lists
    <3> HIDE DEF some, none
    <3> QED BY <3>1, <3>2
  <2>4. view = [u \in Users |-> IF u \in first THEN some ELSE none]
        /\ \A k \in Kinds : IsInjective(some[k]) /\ IsInjective(none[k])
    BY <1>1, <2>2 DEF Started
  <2> HIDE DEF some, none
  <2> QED BY <2>3, <2>4 DEF NoDuplicates
<1>3. table \in [Kinds -> SUBSET Nat] /\ \A k \in Kinds : IsFiniteSet(table[k])
  <2>1. IsFiniteSet(first) /\ IsFiniteSet({0}) /\ IsFiniteSet({}) /\ first \in SUBSET Nat
    BY <1>1, FS_EmptySet, FS_Singleton, ConstantsAssumption DEF First
  <2> DEFINE t == Lists(first, {0}, {})
  <2>2. t = [k \in Kinds |-> t[k]] /\ \A k \in Kinds : t[k] \in {first, {0}, {}}
    BY KindsAre DEF Lists
  <2>3. \A k \in Kinds : t[k] \in SUBSET Nat /\ IsFiniteSet(t[k])
    BY <2>1, <2>2
  <2> HIDE DEF t
  <2>4. t \in [Kinds -> SUBSET Nat]
    BY <2>2, <2>3
  <2> QED BY <1>1, <2>3, <2>4 DEF t, Started
<1>4. Typed
  BY <1>0, <1>1, <1>2, <1>3, FS_EmptySet, KindsAre DEF Typed, Started, First
<1>5. Placed
  BY <1>0, <1>1, KindsAre DEF Placed, Members, Lists, Started, First
<1> QED BY <1>2, <1>4, <1>5

\* No list of a client shows an item twice, whatever answers, events and its
\* own changes of the list come in whatever order.
THEOREM ListsShowOnce == Spec => []NoDuplicates
<1> DEFINE Inv == Typed /\ Placed /\ NoDuplicates
<1>1. Init => Inv
  BY InitTyped
<1>2. Inv /\ [Next]_vars => Inv'
  BY StepsAre, StepsTyped
<1> QED BY <1>1, <1>2, PTL DEF Spec

-----------------------------------------------------------------------------
(* Object URLs are owned.                                                    *)

\* A sticker is fetched once at a time by a client, and never while it is cached.
Fetches ==
  /\ \A p, q \in reqs : p.op = "fetch" /\ q.op = "fetch" /\ p.u = q.u /\ p.item = q.item => p = q
  /\ \A p \in reqs : p.op = "fetch" => p.item \notin urls[p.u]

\* No new fetch, and no new URL.
LEMMA FetchesRest ==
  ASSUME Typed, Fetches, \A p \in reqs' : p.op = "fetch" => p \in reqs,
         \A u \in Users : urls'[u] \subseteq urls[u]
  PROVE  Fetches'
<1>1. \A p \in reqs' : p.op = "fetch" => p.u \in Users
  BY DEF Typed, Requests
<1> QED BY <1>1 DEF Fetches

\* A request that is further on takes the place of what it was.
LEMMA FetchesTurned ==
  ASSUME Typed, Fetches, NEW r \in reqs, NEW z, NEW pc, Turned(r, z, pc), UNCHANGED urls
  PROVE  Fetches'
<1>1. reqs' = (reqs \ {r}) \union {z} /\ z.u = r.u /\ z.op = r.op /\ z.item = r.item
  BY DEF Turned
<1> QED BY <1>1 DEF Fetches

\* What a removed sticker leaves.
LEMMA RevokedOwned ==
  ASSUME Typed, UrlsOwned, NEW u \in Users, NEW s \in Stickers, Revoked(u, s)
  PROVE  UrlsOwned' /\ \A w \in Users : urls'[w] \subseteq urls[w]
<1>1. urls' = [urls EXCEPT ![u] = @ \ {s}]
  BY DEF Revoked
<1>2. \A w \in Users : urls'[w] = IF w = u THEN urls[w] \ {s} ELSE urls[w]
  BY <1>1 DEF Typed
<1>3. \A w \in Users, t \in Stickers :
        objects'[w][t] = IF w = u /\ t = s /\ s \in urls[u] THEN objects[w][t] - 1 ELSE objects[w][t]
  <2>1. CASE s \in urls[u]
    <3>1. objects' = [objects EXCEPT ![u][s] = @ - 1]
      BY <2>1 DEF Revoked
    <3> QED BY <2>1, <3>1 DEF Typed
  <2>2. CASE s \notin urls[u]
    BY <2>2 DEF Revoked, Typed
  <2> QED BY <2>1, <2>2
<1>4. ASSUME NEW w \in Users, NEW t \in Stickers PROVE objects'[w][t] = IF t \in urls'[w] THEN 1 ELSE 0
  <2>1. objects[w][t] = IF t \in urls[w] THEN 1 ELSE 0
    BY DEF UrlsOwned
  <2>2. CASE w = u /\ t = s
    <3>1. t \notin urls'[w]
      BY <1>2, <2>2
    <3>2. CASE s \in urls[u]
      <4>1. objects[w][t] = 1 /\ objects'[w][t] = objects[w][t] - 1
        BY <1>3, <2>1, <2>2, <3>2
      <4> QED BY <3>1, <4>1
    <3>3. CASE s \notin urls[u]
      <4>1. objects[w][t] = 0 /\ objects'[w][t] = objects[w][t]
        BY <1>3, <2>1, <2>2, <3>3
      <4> QED BY <3>1, <4>1
    <3> QED BY <3>2, <3>3
  <2>3. CASE w # u \/ t # s
    <3>1. (t \in urls'[w] <=> t \in urls[w]) /\ objects'[w][t] = objects[w][t]
      BY <1>2, <1>3, <2>3
    <3> QED BY <2>1, <3>1
  <2> QED BY <2>2, <2>3
<1> QED BY <1>2, <1>4 DEF UrlsOwned

\* A fetch that comes back makes the first URL of its sticker.
LEMMA FetchOwned ==
  ASSUME Typed, Placed, UrlsOwned, Fetches, NEW r \in reqs, FetchStep(r)
  PROVE  UrlsOwned' /\ Fetches'
<1>0. r.u \in Users /\ r.item \in Stickers /\ r.op = "fetch" /\ reqs' = reqs \ {r} /\ r.item \notin urls[r.u]
  BY RequestFields DEF FetchStep, Fetches, Asked
<1>1. CASE UNCHANGED <<urls, objects>>
  BY <1>0, <1>1, FetchesRest DEF UrlsOwned
<1>2. CASE /\ urls' = [urls EXCEPT ![r.u] = @ \union {r.item}]
           /\ objects' = [objects EXCEPT ![r.u][r.item] = @ + 1]
  <2>1. \A w \in Users : urls'[w] = IF w = r.u THEN urls[w] \union {r.item} ELSE urls[w]
    BY <1>0, <1>2 DEF Typed
  <2>2. \A w \in Users, t \in Stickers :
          objects'[w][t] = IF w = r.u /\ t = r.item THEN objects[w][t] + 1 ELSE objects[w][t]
    BY <1>0, <1>2 DEF Typed
  <2>3. UrlsOwned'
    <3>1. ASSUME NEW w \in Users, NEW t \in Stickers PROVE objects'[w][t] = IF t \in urls'[w] THEN 1 ELSE 0
      <4>1. objects[w][t] = IF t \in urls[w] THEN 1 ELSE 0
        BY DEF UrlsOwned
      <4>2. CASE w = r.u /\ t = r.item
        <5>1. t \in urls'[w]
          BY <2>1, <4>2
        <5>2. objects[w][t] = 0 /\ objects'[w][t] = objects[w][t] + 1
          BY <1>0, <2>2, <4>1, <4>2
        <5> QED BY <5>1, <5>2
      <4>3. CASE w # r.u \/ t # r.item
        <5>1. (t \in urls'[w] <=> t \in urls[w]) /\ objects'[w][t] = objects[w][t]
          BY <2>1, <2>2, <4>3
        <5> QED BY <4>1, <5>1
      <4> QED BY <4>2, <4>3
    <3> QED BY <3>1 DEF UrlsOwned
  <2>4. ASSUME NEW p \in reqs', p.op = "fetch" PROVE p.item \notin urls'[p.u]
    <3>1. p \in reqs /\ p # r /\ p.u \in Users /\ p.item \notin urls[p.u]
      BY <1>0, <2>4, RequestFields DEF Fetches
    <3>2. p.u = r.u => p.item # r.item
      BY <1>0, <2>4, <3>1 DEF Fetches
    <3> QED BY <2>1, <3>1, <3>2
  <2> QED BY <1>0, <2>3, <2>4 DEF Fetches
<1> QED BY <1>1, <1>2 DEF FetchStep

LEMMA AskOwned ==
  ASSUME Typed, Placed, UrlsOwned, Fetches, AskStep
  PROVE  UrlsOwned' /\ Fetches'
<1>1. PICK z \in Requests : reqs' = reqs \union {z} /\ (NewItem(z) \/ OldItem(z)) /\ UNCHANGED <<urls, objects>>
  BY DEF AskStep, shown
<1>2. CASE z.op = "fetch"
  <2>1. ~Cached(z.u, z.item) /\ z.kind = "stickers"
    BY <1>1, <1>2 DEF NewItem, OldItem
  <2>2. z.item \notin urls[z.u] /\ \A p \in reqs : p.op = "fetch" => ~(p.u = z.u /\ p.item = z.item)
    <3>1. \A p \in reqs : p.op = "fetch" => p.kind = "stickers"
      BY DEF Placed, Asked
    <3> QED BY <2>1, <3>1 DEF Cached, Pending
  <2> QED BY <1>1, <2>2 DEF Fetches, UrlsOwned
<1>3. CASE z.op # "fetch"
  BY <1>1, <1>3, FetchesRest DEF UrlsOwned
<1> QED BY <1>2, <1>3

LEMMA StepsOwned ==
  ASSUME Typed, Placed, UrlsOwned, Fetches, Step
  PROVE  UrlsOwned' /\ Fetches'
<1>1. CASE AskStep
  BY <1>1, AskOwned
<1>2. CASE IdleStep
  BY <1>2, FetchesRest DEF IdleStep, shown, UrlsOwned
<1>3. ASSUME NEW r \in reqs, InsertStep(r) \/ DeleteStep(r) \/ NoStep(r) \/ FanStep(r) \/ ReadStep(r)
      PROVE  UrlsOwned' /\ Fetches'
  <2>1. UNCHANGED <<urls, objects>>
    BY <1>3 DEF InsertStep, DeleteStep, NoStep, FanStep, ReadStep, shown
  <2>2. reqs' = reqs \ {r} \/ \E z \in Requests : \E pc : Turned(r, z, pc)
    BY <1>3 DEF InsertStep, DeleteStep, NoStep, FanStep, ReadStep
  <2> QED BY <2>1, <2>2, FetchesRest, FetchesTurned DEF UrlsOwned
<1>4. ASSUME NEW r \in reqs, FetchStep(r) PROVE UrlsOwned' /\ Fetches'
  BY <1>4, FetchOwned
<1>5. ASSUME NEW r \in reqs, LoadStep(r) \/ WriterStep(r)
      PROVE  UrlsOwned' /\ Fetches'
  <2>1. \A p \in reqs' : p.op = "fetch" => p \in reqs
    BY <1>5 DEF LoadStep, WriterStep, Finished, Reload
  <2>2. CASE UNCHANGED <<urls, objects>>
    BY <2>1, <2>2, FetchesRest DEF UrlsOwned
  <2>3. CASE r.kind = "stickers" /\ r.op = "del" /\ Revoked(r.u, r.item)
    <3>1. r.u \in Users /\ r.item \in Stickers
      BY <2>3, RequestFields DEF Asked
    <3> QED BY <2>1, <2>3, <3>1, RevokedOwned, FetchesRest
  <2> QED BY <1>5, <2>2, <2>3 DEF LoadStep, WriterStep, shown
<1>6. ASSUME NEW u \in Users, HearStep(u) PROVE UrlsOwned' /\ Fetches'
  <2> DEFINE e == Head(wire[u])
  <2>0. wire[u] # <<>> /\ Wired(e)
    BY <1>6, HeadOf DEF HearStep
  <2>1. \A p \in reqs' : p.op = "fetch" => p \in reqs
    BY <1>6 DEF HearStep, Reload
  <2>2. CASE UNCHANGED <<urls, objects>>
    BY <2>1, <2>2, FetchesRest DEF UrlsOwned
  <2>3. CASE e.kind = "stickers" /\ Revoked(u, e.item)
    <3>1. e.item \in Stickers
      BY <2>0, <2>3 DEF Wired
    <3> QED BY <2>1, <2>3, <3>1, RevokedOwned, FetchesRest
  <2> QED BY <1>6, <2>2, <2>3 DEF HearStep, shown
<1>7. ASSUME NEW u \in Users, DropStep(u) PROVE UrlsOwned' /\ Fetches'
  BY <1>7, FetchesRest DEF DropStep, shown, UrlsOwned
<1> QED BY <1>1, <1>2, <1>3, <1>4, <1>5, <1>6, <1>7 DEF Step

\* Every object URL made for a sticker is the one in the cache: stickers are
\* fetched once at a time, and their URLs revoked when they leave the cache.
THEOREM ObjectUrlsOwned == Spec => []UrlsOwned
<1> DEFINE Inv == Typed /\ Placed /\ NoDuplicates /\ UrlsOwned /\ Fetches
<1>1. Init => Inv
  <2>1. ASSUME Init PROVE UrlsOwned /\ Fetches
    BY <2>1, InitStarts DEF Started, UrlsOwned, Fetches
  <2> QED BY <2>1, InitTyped
<1>2. Inv /\ [Next]_vars => Inv'
  BY StepsAre, StepsTyped, StepsOwned
<1> QED BY <1>1, <1>2, PTL DEF Spec

-----------------------------------------------------------------------------
(* The variables keep their types.                                           *)

\* The messages made so far have a sender each.
Sent(i) == i \in 1..made["messages"]

\* No message is heard of that was not sent.
Real ==
  /\ \A i \in table["messages"] : Sent(i)
  /\ \A r \in reqs : r.kind = "messages" => (r.op = "add" => Sent(r.item)) /\ \A i \in r.ans : Sent(i)
  /\ \A u \in Users : \A j \in DOMAIN wire[u] : wire[u][j].kind = "messages" => Sent(wire[u][j].item)

\* What the other variables hold, beside Typed.
Records ==
  /\ from \in Seq(Users) /\ Len(from) = made["messages"]
  /\ holds \in SUBSET Users /\ behind \subseteq Users \X Kinds
  /\ blind \in [Users -> SUBSET Nat] /\ \A u \in Users : \A i \in blind[u] : Sent(i)

LEMMA RealAsk ==
  ASSUME Typed, Placed, Real, AskStep
  PROVE  Real' /\ \A i : Sent(i) => Sent(i)'
<1>0. made["messages"] \in Nat /\ "messages" \in Kinds
  BY KindsAre DEF Typed
<1>1. PICK z \in Requests : /\ reqs' = reqs \union {z} /\ z.ans = {} /\ (NewItem(z) \/ OldItem(z))
                            /\ UNCHANGED <<table, wire>>
  BY DEF AskStep
<1>2. /\ made'["messages"] \in {made["messages"], made["messages"] + 1}
      /\ z.kind = "messages" /\ z.op = "add" => z.item = made["messages"] + 1 /\ made'["messages"] = z.item
  <2>1. CASE NewItem(z)
    <3>1. made' = [made EXCEPT ![z.kind] = @ + 1] /\ z.item = made[z.kind] + 1
      BY <2>1 DEF NewItem
    <3> QED BY <1>0, <3>1 DEF Typed
  <2>2. CASE OldItem(z)
    BY <2>2 DEF OldItem
  <2> QED BY <1>1, <2>1, <2>2
<1>3. \A i : Sent(i) => Sent(i)'
  BY <1>0, <1>2 DEF Sent
<1>4. z.kind = "messages" /\ z.op = "add" => Sent(z.item)'
  BY <1>0, <1>2 DEF Sent
<1> QED BY <1>1, <1>3, <1>4 DEF Real

\* Everything but an ask leaves what was made.
LEMMA RealRest ==
  ASSUME Real, UNCHANGED made,
         \A i \in table'["messages"] : Sent(i),
         \A q \in reqs' : \/ q \in reqs \/ q.kind # "messages"
                          \/ (q.op = "add" => Sent(q.item)) /\ \A i \in q.ans : Sent(i),
         \A u \in Users : \A j \in DOMAIN wire'[u] :
           wire'[u][j].kind = "messages" => Sent(wire'[u][j].item)
  PROVE  Real' /\ \A i : Sent(i) => Sent(i)'
<1>1. \A i : Sent(i)' <=> Sent(i)
  BY DEF Sent
<1>2. \A q \in reqs' : q.kind = "messages" => (q.op = "add" => Sent(q.item)) /\ \A i \in q.ans : Sent(i)
  BY DEF Real
<1> QED BY <1>1, <1>2 DEF Real

\* A handler writes, sends its event or reads.
LEMMA RealCall ==
  ASSUME Typed, Placed, Real, NEW r \in reqs,
         InsertStep(r) \/ DeleteStep(r) \/ NoStep(r) \/ FanStep(r) \/ ReadStep(r)
  PROVE  Real' /\ \A i : Sent(i) => Sent(i)'
<1>0. /\ r.u \in Users /\ r.kind \in Kinds /\ Asked(r) /\ "messages" \in Kinds /\ UNCHANGED made
      /\ \A i \in table["messages"] : Sent(i)
      /\ r.kind = "messages" => (r.op = "add" => Sent(r.item))
  BY RequestFields, KindsAre DEF Real, InsertStep, DeleteStep, NoStep, FanStep, ReadStep
<1>1. \A i \in table'["messages"] : Sent(i)
  <2>1. CASE InsertStep(r)
    <3>1. table' = [table EXCEPT ![r.kind] = @ \union {r.item}] /\ r.op = "add"
      BY <2>1 DEF InsertStep
    <3> QED BY <1>0, <3>1 DEF Typed
  <2>2. CASE DeleteStep(r)
    <3>1. table' = [table EXCEPT ![r.kind] = @ \ {r.item}]
      BY <2>2 DEF DeleteStep
    <3> QED BY <1>0, <3>1 DEF Typed
  <2>3. CASE NoStep(r) \/ FanStep(r) \/ ReadStep(r)
    BY <1>0, <2>3 DEF NoStep, FanStep, ReadStep
  <2> QED BY <2>1, <2>2, <2>3
<1>2. \A q \in reqs' : \/ q \in reqs \/ q.kind # "messages"
                       \/ (q.op = "add" => Sent(q.item)) /\ \A i \in q.ans : Sent(i)
  <2>1. ASSUME NEW z, NEW pc, Turned(r, z, pc), z.kind = "messages" => \A i \in z.ans : Sent(i)
        PROVE  \A q \in reqs' : \/ q \in reqs \/ q.kind # "messages"
                                \/ (q.op = "add" => Sent(q.item)) /\ \A i \in q.ans : Sent(i)
    BY <1>0, <2>1 DEF Turned
  <2>2. CASE InsertStep(r)
    <3>1. PICK z \in Requests : Turned(r, z, "fan") /\ z.ans = {}
      BY <2>2 DEF InsertStep
    <3> QED BY <2>1, <3>1
  <2>3. CASE DeleteStep(r)
    <3>1. PICK z \in Requests : Turned(r, z, IF r.kind = "members" THEN "reply" ELSE "fan") /\ z.ans = {}
      BY <2>3 DEF DeleteStep
    <3> QED BY <2>1, <3>1
  <2>4. CASE NoStep(r)
    <3>1. reqs' = reqs \ {r} \/ \E z \in Requests : Turned(r, z, "reply") /\ z.ans = {}
      BY <2>4 DEF NoStep
    <3> QED BY <2>1, <3>1
  <2>5. CASE FanStep(r)
    <3>1. PICK z \in Requests :
            Turned(r, z, IF r.op = "del" /\ r.kind = "members" THEN "write" ELSE "reply") /\ z.ans = {}
      BY <2>5 DEF FanStep
    <3> QED BY <2>1, <3>1
  <2>6. CASE ReadStep(r)
    <3>1. CASE reqs' = reqs \ {r}
      BY <3>1
    <3>2. CASE \E z \in Requests : /\ Turned(r, z, "reply")
                                   /\ \/ z.ans = {} \/ z.ans = table[r.kind]
                                      \/ z.ans = table[r.kind] \intersect {r.item}
      <4>1. PICK z \in Requests : Turned(r, z, "reply") /\ \A i \in z.ans : i \in table[r.kind]
        BY <3>2
      <4>2. z.kind = "messages" => \A i \in z.ans : Sent(i)
        BY <1>0, <4>1 DEF Turned
      <4> QED BY <2>1, <4>1, <4>2
    <3> QED BY <2>6, <3>1, <3>2 DEF ReadStep
  <2> QED BY <2>2, <2>3, <2>4, <2>5, <2>6
<1>3. ASSUME NEW u \in Users, NEW j \in DOMAIN wire'[u], wire'[u][j].kind = "messages"
      PROVE  Sent(wire'[u][j].item)
  <2>1. CASE wire' = wire
    BY <1>3, <2>1 DEF Real
  <2>2. CASE FanStep(r)
    <3>1. PICK e \in Events :
            /\ e.kind = r.kind /\ e.item = r.item /\ r.op \in {"add", "del"}
            /\ wire' = [w \in Users |-> IF w \in Members \intersect online THEN Append(wire[w], e) ELSE wire[w]]
      BY <2>2 DEF FanStep
    <3>2. e.kind = "messages" => Sent(e.item)
      BY <1>0, <3>1 DEF Asked
    <3>3. wire[u] \in Seq(Events) /\ (wire'[u] = wire[u] \/ wire'[u] = Append(wire[u], e))
      BY <3>1 DEF Typed
    <3>4. wire'[u][j] = e \/ (j \in DOMAIN wire[u] /\ wire'[u][j] = wire[u][j])
      BY <1>3, <3>3
    <3> QED BY <1>3, <3>2, <3>4 DEF Real
  <2> QED BY <2>1, <2>2 DEF InsertStep, DeleteStep, NoStep, ReadStep
<1> QED BY <1>0, <1>1, <1>2, <1>3, RealRest

\* What an answer, an event or a lost connection changes of what is under way.
ClientMoves ==
  /\ UNCHANGED <<table, made>>
  /\ \A q \in reqs' : q \in reqs \/ (q.op = "load" /\ q.ans = {})
  /\ \A u \in Users : wire'[u] \in {wire[u], <<>>} \/ (wire[u] # <<>> /\ wire'[u] = Tail(wire[u]))

LEMMA RealClient ==
  ASSUME Typed, Real, ClientMoves
  PROVE  Real' /\ \A i : Sent(i) => Sent(i)'
<1>1. UNCHANGED made /\ \A i \in table'["messages"] : Sent(i)
  BY DEF Real, ClientMoves
<1>2. \A q \in reqs' : q \in reqs \/ (q.op = "load" /\ q.ans = {})
  BY DEF ClientMoves
<1>3. ASSUME NEW u \in Users, NEW j \in DOMAIN wire'[u], wire'[u][j].kind = "messages"
      PROVE  Sent(wire'[u][j].item)
  <2>0. wire[u] \in Seq(Events)
    BY DEF Typed
  <2>1. wire'[u] = wire[u] \/ wire'[u] = <<>> \/ (wire[u] # <<>> /\ wire'[u] = Tail(wire[u]))
    BY DEF ClientMoves
  <2>2. \E i \in DOMAIN wire[u] : wire'[u][j] = wire[u][i]
    <3>1. CASE wire'[u] = wire[u]
      BY <1>3, <3>1
    <3>2. CASE wire'[u] = <<>>
      BY <1>3, <3>2
    <3>3. CASE wire[u] # <<>> /\ wire'[u] = Tail(wire[u])
      <4>1. j + 1 \in DOMAIN wire[u] /\ wire'[u][j] = wire[u][j + 1]
        BY <1>3, <2>0, <3>3
      <4> QED BY <4>1
    <3> QED BY <2>1, <3>1, <3>2, <3>3
  <2> QED BY <1>3, <2>2 DEF Real
<1> QED BY <1>1, <1>2, <1>3, RealRest

LEMMA ClientsMove ==
  ASSUME Typed, Step, ~AskStep,
         \A r \in reqs : ~(InsertStep(r) \/ DeleteStep(r) \/ NoStep(r) \/ FanStep(r) \/ ReadStep(r))
  PROVE  ClientMoves
<1>1. CASE IdleStep
  BY <1>1 DEF IdleStep, ClientMoves
<1>2. ASSUME NEW r \in reqs, LoadStep(r) \/ FetchStep(r) \/ WriterStep(r)
      PROVE  ClientMoves
  <2>1. UNCHANGED <<table, made, wire>>
    BY <1>2 DEF LoadStep, FetchStep, WriterStep, Replied
  <2>2. \A q \in reqs' : q \in reqs \/ (q.op = "load" /\ q.ans = {})
    BY <1>2 DEF LoadStep, FetchStep, WriterStep, Finished, Reload
  <2> QED BY <2>1, <2>2 DEF ClientMoves
<1>3. ASSUME NEW u \in Users, HearStep(u)
      PROVE  ClientMoves
  <2>1. UNCHANGED <<table, made>> /\ wire[u] # <<>> /\ wire' = [wire EXCEPT ![u] = Tail(@)]
    BY <1>3 DEF HearStep
  <2>2. \A q \in reqs' : q \in reqs \/ (q.op = "load" /\ q.ans = {})
    BY <1>3 DEF HearStep, Reload
  <2>3. \A w \in Users : wire'[w] = wire[w] \/ (w = u /\ wire'[w] = Tail(wire[w]))
    BY <2>1 DEF Typed
  <2> QED BY <2>1, <2>2, <2>3 DEF ClientMoves
<1>4. ASSUME NEW u \in Users, DropStep(u)
      PROVE  ClientMoves
  <2>1. UNCHANGED <<table, made, reqs>> /\ wire' = [wire EXCEPT ![u] = <<>>]
    BY <1>4 DEF DropStep
  <2>2. \A w \in Users : wire'[w] \in {wire[w], <<>>}
    BY <2>1 DEF Typed
  <2> QED BY <2>1, <2>2 DEF ClientMoves
<1> QED BY <1>1, <1>2, <1>3, <1>4 DEF Step

LEMMA StepsReal ==
  ASSUME Typed, Placed, Real, Step
  PROVE  Real' /\ \A i : Sent(i) => Sent(i)'
<1>1. CASE AskStep
  BY <1>1, RealAsk
<1>2. CASE \E r \in reqs : InsertStep(r) \/ DeleteStep(r) \/ NoStep(r) \/ FanStep(r) \/ ReadStep(r)
  BY <1>2, RealCall
<1>3. CASE ClientMoves
  BY <1>3, RealClient
<1> QED BY <1>1, <1>2, <1>3, ClientsMove

\* Who is behind, and of what.
LEMMA StepsBehind ==
  ASSUME Typed, Placed, Step, behind \subseteq Users \X Kinds
  PROVE  (behind \subseteq Users \X Kinds)'
<1>1. ASSUME NEW r \in reqs, InsertStep(r) \/ DeleteStep(r) \/ NoStep(r) \/ FanStep(r) \/ ReadStep(r)
                             \/ LoadStep(r) \/ FetchStep(r) \/ WriterStep(r)
      PROVE  behind' \subseteq Users \X Kinds
  <2>0. r.u \in Users /\ r.kind \in Kinds /\ Members \subseteq Users
        /\ (r.op = "del" /\ r.kind = "members" => r.item \in Users)
    BY RequestFields DEF Placed, Asked
  <2>1. \/ behind' = behind \/ behind' = behind \union {<<r.u, r.kind>>}
        \/ behind' = behind \union {<<u, r.kind>> : u \in Members \ online}
        \/ r.op = "del" /\ r.kind = "members" /\ behind' = behind \union ({r.item} \X Kinds)
    <3>1. CASE InsertStep(r)
      BY <3>1 DEF InsertStep
    <3>2. CASE DeleteStep(r)
      BY <3>2 DEF DeleteStep
    <3>3. CASE NoStep(r)
      BY <3>3 DEF NoStep
    <3>4. CASE FanStep(r)
      BY <3>4 DEF FanStep
    <3>5. CASE ReadStep(r)
      BY <3>5 DEF ReadStep
    <3>6. CASE LoadStep(r) \/ FetchStep(r) \/ WriterStep(r)
      BY <3>6 DEF LoadStep, FetchStep, WriterStep, Replied
    <3> QED BY <1>1, <3>1, <3>2, <3>3, <3>4, <3>5, <3>6
  <2> QED BY <2>0, <2>1
<1>2. ASSUME NEW u \in Users, HearStep(u)
      PROVE  behind' \subseteq Users \X Kinds
  <2> DEFINE e == Head(wire[u])
  <2>1. wire[u] # <<>>
    BY <1>2 DEF HearStep
  <2>2. behind' = IF e.kind = "stickers" /\ e.ver < heard[u][e.kind]
                    THEN behind \union {<<u, e.kind>>} ELSE behind
    BY <1>2 DEF HearStep
  <2> HIDE DEF e
  <2>3. e.kind \in Kinds
    BY <2>1, HeadOf DEF e
  <2>4. behind' = behind \/ behind' = behind \union {<<u, e.kind>>}
    BY <2>2
  <2> QED BY <2>3, <2>4
<1>3. ASSUME NEW u \in Users, DropStep(u)
      PROVE  behind' \subseteq Users \X Kinds
  <2>1. behind' = behind \union {<<u, wire[u][j].kind>> : j \in DOMAIN wire[u]}
    BY <1>3 DEF DropStep
  <2>2. \A j \in DOMAIN wire[u] : wire[u][j].kind \in Kinds
    BY WireFields
  <2> QED BY <2>1, <2>2
<1>4. CASE AskStep \/ IdleStep
  BY <1>4 DEF AskStep, IdleStep
<1> QED BY <1>1, <1>2, <1>3, <1>4 DEF Step

\* Messages have senders, and who cannot read one has been shown it.
LEMMA StepsRecorded ==
  ASSUME Typed, Placed, Real, Records, [Next]_vars
  PROVE  Records'
<1>0. Step
  BY StepsAre
<1>1. Real' /\ \A i : Sent(i) => Sent(i)'
  BY <1>0, StepsReal
<1>2. behind' \subseteq Users \X Kinds
  BY <1>0, StepsBehind DEF Records
<1>3. from' \in Seq(Users) /\ Len(from') = made'["messages"]
  <2>0. made \in [Kinds -> Nat] /\ "messages" \in Kinds
    BY KindsAre DEF Typed
  <2>1. ASSUME NEW u \in Users, SendMessage(u) PROVE from' \in Seq(Users) /\ Len(from') = made'["messages"]
    <3>1. from' = Append(from, u) /\ made' = [made EXCEPT !["messages"] = @ + 1]
      BY <2>1 DEF SendMessage, Make
    <3> QED BY <2>0, <3>1 DEF Records
  <2>2. CASE UNCHANGED from /\ made'["messages"] = made["messages"]
    BY <2>2 DEF Records
  <2>3. CASE OwnerOnly
    <3>1. UNCHANGED from /\ (UNCHANGED made \/ \E k \in {"channels", "stickers"} : made' = [made EXCEPT ![k] = @ + 1])
      BY <2>3 DEF OwnerOnly, CreateChannel, AddSticker, Make, RemoveMember, DeleteSticker
    <3> QED BY <2>0, <2>2, <3>1
  <2>4. ASSUME NEW u \in Users, User(u), ~SendMessage(u)
        PROVE  UNCHANGED from /\ made'["messages"] = made["messages"]
    BY <2>4 DEF User, AcceptInvite, Open, Show
  <2>5. ASSUME NEW u \in Users, Client(u)
        PROVE  UNCHANGED from /\ made'["messages"] = made["messages"]
    BY <2>5 DEF Client, Receive, KeysUpdated, Drop, Reopen
  <2>6. ASSUME NEW r \in reqs, Call(r)
        PROVE  UNCHANGED from /\ made'["messages"] = made["messages"]
    BY <2>6 DEF Call, Write, Fan, Read, Reply
  <2>7. CASE UNCHANGED vars
    BY <2>2, <2>7 DEF vars
  <2> QED BY <2>1, <2>2, <2>3, <2>4, <2>5, <2>6, <2>7 DEF Next
<1> DEFINE Goal ==
      /\ holds' \in SUBSET Users
      /\ \/ UNCHANGED blind
         \/ \E u \in Users, ms \in SUBSET Nat :
              /\ \A i \in ms : Sent(i)
              /\ \/ blind' = [blind EXCEPT ![u] = Unread(u, ms)]
                 \/ blind' = [blind EXCEPT ![u] = @ \union Unread(u, ms)]
<1>4. Goal
  <2>0. holds \in SUBSET Users
    BY DEF Records
  <2>1. CASE UNCHANGED <<holds, blind>>
    BY <2>0, <2>1
  <2>2. CASE OwnerOnly
    <3>1. UNCHANGED client
      BY <2>2 DEF OwnerOnly, CreateChannel, AddSticker, Make, RemoveMember, DeleteSticker, Ask
    <3> QED BY <2>1, <3>1 DEF client
  <2>3. ASSUME NEW u \in Users, User(u) PROVE Goal
    <3>1. UNCHANGED client
      BY <2>3 DEF User, SendMessage, AcceptInvite, Open, Show, Make, Ask
    <3> QED BY <2>1, <3>1 DEF client
  <2>4. ASSUME NEW u \in Users, KeysUpdated(u) \/ Drop(u) \/ Reopen(u) PROVE Goal
    <3>1. UNCHANGED blind /\ holds' \in {holds, holds \union {u}}
      BY <2>4 DEF KeysUpdated, Drop, Reopen, client
    <3> QED BY <2>0, <3>1
  <2>5. ASSUME NEW u \in Users, Receive(u) PROVE Goal
    <3>0. wire[u] # <<>>
      BY <2>5 DEF Receive
    <3>1. PICK e : e = Head(wire[u])
      OBVIOUS
    <3>2. e.item \in Nat /\ 1 \in DOMAIN wire[u] /\ e = wire[u][1]
      BY <3>0, <3>1, HeadOf
    <3>3. \/ MemberChanged(u, e) \/ Added(u, e.kind, e.item) \/ StickerRemoved(u, e.item)
      BY <2>5, <3>1 DEF Receive
    <3>4. CASE MemberChanged(u, e) \/ StickerRemoved(u, e.item)
      <4>1. UNCHANGED blind /\ holds' \in {holds, holds \ {u}}
        BY <3>4 DEF MemberChanged, StickerRemoved, client
      <4> QED BY <2>0, <4>1
    <3>5. CASE Added(u, e.kind, e.item)
      <4>1. /\ UNCHANGED holds
            /\ \/ UNCHANGED blind
               \/ e.kind = "messages" /\ blind' = [blind EXCEPT ![u] = @ \union Unread(u, {e.item})]
        BY <3>5 DEF Added
      <4>2. e.kind = "messages" => Sent(e.item)
        BY <3>2 DEF Real
      <4>3. {e.item} \in SUBSET Nat
        BY <3>2
      <4>4. CASE UNCHANGED blind
        BY <2>1, <4>1, <4>4
      <4>5. CASE e.kind = "messages" /\ blind' = [blind EXCEPT ![u] = @ \union Unread(u, {e.item})]
        BY <2>0, <4>1, <4>2, <4>3, <4>5
      <4> QED BY <4>1, <4>4, <4>5
    <3> QED BY <3>3, <3>4, <3>5
  <2>6. ASSUME NEW r \in reqs, Call(r) PROVE Goal
    <3>0. r.u \in Users /\ r.ans \in SUBSET Nat
      BY RequestFields
    <3>1. CASE Write(r) \/ Fan(r) \/ Read(r)
      <4>1. UNCHANGED client
        BY <3>1 DEF Write, Fan, Read
      <4> QED BY <2>1, <4>1 DEF client
    <3>2. CASE Reply(r)
      <4>1. CASE FetchReply(r) \/ WriteReply(r)
        BY <2>1, <4>1 DEF FetchReply, WriteReply
      <4>2. CASE LoadReply(r)
        <5>1. UNCHANGED holds /\ \/ UNCHANGED blind
                                 \/ r.kind = "messages" /\ blind' = [blind EXCEPT ![r.u] = Unread(r.u, r.ans)]
          BY <4>2 DEF LoadReply
        <5>2. r.kind = "messages" => \A i \in r.ans : Sent(i)
          BY DEF Real
        <5> QED BY <2>0, <2>1, <3>0, <5>1, <5>2
      <4> QED BY <3>2, <4>1, <4>2 DEF Reply
    <3> QED BY <2>6, <3>1, <3>2 DEF Call
  <2>7. CASE UNCHANGED vars
    BY <2>1, <2>7 DEF vars, client
  <2> QED BY <2>2, <2>3, <2>4, <2>5, <2>6, <2>7 DEF Next, Client
<1>5. blind' \in [Users -> SUBSET Nat] /\ \A u \in Users : \A i \in blind'[u] : Sent(i)
  <2>0. blind \in [Users -> SUBSET Nat] /\ \A u \in Users : \A i \in blind[u] : Sent(i)
    BY DEF Records
  <2>1. CASE UNCHANGED blind
    BY <2>0, <2>1
  <2>2. ASSUME NEW u \in Users, NEW ms \in SUBSET Nat, \A i \in ms : Sent(i),
               \/ blind' = [blind EXCEPT ![u] = Unread(u, ms)]
               \/ blind' = [blind EXCEPT ![u] = @ \union Unread(u, ms)]
        PROVE  blind' \in [Users -> SUBSET Nat] /\ \A w \in Users : \A i \in blind'[w] : Sent(i)
    <3>1. Unread(u, ms) \in SUBSET ms
      BY DEF Unread
    <3>2. PICK new \in SUBSET Nat : (\A i \in new : Sent(i)) /\ blind' = [blind EXCEPT ![u] = new]
      <4>1. Unread(u, ms) \in SUBSET Nat /\ \A i \in Unread(u, ms) : Sent(i)
        BY <2>2, <3>1
      <4>2. PICK b \in SUBSET Nat : b = Unread(u, ms)
        BY <4>1
      <4>3. blind[u] \union b \in SUBSET Nat /\ \A i \in blind[u] \union b : Sent(i)
        BY <2>0, <4>1, <4>2
      <4> QED BY <2>2, <4>1, <4>2, <4>3
    <3> QED BY <2>0, <3>2
  <2> QED BY <1>4, <2>1, <2>2
<1>6. \A u \in Users : \A i \in blind'[u] : Sent(i)'
  BY <1>1, <1>5
<1>7. holds' \in SUBSET Users
  BY <1>4
<1>8. blind' \in [Users -> SUBSET Nat]
  BY <1>5
<1> QED BY <1>2, <1>3, <1>6, <1>7, <1>8 DEF Records

LEMMA InitRecorded ==
  ASSUME Init
  PROVE  Real /\ Records
<1>1. PICK first : First(first) /\ Started(first)
  BY InitStarts
<1>2. table["messages"] = {} /\ made["messages"] = 0
  BY <1>1, KindsAre DEF Lists, Started
<1>3. Real
  <2>1. \A u \in Users : wire[u] = <<>>
    BY <1>1 DEF Started
  <2>2. \A u \in Users : \A j \in DOMAIN wire[u] : FALSE
    BY <2>1
  <2> QED BY <1>1, <1>2, <2>2 DEF Real, Started
<1>4. Records
  BY <1>1, <1>2 DEF Records, Started, First
<1> QED BY <1>3, <1>4

LEMMA TypesAre ==
  ASSUME Typed, Placed, UrlsOwned, Records
  PROVE  TypeOK
<1>1. \A r \in reqs : r.u \in Users /\ r.kind \in Kinds /\ r.pc \in {"read", "write", "fan", "reply"}
  BY RequestFields
<1>2. \A u \in Users : \A j \in DOMAIN wire[u] : wire[u][j].kind \in Kinds
  BY WireFields
<1>3. objects \in [Users -> [Stickers -> Nat]]
  <2>1. \A u \in Users, s \in Stickers : objects[u][s] \in Nat
    BY DEF UrlsOwned
  <2>2. \A u \in Users : objects[u] \in [Stickers -> Nat]
    BY <2>1 DEF Typed
  <2> QED BY <2>2 DEF Typed
<1>4. \A u \in Users : blind[u] \subseteq DOMAIN from
  <2>1. \A i : Sent(i) => i \in DOMAIN from
    BY DEF Records, Sent
  <2> QED BY <2>1 DEF Records
<1> QED BY <1>1, <1>2, <1>3, <1>4 DEF TypeOK, Typed, Records

\* The variables keep their types; a message shown without its text was sent by
\* somebody, and no object URL is revoked twice.
THEOREM ViewsTypeCorrect == Spec => []TypeOK
<1> DEFINE Inv == Typed /\ Placed /\ NoDuplicates /\ UrlsOwned /\ Fetches /\ Real /\ Records
<1>1. Init => Inv
  <2>1. ASSUME Init PROVE UrlsOwned /\ Fetches
    BY <2>1, InitStarts DEF Started, UrlsOwned, Fetches
  <2> QED BY <2>1, InitTyped, InitRecorded
<1>2. Inv /\ [Next]_vars => Inv'
  BY StepsAre, StepsTyped, StepsOwned, StepsReal, StepsRecorded
<1>3. Inv => TypeOK
  BY TypesAre
<1> QED BY <1>1, <1>2, <1>3, PTL DEF Spec

-----------------------------------------------------------------------------
(* News: what the clients have still to be told of a kind.                   *)

\* The event that tells of a request's change.
Tells(e, p) == e.kind = p.kind /\ e.op = p.op /\ e.item = p.item /\ e.ver = p.ver

\* A request of the kind that changes its table, at some place of its handler.
Writes(p, k, pc) == p.op \in {"add", "del"} /\ p.kind = k /\ p.pc = pc

\* News that are on the way to u, or to go out, or that the owner's own answer
\* brings: it changes the list of stickers by itself.
OnWire(u, k) == {e \in Events : e.kind = k /\ \E j \in DOMAIN wire[u] : wire[u][j] = e}
Due(k) == {e \in Events : \E p \in reqs : Writes(p, k, "fan") /\ Tells(e, p)}
Told(u, k) == {e \in Events : \E p \in reqs : Writes(p, k, "reply") /\ k = "stickers" /\ p.u = u /\ Tells(e, p)}
Coming(u, k) == OnWire(u, k) \union Due(k)
News(u, k) == Coming(u, k) \union Told(u, k)
Comes(u, op, k, i) == \E x \in Coming(u, k) : x.op = op /\ x.item = i

\* Answers that are on their way to u with a list or a sticker.
Replies(u, k) == {r \in reqs : r.u = u /\ r.kind = k /\ r.op \in {"load", "fetch"} /\ r.pc = "reply" /\ ~Outsider(r)}

\* At most what there was is to be told.
Fewer(u, k) ==
  /\ table'[k] = table[k] /\ ver'[k] = ver[k]
  /\ News(u, k)' \subseteq News(u, k) /\ Replies(u, k)' \subseteq Replies(u, k)

\* Nothing that concerns u and the kind happens, but that answers get lost or
\* become too old.
Still(u, k) ==
  /\ Fewer(u, k) /\ Coming(u, k)' = Coming(u, k) /\ Told(u, k) \subseteq Told(u, k)'
  /\ view'[u][k] = view[u][k] /\ (k \in loaded'[u] => k \in loaded[u])
  /\ (k = "stickers" => urls'[u] = urls[u]) /\ heard[u][k] <= heard'[u][k]

\* A step that leaves the tables, the wires and what is shown alone.
Aside == UNCHANGED <<table, ver, wire, shown, heard>>

LEMMA NewsKindsAre == NewsKinds = Kinds \ {"members"} /\ NewsKinds \subseteq Kinds
BY DEF NewsKinds, Kinds

LEMMA EventsEqual ==
  ASSUME NEW d \in Events, NEW e \in Events, d.kind = e.kind, d.op = e.op, d.item = e.item, d.ver = e.ver
  PROVE  d = e
BY DEF Events

\* It is still for all if the requests that matter stay as they are.
LEMMA AsideStill ==
  ASSUME Typed, Aside, NEW u \in Users, NEW k \in NewsKinds,
         \A p \in reqs' \ reqs : ~Writes(p, k, "fan") /\ ~Writes(p, k, "reply") /\ p.pc # "reply",
         \A p \in reqs \ reqs' : ~Writes(p, k, "fan") /\ ~Writes(p, k, "reply")
  PROVE  Still(u, k)
<1>1. OnWire(u, k)' = OnWire(u, k)
  BY DEF OnWire, Aside
<1>2. Due(k)' = Due(k)
  BY DEF Due
<1>3. Told(u, k)' = Told(u, k)
  BY DEF Told
<1>4. Replies(u, k)' \subseteq Replies(u, k)
  BY DEF Replies, Outsider
<1>5. heard[u][k] <= heard'[u][k]
  BY NewsKindsAre DEF Aside, Typed
<1> QED BY <1>1, <1>2, <1>3, <1>4, <1>5 DEF Still, Fewer, Coming, News, Aside, shown

LEMMA AsksStill ==
  ASSUME Typed, Placed, AskStep \/ IdleStep, NEW u \in Users, NEW k \in NewsKinds
  PROVE  Still(u, k)
<1>1. CASE IdleStep
  BY <1>1, AsideStill DEF IdleStep, Aside
<1>2. CASE AskStep
  <2>1. PICK z \in Requests : reqs' = reqs \union {z} /\ (NewItem(z) \/ OldItem(z)) /\ Aside
    BY <1>2 DEF AskStep, Aside, shown
  <2>2. z.pc # "reply" /\ ~Writes(z, k, "fan")
    BY <2>1 DEF NewItem, OldItem, Writes, NewsKinds
  <2> QED BY <2>1, <2>2, AsideStill DEF Writes
<1> QED BY <1>1, <1>2

LEMMA NothingsStill ==
  ASSUME Typed, Placed, NEW r \in reqs, NoStep(r), NEW u \in Users, NEW k \in NewsKinds
  PROVE  Still(u, k)
<1>0. Aside /\ r.pc = "write"
  BY DEF NoStep, Aside
<1>1. CASE reqs' = reqs \ {r}
  BY <1>0, <1>1, AsideStill DEF Writes
<1>2. CASE \E z \in Requests : r.op = "add" /\ r.kind = "members" /\ Turned(r, z, "reply")
  <2>1. PICK z \in Requests : r.kind = "members" /\ r.op = "add" /\ Turned(r, z, "reply")
    BY <1>2
  <2>2. /\ OnWire(u, k)' = OnWire(u, k) /\ Due(k)' = Due(k) /\ Told(u, k)' = Told(u, k)
        /\ Replies(u, k)' \subseteq Replies(u, k)
    <3>1. z.kind = "members" /\ z.op = "add" /\ k # "members" /\ reqs' = (reqs \ {r}) \union {z}
      BY <2>1 DEF Turned, NewsKinds
    <3>2. OnWire(u, k)' = OnWire(u, k)
      BY <1>0 DEF OnWire, Aside
    <3>3. Due(k)' = Due(k)
      BY <2>1, <3>1 DEF Due, Writes
    <3>4. Told(u, k)' = Told(u, k)
      BY <2>1, <3>1 DEF Told, Writes
    <3>5. Replies(u, k)' \subseteq Replies(u, k)
      BY <2>1, <3>1 DEF Replies, Outsider
    <3> QED BY <3>2, <3>3, <3>4, <3>5
  <2>3. heard[u][k] <= heard'[u][k]
    BY <1>0, NewsKindsAre DEF Aside, Typed
  <2> QED BY <1>0, <2>2, <2>3 DEF Still, Fewer, Coming, News, Aside, shown
<1> QED BY <1>1, <1>2 DEF NoStep

\* A change of a table is due, and concerns its kind only.
ChangeDue(r) ==
  \E e \in Events :
    /\ e.kind = r.kind /\ e.op = r.op /\ e.item = r.item /\ e.ver = ver[r.kind] + 1
    /\ \A u \in Users : Coming(u, r.kind)' = Coming(u, r.kind) \union {e}

LEMMA ChangesSpread ==
  ASSUME Typed, Placed, NEW r \in reqs, InsertStep(r) \/ DeleteStep(r)
  PROVE  /\ \A u \in Users, k \in NewsKinds : k # r.kind => Still(u, k)
         /\ r.kind \in NewsKinds => ChangeDue(r)
         /\ \A u \in Users, k \in NewsKinds : Told(u, k)' = Told(u, k) /\ Replies(u, k)' = Replies(u, k)
<1>0. /\ r.pc = "write" /\ r.op \in {"add", "del"} /\ r.kind \in Kinds /\ r.item \in Nat /\ ver[r.kind] + 1 \in Nat
      /\ UNCHANGED <<wire, shown, heard>>
  BY RequestFields DEF InsertStep, DeleteStep, Typed
<1> DEFINE pc == IF r.op = "del" /\ r.kind = "members" THEN "reply" ELSE "fan"
<1>1. PICK z \in Requests : Turned(r, z, pc) /\ z.ver = ver[r.kind] + 1
  BY DEF InsertStep, DeleteStep
<1>2. /\ reqs' = (reqs \ {r}) \union {z} /\ z.kind = r.kind /\ z.op = r.op /\ z.item = r.item
      /\ z.kind \in NewsKinds => z.pc = "fan"
      /\ z.ver = ver[r.kind] + 1
  BY <1>1 DEF Turned, NewsKinds
<1>3. \A u \in Users, k \in NewsKinds : OnWire(u, k)' = OnWire(u, k)
  BY <1>0 DEF OnWire
<1>4. \A u \in Users, k \in NewsKinds : Told(u, k)' = Told(u, k)
  BY <1>0, <1>2 DEF Told, Writes
<1>5. \A u \in Users, k \in NewsKinds : Replies(u, k)' = Replies(u, k)
  BY <1>0, <1>2 DEF Replies, Outsider
<1>6. ASSUME NEW u \in Users, NEW k \in NewsKinds, k # r.kind PROVE Still(u, k)
  <2>1. Due(k)' = Due(k)
    BY <1>2, <1>6 DEF Due, Writes
  <2>2. table'[k] = table[k] /\ ver'[k] = ver[k] /\ heard[u][k] <= heard'[u][k]
    BY <1>0, <1>6, NewsKindsAre DEF InsertStep, DeleteStep, Typed
  <2> QED BY <1>0, <1>3, <1>4, <1>5, <2>1, <2>2 DEF Still, Fewer, Coming, News, shown
<1>7. ASSUME r.kind \in NewsKinds PROVE ChangeDue(r)
  <2>1. PICK e \in Events : e.kind = r.kind /\ e.op = r.op /\ e.item = r.item /\ e.ver = ver[r.kind] + 1
    <3> DEFINE d == [kind |-> r.kind, op |-> r.op, item |-> r.item, ver |-> ver[r.kind] + 1]
    <3>1. d \in Events
      BY <1>0 DEF Events
    <3> QED BY <3>1
  <2>2. Tells(e, z)
    BY <1>2, <2>1 DEF Tells
  <2>3. \A d \in Events : Tells(d, z) => d = e
    BY <2>2, EventsEqual DEF Tells
  <2>4. Due(r.kind)' = Due(r.kind) \union {e}
    BY <1>0, <1>2, <1>7, <2>2, <2>3 DEF Due, Writes
  <2>5. \A u \in Users : Coming(u, r.kind)' = Coming(u, r.kind) \union {e}
    BY <1>3, <1>7, <2>4 DEF Coming
  <2> QED BY <2>1, <2>5 DEF ChangeDue
<1> QED BY <1>4, <1>5, <1>6, <1>7

\* An event is put on the wires.
LEMMA FanWires ==
  ASSUME Typed, NEW e \in Events, NEW u \in Users, NEW k,
         wire' = [w \in Users |-> IF w \in Members \intersect online THEN Append(wire[w], e) ELSE wire[w]]
  PROVE  OnWire(u, k)' = IF u \in Members \intersect online /\ k = e.kind THEN OnWire(u, k) \union {e} ELSE OnWire(u, k)
<1>1. wire[u] \in Seq(Events)
  BY DEF Typed
<1>2. CASE u \in Members \intersect online
  <2>1. wire'[u] = Append(wire[u], e)
    BY <1>2
  <2>2. DOMAIN wire'[u] = DOMAIN wire[u] \union {Len(wire[u]) + 1} /\ wire'[u][Len(wire[u]) + 1] = e
        /\ \A j \in DOMAIN wire[u] : wire'[u][j] = wire[u][j]
    BY <1>1, <2>1
  <2> QED BY <1>2, <2>2 DEF OnWire
<1>3. CASE u \notin Members \intersect online
  BY <1>3 DEF OnWire
<1> QED BY <1>2, <1>3

\* An event goes out: those who follow the kind have been told no less.
LEMMA FansSpread ==
  ASSUME Typed, Placed, NEW r \in reqs, FanStep(r), NEW u \in Users, NEW k \in NewsKinds
  PROVE  Fewer(u, k) /\ (u \in Members /\ <<u, k>> \notin behind' => Still(u, k))
<1>0. /\ r.pc = "fan" /\ r.op \in {"add", "del"} /\ r.kind \in Kinds /\ r \in Requests
      /\ UNCHANGED <<table, online, shown, ver, heard>>
  BY RequestFields DEF FanStep
<1> DEFINE pc == IF r.op = "del" /\ r.kind = "members" THEN "write" ELSE "reply"
<1>1. PICK z \in Requests : Turned(r, z, pc) /\ z.ver = r.ver
  BY DEF FanStep
<1>2. PICK e \in Events :
       /\ e.kind = r.kind /\ e.op = r.op /\ e.item = r.item
       /\ e.ver = (IF r.op = "del" /\ r.kind = "members" THEN ver["members"] ELSE r.ver)
       /\ wire' = [w \in Users |-> IF w \in Members \intersect online THEN Append(wire[w], e) ELSE wire[w]]
  BY DEF FanStep
<1>3. reqs' = (reqs \ {r}) \union {z} /\ z.kind = r.kind /\ z.op = r.op /\ z.item = r.item /\ z.ver = r.ver
      /\ z.u = r.u /\ z.pc # "fan" /\ z.op \in {"add", "del"}
  BY <1>0, <1>1 DEF Turned
<1>4. Replies(u, k)' \subseteq Replies(u, k)
  BY <1>3 DEF Replies, Outsider
<1>5. heard[u][k] <= heard'[u][k] /\ table' = table /\ ver' = ver
  BY <1>0, NewsKindsAre DEF Typed
<1>6. OnWire(u, k)' = IF u \in Members \intersect online /\ k = r.kind THEN OnWire(u, k) \union {e} ELSE OnWire(u, k)
  BY <1>2, FanWires
<1>7. CASE k # r.kind
  <2>1. Due(k)' = Due(k) /\ Told(u, k)' = Told(u, k)
    BY <1>3, <1>7 DEF Due, Told, Writes
  <2> QED BY <1>0, <1>4, <1>5, <1>6, <1>7, <2>1 DEF Still, Fewer, Coming, News, shown
<1>8. CASE k = r.kind
  <2>0. k # "members" /\ e.ver = r.ver
    BY <1>2, <1>8 DEF NewsKinds
  <2>1. Tells(e, r) /\ Tells(e, z) /\ \A d \in Events : Tells(d, r) \/ Tells(d, z) => d = e
    BY <1>2, <1>3, <2>0, EventsEqual DEF Tells
  <2>2. e \in Due(k) /\ Due(k)' \subseteq Due(k) /\ Due(k) \subseteq Due(k)' \union {e}
    BY <1>0, <1>3, <1>8, <2>1 DEF Due, Writes
  <2>3. Told(u, k) \subseteq Told(u, k)' /\ Told(u, k)' \subseteq Told(u, k) \union {e}
    BY <1>0, <1>3, <1>8, <2>1 DEF Told, Writes
  <2>4. Fewer(u, k)
    BY <1>4, <1>5, <1>6, <2>2, <2>3 DEF Fewer, Coming, News
  <2>5. ASSUME u \in Members, <<u, k>> \notin behind' PROVE Still(u, k)
    <3>1. u \in online
      BY <1>8, <2>5 DEF FanStep
    <3>2. Coming(u, k)' = Coming(u, k)
      BY <1>6, <1>8, <2>2, <2>5, <3>1 DEF Coming
    <3> QED BY <1>0, <1>5, <2>3, <2>4, <3>2 DEF Still, shown
  <2> QED BY <2>4, <2>5
<1> QED BY <1>7, <1>8

\* A list or a sticker is read.
LEMMA ReadsSpread ==
  ASSUME Typed, Placed, NEW r \in reqs, ReadStep(r), NEW u \in Users, NEW k \in NewsKinds
  PROVE  /\ u # r.u \/ k # r.kind => Still(u, k)
         /\ UNCHANGED <<table, ver, shown, heard>>
         /\ Coming(u, k)' = Coming(u, k) /\ Told(u, k)' = Told(u, k)
         /\ \A q \in Replies(u, k)' : q \in Replies(u, k) \/
              /\ q.u = r.u /\ q.kind = r.kind /\ q.op = r.op /\ q.ver = ver[k] /\ r.u \in Members
              /\ \/ q.op = "load" /\ q.ans = table[k]
                 \/ q.op = "fetch" /\ q.ans = table[k] \intersect {q.item}
<1>0. UNCHANGED <<table, ver, wire, shown, heard>> /\ r.pc = "read" /\ r.op \in {"load", "fetch"}
  BY DEF ReadStep
<1>1. CASE reqs' = reqs \ {r}
  <2>1. Still(u, k)
    BY <1>0, <1>1, AsideStill DEF Writes, Aside
  <2>2. Replies(u, k)' \subseteq Replies(u, k) /\ Due(k)' = Due(k) /\ OnWire(u, k)' = OnWire(u, k) /\ Told(u, k)' = Told(u, k)
    BY <1>0, <1>1 DEF Replies, Outsider, Due, OnWire, Told, Writes
  <2> QED BY <1>0, <2>1, <2>2 DEF Coming
<1>2. CASE \E z \in Requests :
          /\ Turned(r, z, "reply") /\ z.ver = ver[r.kind]
          /\ \/ r.u \notin Members /\ r.kind = "channels" /\ z.ans = {}
             \/ r.u \in Members /\ r.op = "load" /\ z.ans = table[r.kind]
             \/ r.u \in Members /\ r.op = "fetch" /\ z.ans = table[r.kind] \intersect {r.item}
  <2>1. PICK z \in Requests :
          /\ Turned(r, z, "reply") /\ z.ver = ver[r.kind]
          /\ \/ r.u \notin Members /\ r.kind = "channels" /\ z.ans = {}
             \/ r.u \in Members /\ r.op = "load" /\ z.ans = table[r.kind]
             \/ r.u \in Members /\ r.op = "fetch" /\ z.ans = table[r.kind] \intersect {r.item}
    BY <1>2
  <2>2. reqs' = (reqs \ {r}) \union {z} /\ z.u = r.u /\ z.kind = r.kind /\ z.op = r.op /\ z.item = r.item
    BY <2>1 DEF Turned
  <2>3. Due(k)' = Due(k) /\ Told(u, k)' = Told(u, k) /\ OnWire(u, k)' = OnWire(u, k)
    BY <1>0, <2>2 DEF Due, Told, Writes, OnWire
  <2>4. \A q \in Replies(u, k)' : q \in Replies(u, k) \/ (q = z /\ z.kind = k /\ z.u = u /\ ~Outsider(z))
    BY <2>2 DEF Replies, Outsider
  <2>5. heard[u][k] <= heard'[u][k]
    BY <1>0, NewsKindsAre DEF Typed
  <2>6. ASSUME u # r.u \/ k # r.kind PROVE Still(u, k)
    <3>1. Replies(u, k)' \subseteq Replies(u, k)
      BY <2>2, <2>4, <2>6
    <3> QED BY <1>0, <2>3, <2>5, <3>1 DEF Still, Fewer, Coming, News, shown
  <2>7. ~Outsider(z) =>
          /\ r.u \in Members
          /\ \/ z.op = "load" /\ z.ans = table[z.kind]
             \/ z.op = "fetch" /\ z.ans = table[z.kind] \intersect {z.item}
    <3>1. CASE r.u \notin Members /\ r.kind = "channels" /\ z.ans = {}
      BY <2>2, <3>1 DEF Outsider
    <3>2. CASE r.u \in Members /\ r.op = "load" /\ z.ans = table[r.kind]
      BY <2>2, <3>2
    <3>3. CASE r.u \in Members /\ r.op = "fetch" /\ z.ans = table[r.kind] \intersect {r.item}
      BY <2>2, <3>3
    <3> QED BY <2>1, <3>1, <3>2, <3>3
  <2> QED BY <1>0, <2>1, <2>2, <2>3, <2>4, <2>6, <2>7 DEF Coming
<1> QED BY <1>1, <1>2 DEF ReadStep

\* A client gets an answer: what it changes is the kind of the request.
LEMMA AnswersSpread ==
  ASSUME Typed, Placed, NoDuplicates, NEW r \in reqs, LoadStep(r) \/ FetchStep(r) \/ WriterStep(r),
         NEW u \in Users, NEW k \in NewsKinds
  PROVE  /\ u # r.u \/ k # r.kind => Still(u, k)
         /\ Fewer(u, k) /\ Coming(u, k)' = Coming(u, k) /\ r \notin Replies(u, k)'
         /\ \A x \in Told(u, k) : x \in Told(u, k)' \/ (Tells(x, r) /\ Writes(r, k, "reply") /\ r.u = u)
<1>0. /\ r.pc = "reply" /\ Finished(r) /\ Replied(r) /\ r.u \in Users /\ r.kind \in Kinds /\ r.ver \in Nat /\ r.ver <= ver[r.kind]
      /\ UNCHANGED <<table, wire, ver>> /\ heard' = Later(r.u, r.kind, r.ver)
  BY RequestFields DEF LoadStep, FetchStep, WriterStep, Finished, Replied, Asked
<1>1. OnWire(u, k)' = OnWire(u, k)
  BY <1>0 DEF OnWire
<1>2. Due(k)' = Due(k) /\ Told(u, k)' \subseteq Told(u, k) /\ Replies(u, k)' \subseteq Replies(u, k) /\ r \notin Replies(u, k)'
  BY <1>0 DEF Finished, Reload, Due, Writes, Told, Replies, Outsider
<1>3. \A x \in Told(u, k) : x \in Told(u, k)' \/ (Tells(x, r) /\ Writes(r, k, "reply") /\ r.u = u)
  BY <1>0 DEF Finished, Reload, Writes, Told
<1>4. Fewer(u, k) /\ Coming(u, k)' = Coming(u, k)
  BY <1>0, <1>1, <1>2 DEF Fewer, Coming, News
<1>5. ASSUME u # r.u \/ k # r.kind PROVE Still(u, k)
  <2>1. Told(u, k) \subseteq Told(u, k)'
    BY <1>3, <1>5 DEF Writes
  <2>2. heard[u][k] <= heard'[u][k]
    BY <1>0, LaterTyped, NewsKindsAre
  <2>3. view'[u][k] = view[u][k]
    <3>1. LoadStep(r) \/ WriterStep(r) => OneList(r.u, r.kind)
      BY LoadShows, WriterShows DEF OneList
    <3>2. FetchStep(r) => view' = view
      BY DEF FetchStep
    <3> QED BY <1>5, <3>1, <3>2, NewsKindsAre DEF OneList
  <2>4. k \in loaded'[u] => k \in loaded[u]
    <3>1. loaded \in [Users -> SUBSET Kinds]
      BY DEF Typed
    <3>2. CASE LoadStep(r)
      <4>1. loaded' = [loaded EXCEPT ![r.u] = IF Outsider(r) THEN @ \ {r.kind} ELSE @ \union {r.kind}]
        BY <3>2 DEF LoadStep
      <4>2. CASE u = r.u
        <5>1. loaded'[u] = loaded[u] \ {r.kind} \/ loaded'[u] = loaded[u] \union {r.kind}
          BY <1>0, <3>1, <4>1, <4>2
        <5> QED BY <1>5, <4>2, <5>1
      <4>3. CASE u # r.u
        BY <3>1, <4>1, <4>3
      <4> QED BY <4>2, <4>3
    <3>3. CASE FetchStep(r)
      BY <3>3 DEF FetchStep
    <3>4. CASE WriterStep(r)
      <4>1. UNCHANGED loaded \/ (r.kind = "stickers" /\ loaded' = [loaded EXCEPT ![r.u] = @ \union {"stickers"}])
        BY <3>4 DEF WriterStep, shown
      <4> QED BY <1>0, <1>5, <3>1, <4>1
    <3> QED BY <3>2, <3>3, <3>4
  <2>5. k = "stickers" => urls'[u] = urls[u]
    <3>1. UNCHANGED urls \/ (r.kind = "stickers" /\ \E s : urls' = [urls EXCEPT ![r.u] = s])
      <4>1. FetchStep(r) => r.kind = "stickers"
        BY DEF FetchStep, Placed, Asked
      <4> QED BY <4>1 DEF LoadStep, FetchStep, WriterStep, shown, Revoked
    <3>2. urls \in [Users -> SUBSET Stickers]
      BY DEF Typed
    <3> QED BY <1>0, <1>5, <3>1, <3>2
  <2> QED BY <1>4, <2>1, <2>2, <2>3, <2>4, <2>5 DEF Still
<1> QED BY <1>2, <1>3, <1>4, <1>5

\* An event is taken from the wire.
LEMMA HearWires ==
  ASSUME Typed, NEW w \in Users, wire[w] # <<>>, wire'[w] = Tail(wire[w]),
         \A v \in Users : v # w => wire'[v] = wire[v], NEW e, e = wire[w][1], NEW u \in Users, NEW k
  PROVE  /\ OnWire(u, k)' \subseteq OnWire(u, k)
         /\ OnWire(u, k) \subseteq OnWire(u, k)' \union {e}
         /\ u # w \/ k # e.kind => OnWire(u, k)' = OnWire(u, k)
<1>0. wire[w] \in Seq(Events)
  BY DEF Typed
<1>1. /\ \A j \in DOMAIN wire'[w] : j + 1 \in DOMAIN wire[w] /\ wire'[w][j] = wire[w][j + 1]
      /\ \A j \in DOMAIN wire[w] : j = 1 \/ (j - 1 \in DOMAIN wire'[w] /\ wire'[w][j - 1] = wire[w][j])
  <2>1. wire'[w] = Tail(wire[w])
    BY <1>0 DEF Typed
  <2>2. PICK s \in Seq(Events) : s = wire[w] /\ s # <<>>
    BY <1>0
  <2>3. /\ \A j \in DOMAIN Tail(s) : j + 1 \in DOMAIN s /\ Tail(s)[j] = s[j + 1]
        /\ \A j \in DOMAIN s : j = 1 \/ (j - 1 \in DOMAIN Tail(s) /\ Tail(s)[j - 1] = s[j])
    <3>1. Len(s) \in Nat /\ DOMAIN s = 1..Len(s) /\ DOMAIN Tail(s) = 1..(Len(s) - 1) /\ Len(s) # 0
      BY <2>2
    <3>2. \A j \in 1..(Len(s) - 1) : Tail(s)[j] = s[j + 1]
      BY <2>2
    <3>3. \A j \in 1..Len(s) : j = 1 \/ (j - 1 \in 1..(Len(s) - 1) /\ (j - 1) + 1 = j)
      BY <3>1
    <3> QED BY <3>1, <3>2, <3>3
  <2> QED BY <2>1, <2>2, <2>3
<1>2. /\ OnWire(u, k)' \subseteq OnWire(u, k)
      /\ OnWire(u, k) \subseteq OnWire(u, k)' \union {e}
      /\ u # w \/ k # e.kind => OnWire(u, k)' = OnWire(u, k)
  <2>1. CASE u = w
    <3>1. OnWire(u, k)' \subseteq OnWire(u, k)
      BY <1>1, <2>1 DEF OnWire
    <3>2. ASSUME NEW x \in OnWire(u, k), x # e PROVE x \in OnWire(u, k)'
      <4>1. PICK j \in DOMAIN wire[w] : wire[w][j] = x /\ x.kind = k
        BY <2>1 DEF OnWire
      <4>2. j - 1 \in DOMAIN wire'[w] /\ wire'[w][j - 1] = x
        BY <1>0, <1>1, <3>2, <4>1
      <4> QED BY <2>1, <4>1, <4>2 DEF OnWire
    <3>3. k # e.kind => e \notin OnWire(u, k)
      BY DEF OnWire
    <3> QED BY <2>1, <3>1, <3>2, <3>3
  <2>2. CASE u # w
    BY <1>0, <2>2 DEF OnWire, Typed
  <2> QED BY <2>1, <2>2
<1> QED BY <1>2

\* A client hears an event.
LEMMA HearsSpread ==
  ASSUME Typed, Placed, NoDuplicates, NEW w \in Users, HearStep(w), NEW e, e = Head(wire[w]),
         NEW u \in Users, NEW k \in NewsKinds
  PROVE  /\ u # w \/ k # e.kind => Still(u, k)
         /\ u = w /\ k = e.kind => e \in Coming(u, k)
         /\ Fewer(u, k) /\ Told(u, k)' = Told(u, k)
         /\ Coming(u, k)' \subseteq Coming(u, k) /\ Coming(u, k) \subseteq Coming(u, k)' \union {e}
<1>0. /\ wire[w] # <<>> /\ wire[w] \in Seq(Events) /\ e \in Events /\ e = wire[w][1] /\ 1 \in DOMAIN wire[w]
      /\ e.kind \in Kinds /\ e.item \in Nat /\ e.ver \in Nat /\ e.ver <= ver[e.kind] /\ e.op \in {"add", "del"}
      /\ UNCHANGED <<table, ver>> /\ heard' = Later(w, e.kind, e.ver) /\ wire' = [wire EXCEPT ![w] = Tail(@)]
  BY HeadOf DEF HearStep, Wired
<1>1. wire'[w] = Tail(wire[w]) /\ \A v \in Users : v # w => wire'[v] = wire[v]
  BY <1>0 DEF Typed
<1>2. /\ OnWire(u, k)' \subseteq OnWire(u, k)
      /\ OnWire(u, k) \subseteq OnWire(u, k)' \union {e}
      /\ u # w \/ k # e.kind => OnWire(u, k)' = OnWire(u, k)
  BY <1>0, <1>1, HearWires
<1>3. \A p \in reqs' \union reqs : (p \in reqs' <=> p \in reqs) \/ (p \in reqs' /\ p.op = "load" /\ p.pc = "read")
  BY DEF HearStep, Reload
<1>4. Due(k)' = Due(k) /\ Told(u, k)' = Told(u, k) /\ Replies(u, k)' \subseteq Replies(u, k)
  <2>1. Due(k)' = Due(k)
    BY <1>3 DEF Due, Writes
  <2>2. Told(u, k)' = Told(u, k)
    BY <1>3 DEF Told, Writes
  <2>3. Replies(u, k)' \subseteq Replies(u, k)
    BY <1>3 DEF Replies, Outsider
  <2> QED BY <2>1, <2>2, <2>3
<1>5. Fewer(u, k)
  BY <1>0, <1>2, <1>4 DEF Fewer, Coming, News
<1>6. ASSUME u # w \/ k # e.kind PROVE Still(u, k)
  <2>1. heard[u][k] <= heard'[u][k]
    BY <1>0, LaterTyped, NewsKindsAre
  <2>2. view'[u][k] = view[u][k]
    <3>1. OneList(w, e.kind)
      BY HearShows
    <3> QED BY <1>6, <3>1, NewsKindsAre DEF OneList
  <2>3. k \in loaded'[u] => k \in loaded[u]
    <3>1. UNCHANGED loaded \/ loaded' = [loaded EXCEPT ![w] = @ \ {"channels"}]
      BY DEF HearStep, shown
    <3> QED BY <3>1 DEF Typed
  <2>4. k = "stickers" => urls'[u] = urls[u]
    <3>1. UNCHANGED urls \/ (e.kind = "stickers" /\ urls' = [urls EXCEPT ![w] = @ \ {e.item}])
      BY DEF HearStep, shown, Revoked
    <3> QED BY <1>6, <3>1 DEF Typed
  <2> QED BY <1>2, <1>4, <1>5, <1>6, <2>1, <2>2, <2>3, <2>4 DEF Still, Coming
<1>7. u = w /\ k = e.kind => e \in Coming(u, k)
  BY <1>0 DEF Coming, OnWire
<1> QED BY <1>2, <1>4, <1>5, <1>6, <1>7 DEF Coming

\* A WebSocket closes: whoever had news on it is behind.
LEMMA DropsSpread ==
  ASSUME Typed, Placed, NEW w \in Users, DropStep(w), NEW u \in Users, NEW k \in NewsKinds
  PROVE  Fewer(u, k) /\ (<<u, k>> \notin behind' => Still(u, k))
<1>0. UNCHANGED <<table, ver, shown, heard, reqs>> /\ wire' = [wire EXCEPT ![w] = <<>>]
  BY DEF DropStep
<1>1. Due(k)' = Due(k) /\ Told(u, k)' = Told(u, k) /\ Replies(u, k)' = Replies(u, k)
  BY <1>0 DEF Due, Told, Replies, Outsider
<1>2. OnWire(u, k)' \subseteq OnWire(u, k)
  BY <1>0 DEF OnWire, Typed
<1>3. <<u, k>> \notin behind' => OnWire(u, k) \subseteq OnWire(u, k)'
  <2>1. u = w /\ <<u, k>> \notin behind' => OnWire(u, k) = {}
    BY DEF DropStep, OnWire
  <2>2. u # w => wire'[u] = wire[u]
    BY <1>0 DEF Typed
  <2> QED BY <2>1, <2>2 DEF OnWire
<1>4. heard[u][k] <= heard'[u][k]
  BY <1>0, NewsKindsAre DEF Typed
<1> QED BY <1>0, <1>1, <1>2, <1>3, <1>4 DEF Still, Fewer, Coming, News, shown

\* Who is behind stays so, and only a change of the members makes or unmakes one.
LEMMA BehindGrows ==
  ASSUME Typed, Placed, Step
  PROVE  behind \subseteq behind'
BY DEF Step, AskStep, IdleStep, InsertStep, DeleteStep, NoStep, FanStep, ReadStep, LoadStep, FetchStep, WriterStep,
       Replied, HearStep, DropStep

-----------------------------------------------------------------------------
(* Items are numbered.                                                       *)

\* Items that are or were there, as far as anybody can tell.
Seen(k, i) == i \in table[k] \/ \E u \in Users : \E x \in News(u, k) : x.item = i

\* An item that waits to be written is nobody else's and was not seen before.
Numbered ==
  /\ \A k \in NewsKinds : \A i : Seen(k, i) => i <= made[k]
  /\ \A q \in reqs : q.op = "add" /\ q.kind \in NewsKinds => q.item <= made[q.kind]
  /\ \A q \in reqs : q.op = "add" /\ q.kind \in NewsKinds /\ q.pc = "write" => ~Seen(q.kind, q.item)
  /\ \A p, q \in reqs : p.op = "add" /\ q.op = "add" /\ p.kind = q.kind /\ p.kind \in NewsKinds /\ p.item = q.item
                          => p = q

LEMMA SeenTyped ==
  ASSUME Typed, NEW k \in NewsKinds, NEW i, Seen(k, i)
  PROVE  i \in Nat
<1>1. \A u \in Users : News(u, k) \subseteq Events
  BY DEF News, Coming, OnWire, Due, Told
<1>2. \A e \in Events : e.item \in Nat
  BY DEF Events
<1> QED BY <1>1, <1>2, NewsKindsAre DEF Seen, Typed

\* With fewer news nothing new is seen.
LEMMA FewerSeen ==
  ASSUME NEW k \in NewsKinds, \A u \in Users : Fewer(u, k), NEW i, Seen(k, i)', Users # {}
  PROVE  Seen(k, i)
BY DEF Seen, Fewer

\* The requests are the old ones, but for one that is further on or asks for no
\* new item.
LEMMA NumberedRest ==
  ASSUME Typed, Numbered, UNCHANGED made,
         \A k \in NewsKinds : \A i : Seen(k, i)' => Seen(k, i),
         \A q \in reqs' : q \in reqs \/ q.op # "add" \/ q.kind \notin NewsKinds
  PROVE  Numbered'
BY DEF Numbered

LEMMA NumberedTurned ==
  ASSUME Typed, Numbered, UNCHANGED made, NEW r \in reqs, NEW z, NEW pc, Turned(r, z, pc), pc # "write",
         \A k \in NewsKinds : \A i : Seen(k, i)' => Seen(k, i) \/ (r.op = "add" /\ r.kind = k /\ r.item = i)
  PROVE  Numbered'
<1>1. reqs' = (reqs \ {r}) \union {z} /\ z.u = r.u /\ z.op = r.op /\ z.kind = r.kind /\ z.item = r.item /\ z.pc = pc
  BY DEF Turned
<1>2. \A k \in NewsKinds : \A i : Seen(k, i)' => i <= made'[k]
  BY DEF Numbered
<1>3. \A q \in reqs' : q.op = "add" /\ q.kind \in NewsKinds => q.item <= made'[q.kind]
  BY <1>1 DEF Numbered
<1>4. \A q \in reqs' : q.op = "add" /\ q.kind \in NewsKinds /\ q.pc = "write" => ~Seen(q.kind, q.item)'
  BY <1>1 DEF Numbered
<1>5. \A p, q \in reqs' : p.op = "add" /\ q.op = "add" /\ p.kind = q.kind /\ p.kind \in NewsKinds /\ p.item = q.item
                            => p = q
  BY <1>1 DEF Numbered
<1> QED BY <1>2, <1>3, <1>4, <1>5 DEF Numbered

LEMMA NumberedAsk ==
  ASSUME Typed, Placed, Numbered, AskStep
  PROVE  Numbered'
<1>1. PICK z \in Requests : reqs' = reqs \union {z} /\ (NewItem(z) \/ OldItem(z))
  BY DEF AskStep
<1>2. \A k \in NewsKinds : \A i : Seen(k, i)' => Seen(k, i)
  BY AsksStill, FewerSeen, ConstantsAssumption DEF Still
<1>3. CASE OldItem(z)
  <2>1. UNCHANGED made /\ (z.op # "add" \/ z.kind \notin NewsKinds)
    BY <1>3 DEF OldItem, NewsKinds
  <2> QED BY <1>1, <1>2, <2>1, NumberedRest
<1>4. CASE NewItem(z)
  <2>1. /\ z.op = "add" /\ z.kind \in NewsKinds /\ z.kind \in Kinds /\ z.item = made[z.kind] + 1
        /\ made' = [made EXCEPT ![z.kind] = @ + 1] /\ made \in [Kinds -> Nat]
    BY <1>4, NewsKindsAre DEF NewItem, Typed
  <2>2. \A k \in NewsKinds : made[k] \in Nat /\ made'[k] = IF k = z.kind THEN made[k] + 1 ELSE made[k]
    BY <2>1, NewsKindsAre
  <2>3. \A k \in NewsKinds : \A i : Seen(k, i) => i \in Nat /\ i <= made[k]
    BY SeenTyped DEF Numbered
  <2>4. \A k \in NewsKinds : \A i : Seen(k, i)' => i <= made'[k]
    BY <1>2, <2>2, <2>3
  <2>5. \A q \in reqs : q.op = "add" /\ q.kind \in NewsKinds => q.item \in Nat /\ q.item <= made[q.kind]
    BY RequestFields DEF Numbered
  <2>6. \A q \in reqs' : q.op = "add" /\ q.kind \in NewsKinds => q.item <= made'[q.kind]
    BY <1>1, <2>1, <2>2, <2>5
  <2>7. ~Seen(z.kind, z.item)
    BY <2>1, <2>2, <2>3
  <2>8. \A q \in reqs' : q.op = "add" /\ q.kind \in NewsKinds /\ q.pc = "write" => ~Seen(q.kind, q.item)'
    BY <1>1, <1>2, <2>1, <2>7 DEF Numbered
  <2>9. \A q \in reqs : q.op = "add" /\ q.kind = z.kind => q.item # z.item
    BY <2>1, <2>2, <2>5
  <2>10. \A p, q \in reqs' : p.op = "add" /\ q.op = "add" /\ p.kind = q.kind /\ p.kind \in NewsKinds /\ p.item = q.item
                              => p = q
    BY <1>1, <2>1, <2>9 DEF Numbered
  <2> QED BY <2>4, <2>6, <2>8, <2>10 DEF Numbered
<1> QED BY <1>1, <1>3, <1>4

\* What a change makes seen: an insertion its item, a deletion nothing.
LEMMA ChangesSeen ==
  ASSUME Typed, Placed, NEW r \in reqs, InsertStep(r) \/ DeleteStep(r), NEW k \in NewsKinds, NEW i, Seen(k, i)'
  PROVE  Seen(k, i) \/ (r.op = "add" /\ r.kind = k /\ r.item = i)
<1>1. CASE k # r.kind
  <2>1. \A u \in Users : Fewer(u, k)
    BY <1>1, ChangesSpread DEF Still
  <2> QED BY <2>1, FewerSeen, ConstantsAssumption
<1>2. CASE k = r.kind
  <2>1. PICK e \in Events : e.item = r.item /\ \A u \in Users : Coming(u, k)' = Coming(u, k) \union {e}
    BY <1>2, ChangesSpread DEF ChangeDue
  <2>2. \A u \in Users : Told(u, k)' = Told(u, k)
    BY ChangesSpread
  <2>3. \A u \in Users : \A x \in News(u, k)' : x \in News(u, k) \/ x.item = r.item
    BY <2>1, <2>2 DEF News
  <2>4. k \in Kinds /\ table \in [Kinds -> SUBSET Nat]
    BY NewsKindsAre DEF Typed
  <2>5. InsertStep(r) => r.op = "add" /\ \A j \in table'[k] : j \in table[k] \/ j = r.item
    BY <1>2, <2>4 DEF InsertStep
  <2>6. DeleteStep(r) => r.item \in table[k] /\ table'[k] \subseteq table[k]
    BY <1>2, <2>4 DEF DeleteStep
  <2> QED BY <1>2, <2>3, <2>5, <2>6 DEF Seen
<1> QED BY <1>1, <1>2

LEMMA StepsNumbered ==
  ASSUME Typed, Placed, NoDuplicates, Numbered, Step
  PROVE  Numbered'
<1>0. Users # {}
  BY ConstantsAssumption
<1>1. CASE AskStep
  BY <1>1, NumberedAsk
<1>2. CASE IdleStep
  <2>1. \A k \in NewsKinds : \A i : Seen(k, i)' => Seen(k, i)
    BY <1>0, <1>2, AsksStill, FewerSeen DEF Still
  <2> QED BY <1>2, <2>1, NumberedRest DEF IdleStep
<1>3. ASSUME NEW r \in reqs, InsertStep(r) \/ DeleteStep(r) PROVE Numbered'
  <2>1. \A k \in NewsKinds : \A i : Seen(k, i)' => Seen(k, i) \/ (r.op = "add" /\ r.kind = k /\ r.item = i)
    BY <1>3, ChangesSeen
  <2>2. UNCHANGED made /\ \E z \in Requests : \E pc : Turned(r, z, pc) /\ pc # "write"
    BY <1>3 DEF InsertStep, DeleteStep
  <2> QED BY <2>1, <2>2, NumberedTurned
<1>4. ASSUME NEW r \in reqs, NoStep(r) PROVE Numbered'
  <2>1. \A k \in NewsKinds : \A i : Seen(k, i)' => Seen(k, i)
    BY <1>0, <1>4, NothingsStill, FewerSeen DEF Still
  <2>2. UNCHANGED made /\ (reqs' = reqs \ {r} \/ \E z \in Requests : Turned(r, z, "reply"))
    BY <1>4 DEF NoStep
  <2>3. CASE reqs' = reqs \ {r}
    BY <2>1, <2>2, <2>3, NumberedRest
  <2> QED BY <2>1, <2>2, <2>3, NumberedTurned
<1>5. ASSUME NEW r \in reqs, FanStep(r) PROVE Numbered'
  <2>1. \A k \in NewsKinds : \A i : Seen(k, i)' => Seen(k, i)
    BY <1>0, <1>5, FansSpread, FewerSeen
  <2> DEFINE pc == IF r.op = "del" /\ r.kind = "members" THEN "write" ELSE "reply"
  <2>2. PICK z \in Requests : UNCHANGED made /\ Turned(r, z, pc)
    BY <1>5 DEF FanStep
  <2>3. CASE r.op = "del"
    <3>1. reqs' = (reqs \ {r}) \union {z} /\ z.op # "add"
      BY <2>2, <2>3 DEF Turned
    <3> QED BY <2>1, <2>2, <3>1, NumberedRest
  <2>4. CASE r.op # "del"
    BY <2>1, <2>2, <2>4, NumberedTurned
  <2> QED BY <2>3, <2>4
<1>6. ASSUME NEW r \in reqs, ReadStep(r) PROVE Numbered'
  <2>1. \A k \in NewsKinds : \A i : Seen(k, i)' => Seen(k, i)
    <3>1. ASSUME NEW k \in NewsKinds, NEW i, Seen(k, i)' PROVE Seen(k, i)
      <4>1. table' = table
        BY <1>6 DEF ReadStep
      <4>2. \A u \in Users : \A x \in News(u, k)' : x \in News(u, k)
        BY <1>6, ReadsSpread DEF News
      <4> QED BY <3>1, <4>1, <4>2 DEF Seen
    <3> QED BY <3>1
  <2>2. \A q \in reqs' : q \in reqs \/ q.op # "add"
    BY <1>6 DEF ReadStep, Turned
  <2> QED BY <1>6, <2>1, <2>2, NumberedRest DEF ReadStep
<1>7. ASSUME NEW r \in reqs, LoadStep(r) \/ FetchStep(r) \/ WriterStep(r) PROVE Numbered'
  <2>1. \A k \in NewsKinds : \A i : Seen(k, i)' => Seen(k, i)
    BY <1>0, <1>7, AnswersSpread, FewerSeen
  <2>2. UNCHANGED made /\ \A q \in reqs' : q \in reqs \/ q.op # "add"
    BY <1>7 DEF LoadStep, FetchStep, WriterStep, Finished, Replied, Reload
  <2> QED BY <2>1, <2>2, NumberedRest
<1>8. ASSUME NEW w \in Users, HearStep(w) PROVE Numbered'
  <2>1. \A u \in Users, k \in NewsKinds : Fewer(u, k)
    BY <1>8, HearsSpread
  <2>2. UNCHANGED made /\ \A q \in reqs' : q \in reqs \/ q.op # "add"
    BY <1>8 DEF HearStep, Reload
  <2> QED BY <1>0, <2>1, <2>2, NumberedRest, FewerSeen
<1>9. ASSUME NEW w \in Users, DropStep(w) PROVE Numbered'
  <2>1. \A u \in Users, k \in NewsKinds : Fewer(u, k)
    BY <1>9, DropsSpread
  <2> QED BY <1>0, <1>9, <2>1, NumberedRest, FewerSeen DEF DropStep
<1> QED BY <1>1, <1>2, <1>3, <1>4, <1>5, <1>6, <1>7, <1>8, <1>9 DEF Step

-----------------------------------------------------------------------------
(* News are honest: against the tables, one another and the answers.         *)

\* A new item is there unless the sticker was removed since, a removed one is not.
Accurate(u, k) == \A x \in News(u, k) :
  /\ x.ver <= ver[k]
  /\ x.op = "add" /\ x.item \notin table[k] => k = "stickers" /\ x.ver < ver[k]
  /\ x.op = "del" => x.item \notin table[k]

\* A removal is newer than the creation.
Ordered(u, k) == \A x, y \in News(u, k) :
  x.op = "add" /\ y.op = "del" /\ x.item = y.item => x.ver < y.ver

\* An answer knows what it is not older than.
Known(u, k) == \A x \in News(u, k), r \in Replies(u, k) : x.ver <= r.ver =>
  /\ x.op = "del" => x.item \notin r.ans
  /\ x.op = "add" /\ r.op = "load" /\ x.item \in table[k] => x.item \in r.ans

Honest == \A u \in Users, k \in NewsKinds : Accurate(u, k) /\ Ordered(u, k) /\ Known(u, k)

LEMMA FewerHonest ==
  ASSUME Honest, NEW u \in Users, NEW k \in NewsKinds, Fewer(u, k)
  PROVE  Accurate(u, k)' /\ Ordered(u, k)' /\ Known(u, k)'
<1>1. Accurate(u, k) /\ Ordered(u, k) /\ Known(u, k)
  BY DEF Honest
<1>2. table'[k] = table[k] /\ ver'[k] = ver[k] /\ \A x \in News(u, k)' : x \in News(u, k)
  BY DEF Fewer
<1>3. Accurate(u, k)'
  BY <1>1, <1>2 DEF Accurate
<1>4. Ordered(u, k)'
  BY <1>1, <1>2 DEF Ordered
<1>5. Known(u, k)'
  BY <1>1, <1>2 DEF Known, Fewer
<1> QED BY <1>3, <1>4, <1>5

\* The news of a kind are events of it.
LEMMA NewsFields ==
  ASSUME Typed, NEW u, NEW k, NEW x \in News(u, k)
  PROVE  x \in Events /\ x.kind = k /\ x.op \in {"add", "del"} /\ x.item \in Nat /\ x.ver \in Nat
<1>1. x \in Events /\ x.kind = k
  BY DEF News, Coming, OnWire, Due, Told, Tells, Writes
<1> QED BY <1>1 DEF Events

\* A change of the table of this kind.
LEMMA ChangesHonest ==
  ASSUME Typed, Placed, Numbered, Honest, NEW r \in reqs, InsertStep(r) \/ DeleteStep(r),
         NEW u \in Users, NEW k \in NewsKinds, k = r.kind
  PROVE  Accurate(u, k)' /\ Ordered(u, k)' /\ Known(u, k)'
<1>0. /\ k \in Kinds /\ ver[k] \in Nat /\ ver'[k] = ver[k] + 1 /\ r.pc = "write"
      /\ InsertStep(r) => r.op = "add" /\ table'[k] = table[k] \union {r.item}
      /\ DeleteStep(r) => r.op = "del" /\ k = "stickers" /\ r.item \in table[k] /\ table'[k] = table[k] \ {r.item}
  <2>1. k \in Kinds /\ table \in [Kinds -> SUBSET Nat] /\ ver \in [Kinds -> Nat] /\ ver[k] \in Nat /\ k # "members"
    BY NewsKindsAre DEF Typed
  <2>2. InsertStep(r) => r.op = "add" /\ r.pc = "write" /\ table'[k] = table[k] \union {r.item} /\ ver'[k] = ver[k] + 1
    BY <2>1 DEF InsertStep
  <2>3. DeleteStep(r) => /\ r.op = "del" /\ r.pc = "write" /\ r.item \in table[k]
                         /\ table'[k] = table[k] \ {r.item} /\ ver'[k] = ver[k] + 1
    BY <2>1 DEF DeleteStep
  <2>4. r.op = "del" => r.kind \in {"members", "stickers"}
    BY DEF Placed, Asked
  <2> QED BY <2>1, <2>2, <2>3, <2>4
<1>1. PICK e \in Events : /\ e.kind = k /\ e.op = r.op /\ e.item = r.item /\ e.ver = ver[k] + 1
                          /\ Coming(u, k)' = Coming(u, k) \union {e}
  BY ChangesSpread DEF ChangeDue
<1>2. \A x \in News(u, k)' : x \in News(u, k) \/ x = e
  BY <1>1, ChangesSpread DEF News
<1>3. Replies(u, k)' = Replies(u, k)
  BY ChangesSpread
<1>4. Accurate(u, k) /\ Ordered(u, k) /\ Known(u, k)
  BY DEF Honest
<1>5. ASSUME InsertStep(r), NEW x \in News(u, k) PROVE x.item # r.item
  <2>1. ~Seen(k, r.item)
    BY <1>0, <1>5 DEF Numbered
  <2> QED BY <1>5, <2>1 DEF Seen
<1>6. \A x \in News(u, k) : x.ver \in Nat /\ x.ver <= ver[k] /\ x.op \in {"add", "del"}
  BY <1>4, NewsFields DEF Accurate
<1>7. \A q \in Replies(u, k) : q.ver \in Nat /\ q.ver <= ver[k]
  BY RequestFields DEF Replies, Placed, Asked
<1>8. Accurate(u, k)'
  <2>1. ASSUME NEW x \in News(u, k)
        PROVE  /\ x.ver <= ver'[k]
               /\ x.op = "add" /\ x.item \notin table'[k] => k = "stickers" /\ x.ver < ver'[k]
               /\ x.op = "del" => x.item \notin table'[k]
    <3>1. x.ver <= ver'[k] /\ x.ver < ver'[k]
      BY <1>0, <1>6
    <3> QED BY <1>0, <1>4, <1>5, <3>1 DEF Accurate
  <2>2. /\ e.ver <= ver'[k]
        /\ e.op = "add" => e.item \in table'[k]
        /\ e.op = "del" => e.item \notin table'[k]
    BY <1>0, <1>1
  <2> QED BY <1>2, <2>1, <2>2 DEF Accurate
<1>9. Ordered(u, k)'
  <2>1. ASSUME NEW x \in News(u, k)', NEW y \in News(u, k)', x.op = "add", y.op = "del", x.item = y.item
        PROVE  x.ver < y.ver
    <3>1. CASE x \in News(u, k) /\ y \in News(u, k)
      BY <1>4, <2>1, <3>1 DEF Ordered
    <3>2. CASE x = e
      <4>1. y \in News(u, k) /\ InsertStep(r)
        BY <1>0, <1>1, <1>2, <2>1, <3>2
      <4> QED BY <1>1, <1>5, <2>1, <3>2, <4>1
    <3>3. CASE x \in News(u, k) /\ y = e
      BY <1>0, <1>1, <1>6, <3>3
    <3> QED BY <1>2, <3>1, <3>2, <3>3
  <2> QED BY <2>1 DEF Ordered
<1>10. Known(u, k)'
  <2>1. ASSUME NEW x \in News(u, k)', NEW q \in Replies(u, k), x.ver <= q.ver
        PROVE  /\ x.op = "del" => x.item \notin q.ans
               /\ x.op = "add" /\ q.op = "load" /\ x.item \in table'[k] => x.item \in q.ans
    <3>1. x \in News(u, k)
      BY <1>0, <1>1, <1>2, <1>7, <2>1
    <3>2. x.item \in table'[k] => x.item \in table[k]
      BY <1>0, <1>5, <3>1
    <3> QED BY <1>4, <2>1, <3>1, <3>2 DEF Known
  <2> QED BY <1>3, <2>1 DEF Known
<1> QED BY <1>8, <1>9, <1>10

\* A list that is read knows everything.
LEMMA ReadsHonest ==
  ASSUME Typed, Placed, Honest, NEW r \in reqs, ReadStep(r), NEW u \in Users, NEW k \in NewsKinds
  PROVE  Accurate(u, k)' /\ Ordered(u, k)' /\ Known(u, k)'
<1>1. Accurate(u, k) /\ Ordered(u, k) /\ Known(u, k)
  BY DEF Honest
<1>2. /\ News(u, k)' = News(u, k) /\ table' = table /\ ver' = ver
      /\ \A q \in Replies(u, k)' : \/ q \in Replies(u, k)
                                   \/ q.op = "load" /\ q.ans = table[k]
                                   \/ q.op = "fetch" /\ q.ans = table[k] \intersect {q.item}
  BY ReadsSpread DEF News
<1>3. Accurate(u, k)' /\ Ordered(u, k)'
  BY <1>1, <1>2 DEF Accurate, Ordered
<1>4. ASSUME NEW x \in News(u, k), NEW q \in Replies(u, k)', x.ver <= q.ver
      PROVE  /\ x.op = "del" => x.item \notin q.ans
             /\ x.op = "add" /\ q.op = "load" /\ x.item \in table[k] => x.item \in q.ans
  <2>1. CASE q \in Replies(u, k)
    BY <1>1, <1>4, <2>1 DEF Known
  <2>2. CASE q \notin Replies(u, k)
    BY <1>1, <1>2, <2>2 DEF Accurate
  <2> QED BY <2>1, <2>2
<1>5. Known(u, k)'
  BY <1>2, <1>4 DEF Known
<1> QED BY <1>3, <1>5

LEMMA StepsHonest ==
  ASSUME Typed, Placed, NoDuplicates, Numbered, Honest, Step
  PROVE  Honest'
<1> SUFFICES ASSUME NEW u \in Users, NEW k \in NewsKinds PROVE Accurate(u, k)' /\ Ordered(u, k)' /\ Known(u, k)'
  BY DEF Honest
<1>1. CASE AskStep \/ IdleStep
  BY <1>1, AsksStill, FewerHonest DEF Still
<1>2. ASSUME NEW r \in reqs, InsertStep(r) \/ DeleteStep(r) PROVE Accurate(u, k)' /\ Ordered(u, k)' /\ Known(u, k)'
  <2>1. CASE k = r.kind
    BY <1>2, <2>1, ChangesHonest
  <2>2. CASE k # r.kind
    BY <1>2, <2>2, ChangesSpread, FewerHonest DEF Still
  <2> QED BY <2>1, <2>2
<1>3. ASSUME NEW r \in reqs, NoStep(r) PROVE Accurate(u, k)' /\ Ordered(u, k)' /\ Known(u, k)'
  BY <1>3, NothingsStill, FewerHonest DEF Still
<1>4. ASSUME NEW r \in reqs, FanStep(r) PROVE Accurate(u, k)' /\ Ordered(u, k)' /\ Known(u, k)'
  BY <1>4, FansSpread, FewerHonest
<1>5. ASSUME NEW r \in reqs, ReadStep(r) PROVE Accurate(u, k)' /\ Ordered(u, k)' /\ Known(u, k)'
  BY <1>5, ReadsHonest
<1>6. ASSUME NEW r \in reqs, LoadStep(r) \/ FetchStep(r) \/ WriterStep(r)
      PROVE  Accurate(u, k)' /\ Ordered(u, k)' /\ Known(u, k)'
  BY <1>6, AnswersSpread, FewerHonest
<1>7. ASSUME NEW w \in Users, HearStep(w) \/ DropStep(w) PROVE Accurate(u, k)' /\ Ordered(u, k)' /\ Known(u, k)'
  BY <1>7, HearsSpread, DropsSpread, FewerHonest
<1> QED BY <1>1, <1>2, <1>3, <1>4, <1>5, <1>6, <1>7 DEF Step

-----------------------------------------------------------------------------
(* Who missed nothing follows: what is wrong with its list is corrected by   *)
(* news that are still to come.                                              *)

\* An answer that is not older than what was heard.
Useful(u, k) == {r \in Replies(u, k) : r.ver >= heard[u][k]}

\* The creation of an item whose removal was heard.
Stale(u, k, x) == x.op = "add" /\ x.item \notin table[k] /\ ~Comes(u, "del", k, x.item)

Follows(u, k) == u \in Members /\ <<u, k>> \notin behind

AnswersFollow(u, k) == \A r \in Useful(u, k) :
  /\ \A i \in r.ans : i \notin table[k] => Comes(u, "del", k, i)
  /\ r.op = "load" => \A i \in table[k] : i \notin r.ans => Comes(u, "add", k, i)
  /\ \A x \in News(u, k) : Stale(u, k, x) => x.ver < r.ver

ViewFollows(u, k) == k \in loaded[u] =>
  /\ \A i : Shows(u, k, i) /\ i \notin table[k] => Comes(u, "del", k, i)
  /\ \A i \in table[k] : ~Shows(u, k, i) => Comes(u, "add", k, i) \/ \E x \in Told(u, k) : x.op = "add" /\ x.item = i

StaleHeard(u, k) == k \in loaded[u] \/ u = Owner =>
  \A x \in News(u, k) : Stale(u, k, x) => x.ver < heard[u][k]

UrlsFollow(u, k) == k = "stickers" => \A i \in urls[u] : i \notin table[k] => Comes(u, "del", k, i)

Followed(u, k) == AnswersFollow(u, k) /\ ViewFollows(u, k) /\ StaleHeard(u, k) /\ UrlsFollow(u, k)

\* The stickers are the owner's to list, or on their way to its list.
OwnersStickers ==
  /\ \A u \in Users : "stickers" \notin loaded[u] => \A i : ~Shows(u, "stickers", i)
  /\ \A i \in table["stickers"] : "stickers" \in loaded[Owner] \/
       \E q \in reqs : q.op = "add" /\ q.kind = "stickers" /\ q.item = i /\ q.pc \in {"fan", "reply"}

\* Who is no member was removed and missed everything, or was never one.
Newcomers == \A u \in Users : u \notin Members =>
  \/ \A k \in Kinds : <<u, k>> \in behind
  \/ urls[u] = {} /\ \A k \in NewsKinds : k \notin loaded[u] /\ Replies(u, k) = {}

Following == \A u \in Users, k \in NewsKinds : Follows(u, k) => Followed(u, k)

LEMMA StillFollowed ==
  ASSUME Typed, NEW u \in Users, NEW k \in NewsKinds, Followed(u, k), Still(u, k), heard'[u][k] \in Nat
  PROVE  Followed(u, k)'
<1>1. /\ table'[k] = table[k] /\ Coming(u, k)' = Coming(u, k) /\ \A x \in News(u, k)' : x \in News(u, k)
      /\ \A x \in Told(u, k) : x \in Told(u, k)'
      /\ view'[u][k] = view[u][k] /\ (k \in loaded'[u] => k \in loaded[u])
      /\ (k = "stickers" => urls'[u] = urls[u]) /\ heard[u][k] <= heard'[u][k]
  BY DEF Still, Fewer
<1>2. heard[u][k] \in Nat /\ \A x \in News(u, k) : x.ver \in Nat
  BY NewsFields, NewsKindsAre DEF Typed
<1>3. \A op, i : Comes(u, op, k, i)' <=> Comes(u, op, k, i)
  BY <1>1 DEF Comes
<1>4. \A x : Stale(u, k, x)' <=> Stale(u, k, x)
  BY <1>1, <1>3 DEF Stale
<1>5. \A i : Shows(u, k, i)' <=> Shows(u, k, i)
  BY <1>1 DEF Shows
<1>6. \A r \in Useful(u, k)' : r \in Useful(u, k)
  <2>1. \A r \in Replies(u, k)' : r \in Replies(u, k) /\ r.ver \in Nat
    <3>1. \A r \in Replies(u, k)' : r \in Replies(u, k)
      BY DEF Still, Fewer
    <3>2. \A r \in Replies(u, k) : r.ver \in Nat
      BY DEF Replies, Typed, Requests
    <3> QED BY <3>1, <3>2
  <2> QED BY <1>1, <1>2, <2>1 DEF Useful
<1>7. AnswersFollow(u, k)'
  BY <1>1, <1>3, <1>4, <1>6 DEF Followed, AnswersFollow
<1>8. ViewFollows(u, k)'
  BY <1>1, <1>3, <1>5 DEF Followed, ViewFollows
<1>9. StaleHeard(u, k)'
  BY <1>1, <1>2, <1>4 DEF Followed, StaleHeard
<1>10. UrlsFollow(u, k)'
  BY <1>1, <1>3 DEF Followed, UrlsFollow
<1> QED BY <1>7, <1>8, <1>9, <1>10 DEF Followed

\* A change of the table comes to everybody.
LEMMA ChangesFollowed ==
  ASSUME Typed, Placed, Numbered, Honest, NEW r \in reqs, InsertStep(r) \/ DeleteStep(r),
         NEW u \in Users, NEW k \in NewsKinds, k = r.kind, Followed(u, k)
  PROVE  Followed(u, k)'
<1>0. /\ k \in Kinds /\ UNCHANGED <<wire, shown, heard>>
      /\ InsertStep(r) => r.op = "add" /\ r.pc = "write" /\ table'[k] = table[k] \union {r.item}
      /\ DeleteStep(r) => r.op = "del" /\ r.item \in table[k] /\ table'[k] = table[k] \ {r.item}
  <2>1. k \in Kinds /\ table \in [Kinds -> SUBSET Nat]
    BY NewsKindsAre DEF Typed
  <2> QED BY <2>1 DEF InsertStep, DeleteStep
<1>1. PICK e \in Events : /\ e.kind = k /\ e.op = r.op /\ e.item = r.item /\ e.ver = ver[k] + 1
                          /\ Coming(u, k)' = Coming(u, k) \union {e}
  BY ChangesSpread DEF ChangeDue
<1>2. Told(u, k)' = Told(u, k) /\ Replies(u, k)' = Replies(u, k) /\ \A x \in News(u, k)' : x \in News(u, k) \/ x = e
  BY <1>1, ChangesSpread DEF News
<1>3. \A op, i : Comes(u, op, k, i) => Comes(u, op, k, i)'
  BY <1>1 DEF Comes
<1>4. /\ InsertStep(r) => Comes(u, "add", k, r.item)'
      /\ DeleteStep(r) => Comes(u, "del", k, r.item)'
  BY <1>0, <1>1 DEF Comes
<1>5. \A x \in News(u, k)' : Stale(u, k, x)' => x \in News(u, k) /\ Stale(u, k, x)
  <2>1. ASSUME NEW x \in News(u, k)', x.op = "add", x.item \notin table'[k], ~Comes(u, "del", k, x.item)'
        PROVE  x \in News(u, k) /\ x.item \notin table[k] /\ ~Comes(u, "del", k, x.item)
    <3>1. CASE InsertStep(r)
      BY <1>0, <1>1, <1>2, <1>3, <2>1, <3>1
    <3>2. CASE DeleteStep(r)
      <4>1. x.item # r.item
        BY <1>4, <2>1, <3>2
      <4> QED BY <1>0, <1>1, <1>2, <1>3, <2>1, <3>2, <4>1
    <3> QED BY <3>1, <3>2
  <2> QED BY <2>1 DEF Stale
<1>6. Useful(u, k)' = Useful(u, k)
  BY <1>0, <1>2 DEF Useful
<1>7. AnswersFollow(u, k)'
  <2>1. ASSUME NEW q \in Useful(u, k)
        PROVE  /\ \A i \in q.ans : i \notin table'[k] => Comes(u, "del", k, i)'
               /\ q.op = "load" => \A i \in table'[k] : i \notin q.ans => Comes(u, "add", k, i)'
               /\ \A x \in News(u, k)' : Stale(u, k, x)' => x.ver < q.ver
    <3>1. /\ \A i \in q.ans : i \notin table[k] => Comes(u, "del", k, i)
          /\ q.op = "load" => \A i \in table[k] : i \notin q.ans => Comes(u, "add", k, i)
          /\ \A x \in News(u, k) : Stale(u, k, x) => x.ver < q.ver
      BY DEF Followed, AnswersFollow
    <3>2. \A i \in q.ans : i \notin table'[k] => Comes(u, "del", k, i)'
      BY <1>0, <1>3, <1>4, <3>1
    <3>3. q.op = "load" => \A i \in table'[k] : i \notin q.ans => Comes(u, "add", k, i)'
      BY <1>0, <1>3, <1>4, <3>1
    <3> QED BY <1>5, <3>1, <3>2, <3>3
  <2> QED BY <1>6, <2>1 DEF AnswersFollow
<1>8. ViewFollows(u, k)'
  <2>1. \A i : Shows(u, k, i)' <=> Shows(u, k, i)
    BY <1>0 DEF Shows, shown
  <2>2. ASSUME k \in loaded[u]
        PROVE  /\ \A i : Shows(u, k, i) /\ i \notin table'[k] => Comes(u, "del", k, i)'
               /\ \A i \in table'[k] : ~Shows(u, k, i) =>
                     Comes(u, "add", k, i)' \/ \E x \in Told(u, k) : x.op = "add" /\ x.item = i
    <3>1. /\ \A i : Shows(u, k, i) /\ i \notin table[k] => Comes(u, "del", k, i)
          /\ \A i \in table[k] : ~Shows(u, k, i) =>
               Comes(u, "add", k, i) \/ \E x \in Told(u, k) : x.op = "add" /\ x.item = i
      BY <2>2 DEF Followed, ViewFollows
    <3> QED BY <1>0, <1>3, <1>4, <3>1
  <2> QED BY <1>0, <1>2, <2>1, <2>2 DEF ViewFollows, shown
<1>9. StaleHeard(u, k)'
  BY <1>0, <1>5 DEF Followed, StaleHeard, shown
<1>10. UrlsFollow(u, k)'
  BY <1>0, <1>3, <1>4 DEF Followed, UrlsFollow, shown
<1> QED BY <1>7, <1>8, <1>9, <1>10 DEF Followed

\* A list that is read is what the table is.
LEMMA ReadsFollowed ==
  ASSUME Typed, Placed, Honest, NEW r \in reqs, ReadStep(r), NEW u \in Users, NEW k \in NewsKinds, Followed(u, k)
  PROVE  Followed(u, k)'
<1>1. /\ UNCHANGED <<table, ver, shown, heard>> /\ Coming(u, k)' = Coming(u, k) /\ Told(u, k)' = Told(u, k)
      /\ \A q \in Replies(u, k)' : \/ q \in Replies(u, k)
                                   \/ q.ver = ver[k] /\ q.op = "load" /\ q.ans = table[k]
                                   \/ q.ver = ver[k] /\ q.op = "fetch" /\ q.ans = table[k] \intersect {q.item}
  BY ReadsSpread
<1>2. News(u, k)' = News(u, k) /\ \A op, i : Comes(u, op, k, i)' <=> Comes(u, op, k, i)
  BY <1>1 DEF News, Comes
<1>3. \A x : Stale(u, k, x)' <=> Stale(u, k, x)
  BY <1>1, <1>2 DEF Stale
<1>4. AnswersFollow(u, k)'
  <2>1. ASSUME NEW q \in Useful(u, k)'
        PROVE  /\ \A i \in q.ans : i \notin table[k] => Comes(u, "del", k, i)
               /\ q.op = "load" => \A i \in table[k] : i \notin q.ans => Comes(u, "add", k, i)
               /\ \A x \in News(u, k) : Stale(u, k, x) => x.ver < q.ver
    <3>1. CASE q \in Replies(u, k)
      <4>1. q \in Useful(u, k)
        BY <1>1, <2>1, <3>1 DEF Useful
      <4> QED BY <4>1 DEF Followed, AnswersFollow
    <3>2. CASE q \notin Replies(u, k)
      <4>1. q \in Replies(u, k)'
        BY <2>1 DEF Useful
      <4>2. q.ver = ver[k] /\ ((q.op = "load" /\ q.ans = table[k]) \/ (q.op = "fetch" /\ q.ans \subseteq table[k]))
        BY <1>1, <3>2, <4>1
      <4>3. \A x \in News(u, k) : Stale(u, k, x) => x.ver < q.ver
        BY <4>2 DEF Stale, Honest, Accurate
      <4> QED BY <4>2, <4>3
    <3> QED BY <3>1, <3>2
  <2> QED BY <1>1, <1>2, <1>3, <2>1 DEF AnswersFollow
<1>5. ViewFollows(u, k)'
  <2>1. \A i : Shows(u, k, i)' <=> Shows(u, k, i)
    BY <1>1 DEF Shows, shown
  <2> QED BY <1>1, <1>2, <2>1 DEF Followed, ViewFollows, shown
<1>6. StaleHeard(u, k)'
  BY <1>1, <1>2, <1>3 DEF Followed, StaleHeard, shown
<1>7. UrlsFollow(u, k)'
  BY <1>1, <1>2 DEF Followed, UrlsFollow, shown
<1> QED BY <1>4, <1>5, <1>6, <1>7 DEF Followed

\* A sequence of Typed facts for the client that a step concerns.
LEMMA HeardLater ==
  ASSUME Typed, Placed, NEW u \in Users, NEW k \in Kinds, NEW v \in Nat, v <= ver[k], heard' = Later(u, k, v)
  PROVE  /\ heard[u][k] \in Nat /\ heard'[u][k] \in Nat /\ heard[u][k] <= heard'[u][k] /\ v <= heard'[u][k]
         /\ v >= heard[u][k] => heard'[u][k] = v
<1>1. heard[u][k] \in Nat /\ heard'[u][k] = IF v > heard[u][k] THEN v ELSE heard[u][k]
  BY LaterTyped DEF Typed
<1> QED BY <1>1

\* An answer that is useful becomes the list.
LEMMA LoadsFollowed ==
  ASSUME Typed, Placed, NoDuplicates, NEW r \in reqs, LoadStep(r), NEW u \in Users, NEW k \in NewsKinds,
         u = r.u, k = r.kind, <<u, k>> \notin behind', Followed(u, k)
  PROVE  Followed(u, k)'
<1>0. /\ k \in Kinds /\ r.ver \in Nat /\ r.ver <= ver[k] /\ r.pc = "reply" /\ r.op = "load" /\ heard' = Later(u, k, r.ver)
      /\ UNCHANGED <<urls, objects>>
      /\ loaded' = [loaded EXCEPT ![u] = IF Outsider(r) THEN @ \ {k} ELSE @ \union {k}]
  BY RequestFields, NewsKindsAre DEF LoadStep, Replied, Asked
<1>1. r.ver >= heard[u][k]
  BY <1>0 DEF LoadStep, Replied, Typed
<1>2. heard'[u][k] = r.ver /\ heard[u][k] <= heard'[u][k] /\ heard[u][k] \in Nat
  BY <1>0, <1>1, HeardLater
<1>3. Fewer(u, k) /\ Coming(u, k)' = Coming(u, k) /\ \A x \in Told(u, k) : x \in Told(u, k)'
  BY <1>0, AnswersSpread DEF Writes
<1>4. (\A op, i : Comes(u, op, k, i)' <=> Comes(u, op, k, i)) /\ table'[k] = table[k]
  BY <1>3 DEF Comes, Fewer
<1>5. \A x \in News(u, k)' : x \in News(u, k) /\ x.ver \in Nat /\ (Stale(u, k, x)' <=> Stale(u, k, x))
  BY <1>3, <1>4, NewsFields DEF Stale, Fewer
<1>6. \A q \in Useful(u, k)' : q \in Useful(u, k)
  <2>1. \A q \in Replies(u, k)' : q \in Replies(u, k)
    BY <1>3 DEF Fewer
  <2>2. \A q \in Replies(u, k) : q.ver \in Nat
    BY RequestFields DEF Replies
  <2> QED BY <1>0, <1>2, <2>1, <2>2 DEF Useful
<1>7. AnswersFollow(u, k)'
  BY <1>4, <1>5, <1>6 DEF Followed, AnswersFollow
<1>8. ~Outsider(r) => r \in Useful(u, k)
  BY <1>0, <1>1 DEF Useful, Replies
<1>9. k \in loaded'[u] => ~Outsider(r)
  BY <1>0 DEF Typed
<1>10. \A i : Shows(u, k, i)' <=> i \in r.ans
  BY LoadShows DEF Shows
<1>11. ViewFollows(u, k)'
  <2>1. ASSUME k \in loaded'[u]
        PROVE  /\ \A i \in r.ans : i \notin table[k] => Comes(u, "del", k, i)
               /\ \A i \in table[k] : i \notin r.ans => Comes(u, "add", k, i)
    BY <1>0, <1>8, <1>9, <2>1 DEF Followed, AnswersFollow
  <2> QED BY <1>4, <1>10, <2>1 DEF ViewFollows
<1>12. StaleHeard(u, k)'
  <2>1. CASE Outsider(r)
    <3>1. k \notin loaded'[u]
      BY <1>9, <2>1
    <3> QED BY <1>0, <1>2, <1>5, <3>1 DEF Followed, StaleHeard
  <2>2. CASE ~Outsider(r)
    <3>1. \A x \in News(u, k) : Stale(u, k, x) => x.ver < r.ver
      BY <1>8, <2>2 DEF Followed, AnswersFollow
    <3> QED BY <1>2, <1>5, <3>1 DEF StaleHeard
  <2> QED BY <2>1, <2>2
<1>13. UrlsFollow(u, k)'
  BY <1>0, <1>4 DEF Followed, UrlsFollow
<1> QED BY <1>7, <1>11, <1>12, <1>13 DEF Followed

\* A sticker that is fetched.
LEMMA FetchesFollowed ==
  ASSUME Typed, Placed, NoDuplicates, NEW r \in reqs, FetchStep(r), NEW u \in Users, NEW k \in NewsKinds,
         u = r.u, k = r.kind, <<u, k>> \notin behind', Followed(u, k)
  PROVE  Followed(u, k)'
<1>0. /\ k = "stickers" /\ k \in Kinds /\ r.ver \in Nat /\ r.ver <= ver[k] /\ r.pc = "reply" /\ r.op = "fetch"
      /\ heard' = Later(u, k, r.ver) /\ UNCHANGED <<view, loaded>> /\ r.item \in Stickers /\ r.ans \subseteq {r.item}
  BY RequestFields, NewsKindsAre DEF FetchStep, Replied, Asked
<1>1. r.ver >= heard[u][k]
  BY <1>0 DEF FetchStep, Replied, Typed
<1>2. heard'[u][k] = r.ver /\ heard[u][k] <= heard'[u][k] /\ heard[u][k] \in Nat
  BY <1>0, <1>1, HeardLater
<1>3. Fewer(u, k) /\ Coming(u, k)' = Coming(u, k) /\ \A x \in Told(u, k) : x \in Told(u, k)'
  BY <1>0, AnswersSpread DEF Writes
<1>4. (\A op, i : Comes(u, op, k, i)' <=> Comes(u, op, k, i)) /\ table'[k] = table[k]
  BY <1>3 DEF Comes, Fewer
<1>5. \A x \in News(u, k)' : x \in News(u, k) /\ x.ver \in Nat /\ (Stale(u, k, x)' <=> Stale(u, k, x))
  BY <1>3, <1>4, NewsFields DEF Stale, Fewer
<1>6. \A q \in Useful(u, k)' : q \in Useful(u, k)
  <2>1. \A q \in Replies(u, k)' : q \in Replies(u, k)
    BY <1>3 DEF Fewer
  <2>2. \A q \in Replies(u, k) : q.ver \in Nat
    BY RequestFields DEF Replies
  <2> QED BY <1>0, <1>2, <2>1, <2>2 DEF Useful
<1>7. AnswersFollow(u, k)'
  BY <1>4, <1>5, <1>6 DEF Followed, AnswersFollow
<1>8. ViewFollows(u, k)'
  <2>1. \A i : Shows(u, k, i)' <=> Shows(u, k, i)
    BY <1>0 DEF Shows
  <2> QED BY <1>0, <1>3, <1>4, <2>1 DEF Followed, ViewFollows
<1>9. StaleHeard(u, k)'
  BY <1>0, <1>2, <1>5 DEF Followed, StaleHeard
<1>10. UrlsFollow(u, k)'
  <2>1. r \in Useful(u, k)
    BY <1>0, <1>1 DEF Useful, Replies, Outsider
  <2>2. \A i \in r.ans : i \notin table[k] => Comes(u, "del", k, i)
    BY <2>1 DEF Followed, AnswersFollow
  <2>3. \A i \in urls'[u] : i \in urls[u] \/ i \in r.ans
    <3>1. CASE UNCHANGED urls
      BY <3>1
    <3>2. CASE r.ans # {} /\ urls' = [urls EXCEPT ![u] = @ \union {r.item}]
      BY <1>0, <3>2 DEF Typed
    <3> QED BY <3>1, <3>2 DEF FetchStep
  <2> QED BY <1>4, <2>2, <2>3 DEF Followed, UrlsFollow
<1> QED BY <1>7, <1>8, <1>9, <1>10 DEF Followed

\* The owner changes its list of stickers by itself.
LEMMA WritersFollowed ==
  ASSUME Typed, Placed, NoDuplicates, Honest, OwnersStickers, NEW r \in reqs, WriterStep(r),
         NEW u \in Users, NEW k \in NewsKinds, u = r.u, k = r.kind, <<u, k>> \notin behind', Followed(u, k)
  PROVE  Followed(u, k)'
<1>0. /\ k \in Kinds /\ r.item \in Nat /\ r.ver \in Nat /\ r.ver <= ver[k] /\ r.pc = "reply" /\ r.op \in {"add", "del"} /\ heard' = Later(u, k, r.ver)
      /\ (k = "stickers" => u = Owner)
  BY RequestFields, NewsKindsAre DEF WriterStep, Replied, Asked
<1>1. k = "stickers" => r.ver >= heard[u][k]
  BY <1>0 DEF WriterStep, Replied, Typed
<1>2. /\ heard'[u][k] \in Nat /\ heard[u][k] <= heard'[u][k] /\ heard[u][k] \in Nat /\ r.ver <= heard'[u][k]
      /\ (k = "stickers" => heard'[u][k] = r.ver)
  BY <1>0, <1>1, HeardLater
<1>3. /\ Fewer(u, k) /\ Coming(u, k)' = Coming(u, k)
      /\ \A x \in Told(u, k) : x \in Told(u, k)' \/ Tells(x, r)
  BY <1>0, AnswersSpread
<1>4. CASE k # "stickers"
  <2>1. \A x \in Told(u, k) : x \in Told(u, k)'
    BY <1>4 DEF Told
  <2>2. UNCHANGED shown
    BY <1>4 DEF WriterStep
  <2> QED BY <1>2, <1>3, <2>1, <2>2, StillFollowed DEF Still, shown
<1>5. CASE k = "stickers"
  <2>1. (\A op, i : Comes(u, op, k, i)' <=> Comes(u, op, k, i)) /\ table'[k] = table[k]
    BY <1>3 DEF Comes, Fewer
  <2>2. \A x \in News(u, k)' : x \in News(u, k) /\ x.ver \in Nat /\ (Stale(u, k, x)' <=> Stale(u, k, x))
    BY <1>3, <2>1, NewsFields DEF Stale, Fewer
  <2>3. \A q \in Useful(u, k)' : q \in Useful(u, k)
    <3>1. \A q \in Replies(u, k)' : q \in Replies(u, k)
      BY <1>3 DEF Fewer
    <3>2. \A q \in Replies(u, k) : q.ver \in Nat
      BY RequestFields DEF Replies
    <3> QED BY <1>2, <3>1, <3>2 DEF Useful
  <2>4. AnswersFollow(u, k)'
    BY <2>1, <2>2, <2>3 DEF Followed, AnswersFollow
  <2>5. StaleHeard(u, k) /\ \A x \in News(u, k) : Stale(u, k, x) => x.ver < heard[u][k]
    BY <1>0, <1>5 DEF Followed, StaleHeard
  <2>6. StaleHeard(u, k)'
    BY <1>2, <2>2, <2>5 DEF StaleHeard
  <2>7. UrlsFollow(u, k)'
    <3>1. urls'[u] \subseteq urls[u]
      BY <1>0, <1>5 DEF WriterStep, shown, Revoked, Typed
    <3> QED BY <2>1, <3>1 DEF Followed, UrlsFollow
  <2>8. PICK e \in Events : Tells(e, r)
    <3> DEFINE d == [kind |-> r.kind, op |-> r.op, item |-> r.item, ver |-> r.ver]
    <3>1. d \in Events /\ Tells(d, r)
      BY <1>0 DEF Events, Tells
    <3> QED BY <3>1
  <2>9. e \in News(u, k) /\ e \in Told(u, k) /\ e.op = r.op /\ e.item = r.item /\ e.ver = r.ver
    BY <1>0, <1>5, <2>8 DEF News, Told, Writes, Tells
  <2>10. ViewFollows(u, k)'
    <3>1. CASE r.op = "add"
      <4>1. \A i : Shows(u, k, i)' <=> Shows(u, k, i) \/ i = r.item
        BY <1>5, <3>1, WriterShows DEF Shows
      <4>2. \A i : Shows(u, k, i) /\ i \notin table[k] => Comes(u, "del", k, i)
        BY <1>0, <1>5 DEF Followed, ViewFollows, OwnersStickers
      <4>3. r.item \notin table[k] => Comes(u, "del", k, r.item)
        <5>1. ASSUME r.item \notin table[k], ~Comes(u, "del", k, r.item) PROVE FALSE
          <6>1. Stale(u, k, e)
            BY <2>9, <3>1, <5>1 DEF Stale
          <6>2. r.ver < heard[u][k]
            BY <2>5, <2>9, <6>1
          <6> QED BY <1>0, <1>1, <1>2, <1>5, <6>2
        <5> QED BY <5>1
      <4>4. ASSUME NEW i \in table[k], i # r.item, ~Shows(u, k, i)
            PROVE  Comes(u, "add", k, i) \/ \E x \in Told(u, k)' : x.op = "add" /\ x.item = i
        <5>1. CASE k \in loaded[u]
          <6>1. Comes(u, "add", k, i) \/ \E x \in Told(u, k) : x.op = "add" /\ x.item = i
            BY <4>4, <5>1 DEF Followed, ViewFollows
          <6> QED BY <1>3, <4>4, <6>1 DEF Tells
        <5>2. CASE k \notin loaded[u]
          <6>1. PICK q \in reqs : q.op = "add" /\ q.kind = "stickers" /\ q.item = i /\ q.pc \in {"fan", "reply"}
            BY <1>0, <1>5, <4>4, <5>2 DEF OwnersStickers
          <6>2. PICK x \in Events : Tells(x, q)
            <7> DEFINE d == [kind |-> q.kind, op |-> q.op, item |-> q.item, ver |-> q.ver]
            <7>1. d \in Events /\ Tells(d, q)
              BY <6>1, RequestFields DEF Events, Tells
            <7> QED BY <7>1
          <6>3. x.op = "add" /\ x.item = i /\ q.u = Owner
            BY <6>1, <6>2 DEF Tells, Placed, Asked
          <6>4. x \in Due(k) \/ x \in Told(u, k)
            BY <1>0, <1>5, <6>1, <6>2, <6>3 DEF Due, Told, Writes
          <6>5. CASE x \in Due(k)
            BY <6>3, <6>5 DEF Comes, Coming
          <6>6. CASE x \in Told(u, k)
            BY <1>3, <4>4, <6>3, <6>6 DEF Tells
          <6> QED BY <6>4, <6>5, <6>6
        <5> QED BY <5>1, <5>2
      <4> QED BY <2>1, <4>1, <4>2, <4>3, <4>4 DEF ViewFollows
    <3>2. CASE r.op = "del"
      <4>1. \A i : Shows(u, k, i)' <=> Shows(u, k, i) /\ i # r.item
        BY <1>5, <3>2, WriterShows DEF Shows
      <4>2. r.item \notin table[k]
        BY <2>9, <3>2 DEF Honest, Accurate
      <4>3. loaded' = loaded
        BY <1>5, <3>2 DEF WriterStep
      <4>4. \A x \in Told(u, k) : x.op = "add" => x \in Told(u, k)'
        BY <1>3, <3>2 DEF Tells
      <4> QED BY <2>1, <4>1, <4>2, <4>3, <4>4 DEF Followed, ViewFollows
    <3> QED BY <1>0, <3>1, <3>2
  <2> QED BY <2>4, <2>6, <2>7, <2>10 DEF Followed
<1> QED BY <1>4, <1>5

\* News that are heard correct the list, and answers know them already.
LEMMA HearsFollowed ==
  ASSUME Typed, Placed, NoDuplicates, Honest, NEW u \in Users, HearStep(u), NEW e, e = Head(wire[u]),
         NEW k \in NewsKinds, k = e.kind, <<u, k>> \notin behind', Followed(u, k)
  PROVE  Followed(u, k)'
<1>0. /\ e.op \in {"add", "del"} /\ e.item \in Nat /\ e.ver \in Nat /\ e.ver <= ver[k] /\ heard' = Later(u, k, e.ver)
      /\ k \in Kinds /\ k # "members" /\ loaded' = loaded
  <2>1. wire[u] # <<>> /\ k # "members" /\ k \in Kinds
    BY NewsKindsAre DEF HearStep
  <2> QED BY <2>1, HeadOf DEF HearStep, Wired
<1>1. e \in Coming(u, k) /\ e \in News(u, k)
  BY HearsSpread DEF News
<1>2. k = "stickers" => e.ver >= heard[u][k]
  BY <1>0 DEF HearStep, Typed
<1>3. heard'[u][k] \in Nat /\ heard[u][k] \in Nat /\ heard[u][k] <= heard'[u][k] /\ e.ver <= heard'[u][k]
  BY <1>0, HeardLater
<1>4. /\ Fewer(u, k) /\ Told(u, k)' = Told(u, k) /\ table'[k] = table[k]
      /\ \A x \in Coming(u, k)' : x \in Coming(u, k)
      /\ \A x \in Coming(u, k) : x \in Coming(u, k)' \/ x = e
      /\ \A x \in News(u, k)' : x \in News(u, k)
  BY HearsSpread DEF Fewer
<1>5. Accurate(u, k) /\ Ordered(u, k) /\ Known(u, k)
  BY DEF Honest
<1>6. \A op, i : Comes(u, op, k, i) => Comes(u, op, k, i)' \/ (e.op = op /\ e.item = i)
  BY <1>4 DEF Comes
<1>7. \A x \in News(u, k)' : Stale(u, k, x)' => Stale(u, k, x) \/ x.ver < e.ver
  <2>1. ASSUME NEW x \in News(u, k), x.op = "add", x.item \notin table[k], ~Comes(u, "del", k, x.item)',
               Comes(u, "del", k, x.item)
        PROVE  x.ver < e.ver
    <3>1. e.op = "del" /\ e.item = x.item
      BY <1>6, <2>1
    <3> QED BY <1>1, <1>5, <2>1, <3>1 DEF Ordered
  <2> QED BY <1>4, <2>1 DEF Stale
<1>8. ASSUME NEW q \in Useful(u, k)' PROVE q \in Useful(u, k) /\ q.ver \in Nat /\ e.ver <= q.ver /\ q \in Replies(u, k)
  <2>1. q \in Replies(u, k)' /\ q.ver >= heard'[u][k]
    BY DEF Useful
  <2>2. q \in Replies(u, k)
    BY <1>4, <2>1 DEF Fewer
  <2>3. q.ver \in Nat
    BY <2>2, RequestFields DEF Replies
  <2> QED BY <1>0, <1>3, <2>1, <2>2, <2>3 DEF Useful
<1>9. AnswersFollow(u, k)'
  <2>1. ASSUME NEW q \in Useful(u, k)'
        PROVE  /\ \A i \in q.ans : i \notin table[k] => Comes(u, "del", k, i)'
               /\ q.op = "load" => \A i \in table[k] : i \notin q.ans => Comes(u, "add", k, i)'
               /\ \A x \in News(u, k)' : Stale(u, k, x)' => x.ver < q.ver
    <3>0. /\ \A i \in q.ans : i \notin table[k] => Comes(u, "del", k, i)
          /\ q.op = "load" => \A i \in table[k] : i \notin q.ans => Comes(u, "add", k, i)
          /\ \A x \in News(u, k) : Stale(u, k, x) => x.ver < q.ver
      BY <1>8 DEF Followed, AnswersFollow
    <3>1. /\ e.op = "del" => e.item \notin q.ans
          /\ e.op = "add" /\ q.op = "load" /\ e.item \in table[k] => e.item \in q.ans
      BY <1>1, <1>5, <1>8 DEF Known
    <3>2. \A x \in News(u, k)' : x.ver \in Nat
      BY <1>4, NewsFields
    <3> QED BY <1>0, <1>4, <1>6, <1>7, <1>8, <3>0, <3>1, <3>2
  <2> QED BY <1>4, <2>1 DEF AnswersFollow
<1>10. StaleHeard(u, k)'
  <2>1. \A x \in News(u, k)' : x.ver \in Nat /\ x \in News(u, k)
    BY <1>4, NewsFields
  <2> QED BY <1>0, <1>3, <1>7, <2>1 DEF Followed, StaleHeard
<1>11. ViewFollows(u, k)'
  <2> SUFFICES ASSUME k \in loaded[u]
               PROVE  /\ \A i : Shows(u, k, i)' /\ i \notin table[k] => Comes(u, "del", k, i)'
                      /\ \A i \in table[k] : ~Shows(u, k, i)' =>
                            Comes(u, "add", k, i)' \/ \E x \in Told(u, k) : x.op = "add" /\ x.item = i
    BY <1>0, <1>4 DEF ViewFollows
  <2>1. /\ \A i : Shows(u, k, i) /\ i \notin table[k] => Comes(u, "del", k, i)
        /\ \A i \in table[k] : ~Shows(u, k, i) =>
             Comes(u, "add", k, i) \/ \E x \in Told(u, k) : x.op = "add" /\ x.item = i
    BY DEF Followed, ViewFollows
  <2>2. CASE e.op = "add"
    <3>1. \A i : Shows(u, k, i)' <=> Shows(u, k, i) \/ i = e.item
      BY <1>0, <2>2, HearShows DEF Shows
    <3>2. e.item \notin table[k] => Comes(u, "del", k, e.item)
      <4>1. ASSUME e.item \notin table[k], ~Comes(u, "del", k, e.item) PROVE FALSE
        <5>1. Stale(u, k, e) /\ k = "stickers"
          BY <1>1, <1>5, <2>2, <4>1 DEF Stale, Accurate
        <5>2. e.ver < heard[u][k]
          BY <1>1, <5>1 DEF Followed, StaleHeard
        <5> QED BY <1>0, <1>2, <1>3, <5>1, <5>2
      <4> QED BY <4>1
    <3> QED BY <1>6, <2>1, <2>2, <3>1, <3>2
  <2>3. CASE e.op = "del"
    <3>1. \A i : Shows(u, k, i)' <=> Shows(u, k, i) /\ i # e.item
      BY <1>0, <2>3, HearShows DEF Shows
    <3>2. e.item \notin table[k]
      BY <1>1, <1>5, <2>3 DEF Accurate
    <3> QED BY <1>6, <2>1, <2>3, <3>1, <3>2
  <2> QED BY <1>0, <2>2, <2>3
<1>12. UrlsFollow(u, k)'
  <2>1. \A i \in urls'[u] : i \in urls[u] /\ (e.op = "del" => i # e.item)
    <3>1. e.op = "add" => UNCHANGED urls
      BY <1>0 DEF HearStep
    <3>2. e.op = "del" => urls' = [urls EXCEPT ![u] = @ \ {e.item}]
      BY <1>0 DEF HearStep, Revoked
    <3> QED BY <1>0, <3>1, <3>2 DEF Typed
  <2> QED BY <1>4, <1>6, <2>1 DEF Followed, UrlsFollow
<1> QED BY <1>9, <1>10, <1>11, <1>12 DEF Followed

\* A newcomer has no list yet, or missed news of everything.
LEMMA NewcomersFollowed ==
  ASSUME Typed, Placed, Newcomers, NEW r \in reqs, InsertStep(r), NEW u \in Users, u \notin Members,
         NEW k \in NewsKinds, k # r.kind, <<u, k>> \notin behind'
  PROVE  Followed(u, k)'
<1>1. UNCHANGED <<shown, behind>>
  BY DEF InsertStep
<1>2. k \notin loaded'[u] /\ urls'[u] = {} /\ Replies(u, k) = {}
  BY <1>1, NewsKindsAre DEF Newcomers, shown
<1>3. Replies(u, k)' = {}
  BY <1>2, ChangesSpread
<1>4. u # Owner
  BY DEF Placed
<1> QED BY <1>2, <1>3, <1>4 DEF Followed, AnswersFollow, ViewFollows, StaleHeard, UrlsFollow, Useful

\* Members come by an insertion and go by a deletion, which leaves them behind.
LEMMA MembersMove ==
  ASSUME Typed, Placed, Step, NEW u
  PROVE  /\ u \in Members' => u \in Members \/ \E r \in reqs : InsertStep(r) /\ r.kind = "members"
         /\ u \notin Members' => u \notin Members \/ \A k \in Kinds : <<u, k>> \in behind'
<1>1. CASE UNCHANGED table
  BY <1>1 DEF Members
<1>2. ASSUME NEW r \in reqs, InsertStep(r)
      PROVE  /\ u \in Members' => u \in Members \/ r.kind = "members"
             /\ u \notin Members' => u \notin Members
  <2>1. r.kind \in Kinds /\ table' = [table EXCEPT ![r.kind] = @ \union {r.item}]
    BY <1>2, RequestFields DEF InsertStep
  <2> QED BY <2>1, KindsAre DEF Members, Typed
<1>3. ASSUME NEW r \in reqs, DeleteStep(r)
      PROVE  /\ u \in Members' => u \in Members
             /\ u \notin Members' => u \notin Members \/ \A k \in Kinds : <<u, k>> \in behind'
  <2>1. r.kind \in Kinds /\ table' = [table EXCEPT ![r.kind] = @ \ {r.item}]
        /\ (r.kind = "members" => behind' = behind \union ({r.item} \X Kinds))
    BY <1>3, RequestFields DEF DeleteStep
  <2>2. CASE r.kind = "members"
    <3>1. table'["members"] = table["members"] \ {r.item}
      BY <2>1, <2>2 DEF Typed
    <3> QED BY <2>1, <2>2, <3>1 DEF Members
  <2>3. CASE r.kind # "members"
    <3>1. table'["members"] = table["members"]
      BY <2>1, <2>3, KindsAre DEF Typed
    <3> QED BY <3>1 DEF Members
  <2> QED BY <2>2, <2>3
<1> QED BY <1>1, <1>2, <1>3 DEF Step, AskStep, IdleStep, NoStep, FanStep, ReadStep, LoadStep, FetchStep, WriterStep,
                               Replied, HearStep, DropStep

LEMMA StepsFollowing ==
  ASSUME Typed, Placed, NoDuplicates, Numbered, Honest, OwnersStickers, Newcomers, Following, Step, Typed'
  PROVE  Following'
<1> SUFFICES ASSUME NEW u \in Users, NEW k \in NewsKinds, Follows(u, k)' PROVE Followed(u, k)'
  BY DEF Following
<1>0. /\ <<u, k>> \notin behind' /\ <<u, k>> \notin behind /\ u \in Members' /\ heard'[u][k] \in Nat
      /\ u \in Members => Followed(u, k)
  BY BehindGrows, NewsKindsAre DEF Follows, Following, Typed
<1>1. ASSUME u \notin Members PROVE Followed(u, k)'
  <2>1. PICK r \in reqs : InsertStep(r) /\ r.kind = "members"
    BY <1>0, <1>1, MembersMove
  <2> QED BY <1>0, <1>1, <2>1, NewcomersFollowed DEF NewsKinds
<1>2. ASSUME u \in Members PROVE Followed(u, k)'
  <2>0. Followed(u, k)
    BY <1>0, <1>2
  <2>1. Still(u, k) => Followed(u, k)'
    BY <1>0, <2>0, StillFollowed
  <2>2. CASE AskStep \/ IdleStep
    BY <2>1, <2>2, AsksStill
  <2>3. ASSUME NEW r \in reqs, InsertStep(r) \/ DeleteStep(r) PROVE Followed(u, k)'
    <3>1. CASE k = r.kind
      BY <2>0, <2>3, <3>1, ChangesFollowed
    <3>2. CASE k # r.kind
      BY <2>1, <2>3, <3>2, ChangesSpread
    <3> QED BY <3>1, <3>2
  <2>4. ASSUME NEW r \in reqs, NoStep(r) PROVE Followed(u, k)'
    BY <2>1, <2>4, NothingsStill
  <2>5. ASSUME NEW r \in reqs, FanStep(r) PROVE Followed(u, k)'
    BY <1>0, <1>2, <2>1, <2>5, FansSpread
  <2>6. ASSUME NEW r \in reqs, ReadStep(r) PROVE Followed(u, k)'
    BY <2>0, <2>6, ReadsFollowed
  <2>7. ASSUME NEW r \in reqs, LoadStep(r) PROVE Followed(u, k)'
    <3>1. CASE u = r.u /\ k = r.kind
      BY <1>0, <2>0, <2>7, <3>1, LoadsFollowed
    <3>2. CASE u # r.u \/ k # r.kind
      BY <2>1, <2>7, <3>2, AnswersSpread
    <3> QED BY <3>1, <3>2
  <2>8. ASSUME NEW r \in reqs, FetchStep(r) PROVE Followed(u, k)'
    <3>1. CASE u = r.u /\ k = r.kind
      BY <1>0, <2>0, <2>8, <3>1, FetchesFollowed
    <3>2. CASE u # r.u \/ k # r.kind
      BY <2>1, <2>8, <3>2, AnswersSpread
    <3> QED BY <3>1, <3>2
  <2>9. ASSUME NEW r \in reqs, WriterStep(r) PROVE Followed(u, k)'
    <3>1. CASE u = r.u /\ k = r.kind
      BY <1>0, <2>0, <2>9, <3>1, WritersFollowed
    <3>2. CASE u # r.u \/ k # r.kind
      BY <2>1, <2>9, <3>2, AnswersSpread
    <3> QED BY <3>1, <3>2
  <2>10. ASSUME NEW w \in Users, HearStep(w) PROVE Followed(u, k)'
    <3>1. PICK e : e = Head(wire[w])
      OBVIOUS
    <3>2. CASE u = w /\ k = e.kind
      BY <1>0, <2>0, <2>10, <3>1, <3>2, HearsFollowed
    <3>3. CASE u # w \/ k # e.kind
      BY <2>1, <2>10, <3>1, <3>3, HearsSpread
    <3> QED BY <3>2, <3>3
  <2>11. ASSUME NEW w \in Users, DropStep(w) PROVE Followed(u, k)'
    BY <1>0, <2>1, <2>11, DropsSpread
  <2> QED BY <2>2, <2>3, <2>4, <2>5, <2>6, <2>7, <2>8, <2>9, <2>10, <2>11 DEF Step
<1> QED BY <1>1, <1>2

\* A client that has loaded the stickers keeps a list of them.
LEMMA StickersStay ==
  ASSUME Typed, Placed, Step, NEW u \in Users, "stickers" \in loaded[u]
  PROVE  "stickers" \in loaded'[u]
<1>1. ASSUME NEW r \in reqs, LoadStep(r) PROVE "stickers" \in loaded'[u]
  <2>1. loaded' = [loaded EXCEPT ![r.u] = IF Outsider(r) THEN @ \ {r.kind} ELSE @ \union {r.kind}]
    BY <1>1 DEF LoadStep
  <2>2. Outsider(r) => r.kind = "channels"
    BY DEF Outsider
  <2> QED BY <2>1, <2>2 DEF Typed
<1>2. UNCHANGED loaded => "stickers" \in loaded'[u]
  OBVIOUS
<1>3. ASSUME NEW r \in reqs, WriterStep(r) PROVE "stickers" \in loaded'[u]
  <2>1. UNCHANGED loaded \/ loaded' = [loaded EXCEPT ![r.u] = @ \union {"stickers"}]
    BY <1>3 DEF WriterStep, shown
  <2> QED BY <2>1 DEF Typed
<1>4. ASSUME NEW w \in Users, HearStep(w) PROVE "stickers" \in loaded'[u]
  <2>1. UNCHANGED loaded \/ loaded' = [loaded EXCEPT ![w] = @ \ {"channels"}]
    BY <1>4 DEF HearStep, shown
  <2> QED BY <2>1 DEF Typed
<1> QED BY <1>1, <1>2, <1>3, <1>4 DEF Step, AskStep, IdleStep, InsertStep, DeleteStep, NoStep, FanStep, ReadStep,
                                    FetchStep, DropStep, shown

\* Nothing is shown without a list.
LEMMA UnlistedEmpty ==
  ASSUME Typed, Placed, NoDuplicates, OwnersStickers, Step,
         NEW u \in Users, "stickers" \notin loaded'[u], NEW i
  PROVE  ~Shows(u, "stickers", i)'
<1>0. "stickers" \notin loaded[u] /\ ~Shows(u, "stickers", i) /\ "stickers" \in NewsKinds /\ "stickers" \in Kinds
  BY StickersStay, KindsAre DEF OwnersStickers, NewsKinds
<1>1. view'[u]["stickers"] = view[u]["stickers"] => ~Shows(u, "stickers", i)'
  BY <1>0 DEF Shows
<1>2. ASSUME NEW r \in reqs, LoadStep(r) \/ WriterStep(r) PROVE ~Shows(u, "stickers", i)'
  <2>1. CASE u # r.u \/ r.kind # "stickers"
    <3>1. Still(u, "stickers")
      BY <1>0, <1>2, <2>1, AnswersSpread
    <3> QED BY <1>1, <3>1 DEF Still
  <2>2. CASE u = r.u /\ r.kind = "stickers"
    <3>1. LoadStep(r) => loaded' = [loaded EXCEPT ![u] = @ \union {"stickers"}]
      BY <2>2 DEF LoadStep, Outsider
    <3>2. ~LoadStep(r) /\ ~(r.op = "add")
      BY <1>0, <1>2, <2>2, <3>1 DEF WriterStep, Typed
    <3>3. WriterStep(r) /\ r.op = "del"
      BY <1>2, <3>2 DEF WriterStep
    <3>4. ToSet(view'[u]["stickers"]) = ToSet(view[u]["stickers"]) \ {r.item}
      BY <2>2, <3>3, WriterShows
    <3> QED BY <1>0, <3>4 DEF Shows
  <2> QED BY <2>1, <2>2
<1>3. ASSUME NEW w \in Users, HearStep(w) PROVE ~Shows(u, "stickers", i)'
  <2>1. PICK e : e = Head(wire[w])
    OBVIOUS
  <2>2. CASE u # w \/ e.kind # "stickers"
    <3>1. Still(u, "stickers")
      BY <1>0, <1>3, <2>1, <2>2, HearsSpread
    <3> QED BY <1>1, <3>1 DEF Still
  <2>3. CASE u = w /\ e.kind = "stickers"
    <3>1. e.op \in {"add", "del"}
      BY <1>3, <2>1, HeadOf DEF HearStep
    <3>2. e.op = "add" => ToSet(view'[u]["stickers"]) = ToSet(view[u]["stickers"])
      BY <1>0, <1>3, <2>1, <2>3, HearShows
    <3>3. e.op = "del" => ToSet(view'[u]["stickers"]) = ToSet(view[u]["stickers"]) \ {e.item}
      BY <1>3, <2>1, <2>3, HearShows
    <3> QED BY <1>0, <3>1, <3>2, <3>3 DEF Shows
  <2> QED BY <2>2, <2>3
<1> QED BY <1>1, <1>2, <1>3 DEF Step, AskStep, IdleStep, InsertStep, DeleteStep, NoStep, FanStep, ReadStep,
                                    FetchStep, DropStep, shown

\* A sticker reaches the owner's list, or is on its way.
LEMMA StepsOwners ==
  ASSUME Typed, Placed, NoDuplicates, OwnersStickers, Step
  PROVE  OwnersStickers'
<1> DEFINE Pends(rs, i) == \E q \in rs : q.op = "add" /\ q.kind = "stickers" /\ q.item = i /\ q.pc \in {"fan", "reply"}
<1>0. Owner \in Users /\ "stickers" \in Kinds
  BY ConstantsAssumption, KindsAre
<1>1. "stickers" \in loaded[Owner] => "stickers" \in loaded'[Owner]
  BY <1>0, StickersStay
<1>2. \A i \in table["stickers"] : "stickers" \in loaded'[Owner] \/ Pends(reqs, i)
  BY <1>1 DEF OwnersStickers
<1>3. ASSUME NEW i \in table'["stickers"], "stickers" \notin loaded'[Owner] PROVE Pends(reqs', i)
  <2>1. CASE UNCHANGED table /\ \A q \in reqs : q.op = "add" => q \in reqs'
    <3>1. Pends(reqs, i)
      BY <1>2, <1>3, <2>1
    <3> QED BY <2>1, <3>1
  <2>2. ASSUME NEW r \in reqs, InsertStep(r) PROVE Pends(reqs', i)
    <3>1. PICK z \in Requests : Turned(r, z, "fan")
      BY <2>2 DEF InsertStep
    <3>2. reqs' = (reqs \ {r}) \union {z} /\ z.op = "add" /\ z.kind = r.kind /\ z.item = r.item /\ z.pc = "fan" /\ r.pc = "write"
      BY <2>2, <3>1 DEF Turned, InsertStep
    <3>3. i \in table["stickers"] \/ (r.kind = "stickers" /\ i = r.item)
      BY <1>0, <2>2 DEF InsertStep, Typed
    <3>4. i \in table["stickers"] => Pends(reqs', i)
      BY <1>2, <1>3, <3>2
    <3> QED BY <3>2, <3>3, <3>4
  <2>3. ASSUME NEW r \in reqs, DeleteStep(r) PROVE Pends(reqs', i)
    <3>1. r.op = "del" /\ i \in table["stickers"]
      BY <1>0, <2>3 DEF DeleteStep, Typed
    <3>2. \A q \in reqs : q # r => q \in reqs'
      BY <2>3 DEF DeleteStep, Turned
    <3> QED BY <1>2, <1>3, <3>1, <3>2
  <2>4. ASSUME NEW r \in reqs, NoStep(r) PROVE Pends(reqs', i)
    <3>1. UNCHANGED table /\ r.pc = "write" /\ \A q \in reqs : q # r => q \in reqs'
      BY <2>4 DEF NoStep, Turned
    <3> QED BY <1>2, <1>3, <3>1
  <2>5. ASSUME NEW r \in reqs, FanStep(r) PROVE Pends(reqs', i)
    <3> DEFINE pc == IF r.op = "del" /\ r.kind = "members" THEN "write" ELSE "reply"
    <3>1. PICK z \in Requests : Turned(r, z, pc)
      BY <2>5 DEF FanStep
    <3>2. UNCHANGED table /\ reqs' = (reqs \ {r}) \union {z} /\ z.op = r.op /\ z.kind = r.kind /\ z.item = r.item /\ z.pc = pc
      BY <2>5, <3>1 DEF FanStep, Turned
    <3>3. PICK q \in reqs : q.op = "add" /\ q.kind = "stickers" /\ q.item = i /\ q.pc \in {"fan", "reply"}
      BY <1>2, <1>3, <3>2
    <3> QED BY <3>2, <3>3
  <2>6. ASSUME NEW r \in reqs, WriterStep(r) PROVE Pends(reqs', i)
    <3>1. PICK q \in reqs : q.op = "add" /\ q.kind = "stickers" /\ q.item = i /\ q.pc \in {"fan", "reply"}
      BY <1>2, <1>3, <2>6 DEF WriterStep, Replied
    <3>2. q # r
      <4>1. ASSUME q = r PROVE FALSE
        <5>1. r.u = Owner /\ loaded' = [loaded EXCEPT ![r.u] = @ \union {"stickers"}]
          BY <2>6, <3>1, <4>1 DEF Placed, Asked, WriterStep
        <5> QED BY <1>0, <1>3, <5>1 DEF Typed
      <4> QED BY <4>1
    <3> QED BY <2>6, <3>1, <3>2 DEF WriterStep, Finished
  <2>7. ASSUME NEW r \in reqs, ReadStep(r) \/ LoadStep(r) \/ FetchStep(r) PROVE Pends(reqs', i)
    <3>1. UNCHANGED table /\ \A q \in reqs : q.op = "add" => q \in reqs'
      BY <2>7 DEF ReadStep, LoadStep, FetchStep, Replied, Finished, Turned
    <3> QED BY <2>1, <3>1
  <2>8. CASE AskStep \/ IdleStep \/ \E w \in Users : HearStep(w) \/ DropStep(w)
    <3>1. UNCHANGED table /\ \A q \in reqs : q.op = "add" => q \in reqs'
      BY <2>8 DEF AskStep, IdleStep, HearStep, DropStep, shown
    <3> QED BY <2>1, <3>1
  <2> QED BY <2>2, <2>3, <2>4, <2>5, <2>6, <2>7, <2>8 DEF Step
<1> QED BY <1>3, UnlistedEmpty DEF OwnersStickers

\* Who is no member gets no lists.
LEMMA StepsNewcomers ==
  ASSUME Typed, Placed, NoDuplicates, Newcomers, Step
  PROVE  Newcomers'
<1> DEFINE Bare(u, k) == k \notin loaded[u] /\ Replies(u, k) = {}
<1> SUFFICES ASSUME NEW u \in Users, u \notin Members', ~ \A k \in Kinds : <<u, k>> \in behind'
             PROVE  urls'[u] = {} /\ \A k \in NewsKinds : Bare(u, k)'
  BY DEF Newcomers
<1>0. /\ u \notin Members /\ urls[u] = {} /\ \A k \in NewsKinds : Bare(u, k)
      /\ u # Owner /\ "stickers" \in NewsKinds
  BY MembersMove, BehindGrows DEF Newcomers, Placed, NewsKinds
<1>1. ASSUME \A k \in NewsKinds : Still(u, k) PROVE urls'[u] = {} /\ \A k \in NewsKinds : Bare(u, k)'
  <2>1. urls'[u] = {}
    BY <1>0, <1>1 DEF Still
  <2>2. ASSUME NEW k \in NewsKinds PROVE k \notin loaded'[u] /\ Replies(u, k)' = {}
    <3>1. Replies(u, k)' \subseteq Replies(u, k) /\ (k \in loaded'[u] => k \in loaded[u])
      BY <1>1 DEF Still, Fewer
    <3> QED BY <1>0, <3>1
  <2> QED BY <2>1, <2>2
<1>2. ASSUME UNCHANGED shown, \A k \in NewsKinds : Replies(u, k)' \subseteq Replies(u, k)
      PROVE  urls'[u] = {} /\ \A k \in NewsKinds : Bare(u, k)'
  <2>1. ASSUME NEW k \in NewsKinds PROVE k \notin loaded'[u] /\ Replies(u, k)' = {}
    BY <1>0, <1>2 DEF shown
  <2> QED BY <1>0, <1>2, <2>1 DEF shown
<1>3. CASE AskStep \/ IdleStep
  BY <1>1, <1>3, AsksStill
<1>4. ASSUME NEW r \in reqs, InsertStep(r) \/ DeleteStep(r) \/ NoStep(r) \/ FanStep(r) \/ ReadStep(r)
      PROVE  urls'[u] = {} /\ \A k \in NewsKinds : Bare(u, k)'
  <2>1. UNCHANGED shown
    BY <1>4 DEF InsertStep, DeleteStep, NoStep, FanStep, ReadStep
  <2>2. ASSUME NEW k \in NewsKinds PROVE Replies(u, k)' \subseteq Replies(u, k)
    <3>1. CASE InsertStep(r) \/ DeleteStep(r)
      BY <3>1, ChangesSpread
    <3>2. CASE NoStep(r)
      BY <3>2, NothingsStill DEF Still, Fewer
    <3>3. CASE FanStep(r)
      BY <3>3, FansSpread DEF Fewer
    <3>4. CASE ReadStep(r)
      <4>1. \A q \in Replies(u, k)' : q \in Replies(u, k) \/ (q.u = r.u /\ r.u \in Members)
        BY <3>4, ReadsSpread
      <4>2. \A q \in Replies(u, k)' : q.u = u
        BY DEF Replies
      <4> QED BY <1>0, <4>1, <4>2
    <3> QED BY <1>4, <3>1, <3>2, <3>3, <3>4
  <2> QED BY <1>2, <2>1, <2>2
<1>5. ASSUME NEW r \in reqs, LoadStep(r) \/ FetchStep(r) \/ WriterStep(r)
      PROVE  urls'[u] = {} /\ \A k \in NewsKinds : Bare(u, k)'
  <2>1. CASE u # r.u
    BY <1>1, <1>5, <2>1, AnswersSpread
  <2>2. CASE u = r.u
    <3>1. \A k \in NewsKinds : Replies(u, k)' \subseteq Replies(u, k)
      BY <1>5, AnswersSpread DEF Fewer
    <3>2. CASE LoadStep(r)
      <4>1. r.kind \notin NewsKinds \/ Outsider(r)
        BY <1>0, <2>2, <3>2 DEF Replies, LoadStep
      <4>2. loaded' = [loaded EXCEPT ![u] = IF Outsider(r) THEN @ \ {r.kind} ELSE @ \union {r.kind}] /\ urls' = urls
        BY <2>2, <3>2 DEF LoadStep
      <4>3. \A k \in NewsKinds : k \notin loaded'[u]
        BY <1>0, <4>1, <4>2 DEF Typed
      <4> QED BY <1>0, <3>1, <4>2, <4>3
    <3>3. CASE FetchStep(r)
      <4>1. r \in Replies(u, "stickers")
        BY <2>2, <3>3 DEF Replies, FetchStep, Outsider, Placed, Asked
      <4> QED BY <1>0, <4>1
    <3>4. CASE WriterStep(r)
      <4>1. r.kind # "stickers"
        BY <1>0, <2>2, <3>4 DEF WriterStep, Placed, Asked
      <4>2. UNCHANGED shown
        BY <3>4, <4>1 DEF WriterStep
      <4> QED BY <1>2, <3>1, <4>2
    <3> QED BY <1>5, <3>2, <3>3, <3>4
  <2> QED BY <2>1, <2>2
<1>6. ASSUME NEW w \in Users, HearStep(w) PROVE urls'[u] = {} /\ \A k \in NewsKinds : Bare(u, k)'
  <2>1. \A k \in NewsKinds : Replies(u, k)' \subseteq Replies(u, k)
    BY <1>6, HearsSpread DEF Fewer
  <2>2. loaded'[u] \subseteq loaded[u]
    <3>1. CASE UNCHANGED loaded
      BY <3>1
    <3>2. CASE loaded' = [loaded EXCEPT ![w] = @ \ {"channels"}]
      BY <3>2 DEF Typed
    <3> QED BY <1>6, <3>1, <3>2 DEF HearStep, shown
  <2>3. urls'[u] \subseteq urls[u]
    <3>1. CASE UNCHANGED urls
      BY <3>1
    <3>2. ASSUME NEW s, urls' = [urls EXCEPT ![w] = @ \ {s}] PROVE urls'[u] \subseteq urls[u]
      BY <3>2 DEF Typed
    <3> QED BY <1>6, <3>1, <3>2 DEF HearStep, shown, Revoked
  <2>4. ASSUME NEW k \in NewsKinds PROVE k \notin loaded'[u] /\ Replies(u, k)' = {}
    BY <1>0, <2>1, <2>2
  <2> QED BY <1>0, <2>3, <2>4
<1>7. ASSUME NEW w \in Users, DropStep(w) PROVE urls'[u] = {} /\ \A k \in NewsKinds : Bare(u, k)'
  <2>1. UNCHANGED shown /\ \A k \in NewsKinds : Replies(u, k)' \subseteq Replies(u, k)
    BY <1>7, DropsSpread DEF DropStep, Fewer
  <2> QED BY <1>2, <2>1
<1> QED BY <1>3, <1>4, <1>5, <1>6, <1>7 DEF Step

-----------------------------------------------------------------------------
(* The lists of members, which events do not change but have loaded again.   *)

\* A removal whose event has gone out; one of u.
Removing == \E q \in reqs : Removal(q) /\ q.pc = "write"
Doomed(u) == \E q \in reqs : Removal(q) /\ q.pc = "write" /\ q.item = u

\* u follows the members and will go on to.
Safe(u) == Follows(u, "members") /\ ~Doomed(u)

\* u loads the members again, or will.
Warns(q, u) == q.kind = "members" /\ ((q.op = "load" /\ q.pc = "read" /\ q.u = u) \/ (q.op = "add" /\ q.pc = "fan"))
Warned(u) == OnWire(u, "members") # {} \/ \E q \in reqs : Warns(q, u)

\* u has the members, or the answer with them is on its way.
Informed(u) ==
  \/ \E r \in Useful(u, "members") : r.ver = ver["members"]
  \/ /\ Useful(u, "members") = {}
     /\ "members" \in loaded[u] => \A i : Shows(u, "members", i) <=> i \in Members

MembersFollow(u) == Safe(u) => Warned(u) \/ (~Removing /\ Informed(u))

\* Who hears of its own removal is to be removed, or was.
Removed == \A u \in Users : (\E e \in OnWire(u, "members") : e.op = "del" /\ e.item = u) =>
  Doomed(u) \/ \A k \in Kinds : <<u, k>> \in behind

\* An answer as new as the table has what is there.
Current == \A r \in reqs : r.op = "load" /\ r.kind = "members" /\ r.pc = "reply" /\ r.ver = ver["members"]
                             => r.ans = Members

Warning == Removed /\ Current /\ \A u \in Users : MembersFollow(u)

\* What u follows of the members depends on these requests.
Matters(q, u) == Warns(q, u) \/ (Removal(q) /\ q.pc = "write")
                   \/ (q.kind = "members" /\ q.u = u /\ q.op \in {"load", "fetch"} /\ q.pc = "reply")

Undisturbed(u) ==
  /\ table'["members"] = table["members"] /\ ver'["members"] = ver["members"]
  /\ (Safe(u)' => Safe(u)) /\ (Warned(u) => Warned(u)') /\ (Removing' => Removing)
  /\ Replies(u, "members")' = Replies(u, "members")
  /\ view'[u]["members"] = view[u]["members"] /\ ("members" \in loaded'[u] => "members" \in loaded[u])
  /\ heard[u]["members"] <= heard'[u]["members"]

LEMMA UndisturbedFollow ==
  ASSUME Typed, Typed', Placed', NEW u \in Users, MembersFollow(u), Undisturbed(u)
  PROVE  MembersFollow(u)'
<1>0. /\ heard[u]["members"] \in Nat /\ heard'[u]["members"] \in Nat /\ heard'[u]["members"] <= ver'["members"]
      /\ ver["members"] \in Nat
  <2>1. "members" \in Kinds
    BY KindsAre
  <2>2. heard[u]["members"] \in Nat /\ ver["members"] \in Nat
    BY <2>1 DEF Typed
  <2>3. heard'[u]["members"] \in Nat
    BY <2>1 DEF Typed
  <2>4. heard'[u]["members"] <= ver'["members"]
    BY <2>1 DEF Placed
  <2> QED BY <2>2, <2>3, <2>4
<1>1. \A r \in Useful(u, "members")' : r \in Useful(u, "members")
  <2>1. \A r \in Replies(u, "members") : r.ver \in Nat
    BY DEF Replies, Typed, Requests
  <2> QED BY <1>0, <2>1 DEF Undisturbed, Useful
<1>2. \A r \in Useful(u, "members") : r.ver = ver["members"] => r \in Useful(u, "members")'
  BY <1>0 DEF Undisturbed, Useful
<1>3. Informed(u) => Informed(u)'
  <2>1. \A i : Shows(u, "members", i)' <=> Shows(u, "members", i)
    BY DEF Undisturbed, Shows
  <2> QED BY <1>1, <1>2, <2>1 DEF Undisturbed, Informed, Members
<1> QED BY <1>3 DEF Undisturbed, MembersFollow

\* Nothing that matters goes, and what comes warns.
LEMMA MembersAside ==
  ASSUME Typed, Typed', Placed', NEW u \in Users, MembersFollow(u),
         table'["members"] = table["members"], ver'["members"] = ver["members"], behind \subseteq behind',
         OnWire(u, "members") \subseteq OnWire(u, "members")',
         view'[u]["members"] = view[u]["members"], "members" \in loaded'[u] => "members" \in loaded[u],
         heard[u]["members"] <= heard'[u]["members"],
         \A q \in reqs \ reqs' : ~Matters(q, u), \A q \in reqs' \ reqs : Matters(q, u) => Warns(q, u)
  PROVE  MembersFollow(u)'
<1>1. Warned(u) => Warned(u)'
  BY DEF Warned, Matters
<1>2. CASE \E q \in reqs' : Warns(q, u)
  BY <1>2 DEF MembersFollow, Warned
<1>3. CASE ~ \E q \in reqs' : Warns(q, u)
  <2>1. \A q : Matters(q, u) => (q \in reqs <=> q \in reqs')
    BY <1>3
  <2>2. Removing' => Removing
    BY <2>1 DEF Removing, Matters
  <2>3. Doomed(u) => Doomed(u)'
    BY <2>1 DEF Doomed, Matters
  <2>4. Replies(u, "members")' = Replies(u, "members")
    BY <2>1 DEF Replies, Outsider, Matters
  <2>5. Safe(u)' => Safe(u)
    BY <2>3 DEF Safe, Follows, Members
  <2> QED BY <1>1, <2>2, <2>4, <2>5, UndisturbedFollow DEF Undisturbed
<1> QED BY <1>2, <1>3

LEMMA HeardSame ==
  ASSUME Typed, NEW u \in Users, UNCHANGED heard
  PROVE  heard[u]["members"] <= heard'[u]["members"]
<1>1. "members" \in Kinds
  BY KindsAre
<1>2. heard[u]["members"] \in Nat
  BY <1>1 DEF Typed
<1> QED BY <1>2

\* A change of the members warns those who follow them.
LEMMA InsertsWarn ==
  ASSUME Typed, Placed, Typed', Placed', NEW r \in reqs, InsertStep(r), NEW u \in Users, MembersFollow(u)
  PROVE  MembersFollow(u)'
<1>0. /\ r.op = "add" /\ r.kind \in Kinds /\ table' = [table EXCEPT ![r.kind] = @ \union {r.item}]
      /\ ver' = [ver EXCEPT ![r.kind] = @ + 1] /\ UNCHANGED <<wire, shown, heard, behind>>
  BY RequestFields DEF InsertStep
<1>1. PICK z \in Requests : Turned(r, z, "fan")
  BY DEF InsertStep
<1>2. reqs' = (reqs \ {r}) \union {z} /\ z.op = "add" /\ z.kind = r.kind /\ z.pc = "fan"
  BY <1>0, <1>1 DEF Turned
<1>3. CASE r.kind = "members"
  BY <1>2, <1>3 DEF MembersFollow, Warned, Warns
<1>4. CASE r.kind # "members"
  <2>1. table'["members"] = table["members"] /\ ver'["members"] = ver["members"]
        /\ heard[u]["members"] <= heard'[u]["members"]
    BY <1>0, <1>4, KindsAre, HeardSame DEF Typed
  <2>2. ~Matters(r, u) /\ ~Matters(z, u)
    BY <1>0, <1>2, <1>4 DEF Matters, Warns, Removal
  <2> QED BY <1>0, <1>2, <2>1, <2>2, MembersAside DEF shown, OnWire
<1> QED BY <1>3, <1>4

\* To be removed is to be behind, and the others are warned by then.
LEMMA DeletesWarn ==
  ASSUME Typed, Placed, Typed', Placed', NEW r \in reqs, DeleteStep(r), NEW u \in Users, MembersFollow(u)
  PROVE  MembersFollow(u)'
<1>0. /\ r.op = "del" /\ r.pc = "write" /\ r.kind \in Kinds /\ table' = [table EXCEPT ![r.kind] = @ \ {r.item}]
      /\ ver' = [ver EXCEPT ![r.kind] = @ + 1] /\ UNCHANGED <<wire, shown, heard>>
      /\ behind' = IF r.kind = "members" THEN behind \union ({r.item} \X Kinds) ELSE behind
  BY RequestFields DEF DeleteStep
<1>1. PICK z \in Requests : Turned(r, z, IF r.kind = "members" THEN "reply" ELSE "fan")
  BY DEF DeleteStep
<1>2. /\ reqs' = (reqs \ {r}) \union {z} /\ z.op = "del" /\ z.kind = r.kind
      /\ z.pc = IF r.kind = "members" THEN "reply" ELSE "fan"
  BY <1>0, <1>1 DEF Turned
<1>3. CASE r.kind = "members"
  <2>1. ~Warns(r, u)
    BY <1>0 DEF Warns
  <2>2. Warned(u) => Warned(u)'
    BY <1>0, <1>2, <2>1 DEF Warned, OnWire
  <2>3. Safe(u)' => Safe(u)
    <3>1. <<u, "members">> \notin behind' => u # r.item /\ <<u, "members">> \notin behind
      BY <1>0, <1>3
    <3>2. u \in Members' => u \in Members
      BY <1>0, <1>3, KindsAre DEF Members, Typed
    <3>3. u # r.item /\ Doomed(u) => Doomed(u)'
      BY <1>2 DEF Doomed
    <3> QED BY <3>1, <3>2, <3>3 DEF Safe, Follows
  <2>4. Removing
    BY <1>0, <1>3 DEF Removing, Removal
  <2> QED BY <2>2, <2>3, <2>4 DEF MembersFollow
<1>4. CASE r.kind # "members"
  <2>1. table'["members"] = table["members"] /\ ver'["members"] = ver["members"]
        /\ heard[u]["members"] <= heard'[u]["members"]
    BY <1>0, <1>4, KindsAre, HeardSame DEF Typed
  <2>2. ~Matters(r, u) /\ ~Matters(z, u)
    BY <1>0, <1>2, <1>4 DEF Matters, Warns, Removal
  <2> QED BY <1>0, <1>2, <1>4, <2>1, <2>2, MembersAside DEF shown, OnWire
<1> QED BY <1>3, <1>4

LEMMA NothingsWarn ==
  ASSUME Typed, Placed, Typed', Placed', NEW r \in reqs, NoStep(r), NEW u \in Users, MembersFollow(u)
  PROVE  MembersFollow(u)'
<1>0. UNCHANGED <<table, ver, wire, shown, heard>> /\ heard[u]["members"] <= heard'[u]["members"] /\ r.pc = "write"
  BY HeardSame DEF NoStep
<1>1. CASE r.op = "add"
  <2>1. PICK z \in Requests : Turned(r, z, "reply")
    BY <1>1 DEF NoStep
  <2>2. reqs' = (reqs \ {r}) \union {z} /\ z.op = "add" /\ z.pc = "reply" /\ behind' = behind
    BY <1>1, <2>1 DEF NoStep, Turned
  <2>3. ~Matters(r, u) /\ ~Matters(z, u)
    BY <1>0, <1>1, <2>2 DEF Matters, Warns, Removal
  <2> QED BY <1>0, <2>2, <2>3, MembersAside DEF shown, OnWire
<1>2. CASE r.op = "del"
  <2>1. /\ r.item \notin table[r.kind] /\ reqs' = reqs \ {r}
        /\ behind' = IF r.kind = "members" THEN behind \union ({r.item} \X Kinds) ELSE behind
    BY <1>2 DEF NoStep
  <2>2. CASE r.kind = "members" /\ u = r.item
    <3>1. u \notin Members'
      BY <1>0, <2>1, <2>2 DEF Members
    <3> QED BY <3>1 DEF MembersFollow, Safe, Follows
  <2>3. CASE ~(r.kind = "members" /\ u = r.item)
    <3>1. Safe(u)' => Safe(u)
      BY <1>0, <2>1, <2>3 DEF Safe, Follows, Doomed, Members, Removal
    <3>2. Warned(u) => Warned(u)'
      BY <1>0, <1>2, <2>1 DEF Warned, Warns, OnWire
    <3>3. (Removing' => Removing) /\ Replies(u, "members")' = Replies(u, "members")
      BY <1>0, <2>1 DEF Removing, Replies, Outsider
    <3> QED BY <1>0, <3>1, <3>2, <3>3, UndisturbedFollow DEF Undisturbed, shown
  <2> QED BY <2>2, <2>3
<1> QED BY <1>1, <1>2 DEF NoStep

\* Events go out to those who follow.
LEMMA FansWarn ==
  ASSUME Typed, Placed, Typed', Placed', NEW r \in reqs, FanStep(r), NEW u \in Users, MembersFollow(u)
  PROVE  MembersFollow(u)'
<1>0. /\ r.pc = "fan" /\ r.op \in {"add", "del"} /\ r.kind \in Kinds /\ heard[u]["members"] <= heard'[u]["members"]
      /\ UNCHANGED <<table, online, shown, ver, heard>>
      /\ behind' = behind \union {<<w, r.kind>> : w \in Members \ online}
  BY RequestFields, HeardSame DEF FanStep
<1> DEFINE pc == IF r.op = "del" /\ r.kind = "members" THEN "write" ELSE "reply"
<1>1. PICK z \in Requests : Turned(r, z, pc)
  BY DEF FanStep
<1>2. PICK e \in Events : e.kind = r.kind
                          /\ wire' = [w \in Users |-> IF w \in Members \intersect online THEN Append(wire[w], e) ELSE wire[w]]
  BY DEF FanStep
<1>3. OnWire(u, "members")' = IF u \in Members \intersect online /\ "members" = e.kind
                                THEN OnWire(u, "members") \union {e} ELSE OnWire(u, "members")
  BY <1>2, FanWires
<1>4. CASE r.kind = "members"
  <2>1. ASSUME Safe(u)' PROVE Warned(u)'
    <3>1. u \in Members /\ u \in online
      BY <1>0, <1>4, <2>1 DEF Safe, Follows, Members
    <3> QED BY <1>2, <1>3, <1>4, <3>1 DEF Warned
  <2> QED BY <2>1 DEF MembersFollow
<1>5. CASE r.kind # "members"
  <2>1. reqs' = (reqs \ {r}) \union {z} /\ z.kind # "members"
    BY <1>1, <1>5 DEF Turned
  <2>2. ~Matters(r, u) /\ ~Matters(z, u)
    BY <1>5, <2>1 DEF Matters, Warns, Removal
  <2> QED BY <1>0, <1>3, <2>1, <2>2, MembersAside DEF shown
<1> QED BY <1>4, <1>5

\* The members are read: as they are, or those to be removed are among them.
LEMMA ReadsWarn ==
  ASSUME Typed, Placed, Typed', Placed', NEW r \in reqs, ReadStep(r), NEW u \in Users, MembersFollow(u)
  PROVE  MembersFollow(u)'
<1>0. /\ r.pc = "read" /\ r.op \in {"load", "fetch"} /\ heard[u]["members"] <= heard'[u]["members"]
      /\ UNCHANGED <<table, wire, shown, ver, heard>> /\ behind \subseteq behind'
  BY HeardSame DEF ReadStep
<1>1. CASE r.u # u \/ r.kind # "members"
  <2>1. \A q \in (reqs' \ reqs) \union (reqs \ reqs') : q.kind = r.kind /\ q.u = r.u /\ q.op = r.op
    BY DEF ReadStep, Turned
  <2>2. \A q \in (reqs' \ reqs) \union (reqs \ reqs') : ~Matters(q, u)
    BY <1>0, <1>1, <2>1 DEF Matters, Warns, Removal
  <2> QED BY <1>0, <2>2, MembersAside DEF shown, OnWire
<1>2. CASE r.u = u /\ r.kind = "members"
  <2>1. SUFFICES ASSUME Safe(u)' PROVE ~Removing' /\ Informed(u)'
    BY DEF MembersFollow
  <2>2. u \in Members /\ <<u, "members">> \notin behind'
    BY <1>0, <2>1 DEF Safe, Follows, Members
  <2>3. r.op = "load"
    BY <1>0, <1>2 DEF Placed, Asked
  <2>4. PICK z \in Requests : Turned(r, z, "reply") /\ z.ver = ver["members"] /\ z.ans = Members
    BY <1>2, <2>2, <2>3 DEF ReadStep, Members
  <2>5. reqs' = (reqs \ {r}) \union {z} /\ z.u = u /\ z.op = "load" /\ z.kind = "members" /\ z.pc = "reply"
    BY <1>2, <2>3, <2>4 DEF Turned
  <2>6. ~Removing'
    <3>1. ~BeforeRemoval(r)
      BY <1>2, <2>2 DEF ReadStep
    <3> QED BY <1>2, <2>5, <3>1 DEF BeforeRemoval, Removing, Removal
  <2>7. z \in Useful(u, "members")'
    <3>1. heard'[u]["members"] <= ver["members"]
      BY <1>0, KindsAre DEF Placed
    <3>2. heard'[u]["members"] \in Nat /\ ver["members"] \in Nat
      BY KindsAre DEF Typed
    <3> QED BY <2>4, <2>5, <3>1, <3>2 DEF Useful, Replies, Outsider
  <2> QED BY <1>0, <2>4, <2>6, <2>7 DEF Informed
<1> QED BY <1>1, <1>2

\* An answer becomes the list: it is as new as the table, or such a one follows.
LEMMA LoadsWarn ==
  ASSUME Typed, Placed, NoDuplicates, Current, Typed', Placed', NEW r \in reqs, LoadStep(r),
         NEW u \in Users, MembersFollow(u)
  PROVE  MembersFollow(u)'
<1>0. /\ r.pc = "reply" /\ r.op = "load" /\ Finished(r) /\ r.u \in Users /\ r.kind \in Kinds /\ r.ver \in Nat
      /\ r.ver <= ver[r.kind] /\ UNCHANGED <<table, wire, ver>> /\ heard' = Later(r.u, r.kind, r.ver)
      /\ behind \subseteq behind' /\ (r.ver < heard[r.u][r.kind] => <<r.u, r.kind>> \in behind')
      /\ loaded' = [loaded EXCEPT ![r.u] = IF Outsider(r) THEN @ \ {r.kind} ELSE @ \union {r.kind}]
  BY RequestFields DEF LoadStep, Replied, Asked
<1>1. heard[u]["members"] <= heard'[u]["members"] /\ "members" \in Kinds
  BY <1>0, LaterTyped, KindsAre
<1>2. \A q \in reqs' \ reqs : Matters(q, u) => Warns(q, u)
  BY <1>0 DEF Finished, Reload, Matters, Removal
<1>3. CASE r.u # u \/ r.kind # "members"
  <2>1. \A q \in reqs \ reqs' : ~Matters(q, u)
    BY <1>0, <1>3 DEF Finished, Matters, Warns, Removal
  <2>2. view'[u]["members"] = view[u]["members"]
    BY <1>1, <1>3, LoadShows DEF OneList
  <2>3. "members" \in loaded'[u] => "members" \in loaded[u]
    BY <1>0, <1>3 DEF Typed
  <2> QED BY <1>0, <1>1, <1>2, <2>1, <2>2, <2>3, MembersAside DEF OnWire
<1>4. CASE r.u = u /\ r.kind = "members"
  <2>1. Warned(u) => Warned(u)'
    BY <1>0 DEF Warned, Warns, Finished, OnWire
  <2>2. Safe(u)' => Safe(u) /\ <<u, "members">> \notin behind'
    BY <1>0 DEF Safe, Follows, Members, Doomed, Finished
  <2>3. Removing' => Removing
    BY <1>0 DEF Removing, Removal, Finished, Reload
  <2>4. \A q \in Replies(u, "members")' : q \in Replies(u, "members") /\ q # r /\ q.ver \in Nat /\ q.ver <= ver["members"]
    <3>1. \A q \in Replies(u, "members")' : q \in Replies(u, "members") /\ q # r
      BY <1>0 DEF Finished, Reload, Replies, Outsider
    <3>2. \A q \in Replies(u, "members") : q.ver \in Nat /\ q.ver <= ver["members"]
      BY RequestFields DEF Replies, Placed, Asked
    <3> QED BY <3>1, <3>2
  <2>5. \A q \in Replies(u, "members") : q # r => q \in Replies(u, "members")'
    BY <1>0 DEF Finished, Replies, Outsider
  <2>6. ASSUME Informed(u), <<u, "members">> \notin behind' PROVE Informed(u)'
    <3>0. /\ heard[u]["members"] \in Nat /\ heard'[u]["members"] \in Nat /\ heard[u]["members"] <= heard'[u]["members"]
          /\ heard'[u]["members"] <= ver["members"] /\ ver["members"] \in Nat /\ ver' = ver
          /\ (r.ver >= heard[u]["members"] => heard'[u]["members"] = r.ver)
      <4>1. heard'[u]["members"] <= ver'["members"]
        BY <1>1 DEF Placed
      <4>2. heard[u]["members"] \in Nat /\ heard'[u]["members"] \in Nat /\ ver["members"] \in Nat
        BY <1>1 DEF Typed
      <4>3. r.ver >= heard[u]["members"] => heard'[u]["members"] = r.ver
        BY <1>0, <1>1, <1>4, HeardLater
      <4> QED BY <1>0, <1>1, <4>1, <4>2, <4>3
    <3>1. r.ver >= heard[u]["members"] /\ r \in Useful(u, "members")
      BY <1>0, <1>4, <2>6, <3>0 DEF Useful, Replies, Outsider
    <3>2. PICK q \in Useful(u, "members") : q.ver = ver["members"]
      BY <2>6, <3>1 DEF Informed
    <3>3. CASE q # r
      <4>1. q \in Useful(u, "members")'
        BY <2>5, <3>0, <3>2, <3>3 DEF Useful
      <4> QED BY <1>0, <3>2, <4>1 DEF Informed
    <3>4. CASE q = r
      <4>1. r.ans = Members /\ heard'[u]["members"] = ver["members"]
        BY <1>0, <1>4, <3>0, <3>1, <3>2, <3>4 DEF Current
      <4>2. \A i : Shows(u, "members", i)' <=> i \in Members
        BY <1>4, <4>1, LoadShows DEF Shows
      <4>3. \A p \in Useful(u, "members")' : p.ver = ver["members"]
        <5>1. \A p \in Useful(u, "members")' : p \in Replies(u, "members")' /\ p.ver >= heard'[u]["members"]
          BY DEF Useful
        <5> QED BY <2>4, <3>0, <4>1, <5>1
      <4> QED BY <1>0, <4>2, <4>3 DEF Informed, Members
    <3> QED BY <3>3, <3>4
  <2> QED BY <2>1, <2>2, <2>3, <2>6 DEF MembersFollow
<1> QED BY <1>3, <1>4

\* Other answers leave the members alone.
LEMMA AnswersWarn ==
  ASSUME Typed, Placed, NoDuplicates, Typed', Placed', NEW r \in reqs, FetchStep(r) \/ WriterStep(r),
         NEW u \in Users, MembersFollow(u)
  PROVE  MembersFollow(u)'
<1>0. /\ r.pc = "reply" /\ Finished(r) /\ r.u \in Users /\ r.kind \in Kinds /\ r.ver \in Nat /\ r.ver <= ver[r.kind]
      /\ UNCHANGED <<table, wire, ver>> /\ heard' = Later(r.u, r.kind, r.ver) /\ behind \subseteq behind'
      /\ r.op = "load" \/ r.kind = "stickers" \/ r.op \in {"add", "del"}
      /\ r.op # "load"
  BY RequestFields DEF FetchStep, WriterStep, Finished, Replied, Placed, Asked
<1>1. heard[u]["members"] <= heard'[u]["members"] /\ "members" \in Kinds
  BY <1>0, LaterTyped, KindsAre
<1>2. \A q \in reqs' \ reqs : Matters(q, u) => Warns(q, u)
  BY <1>0 DEF Finished, Reload, Matters, Removal
<1>3. \A q \in reqs \ reqs' : ~Matters(q, u)
  BY <1>0 DEF Finished, Matters, Warns, Removal
<1>4. view'[u]["members"] = view[u]["members"]
  BY <1>1, WriterShows DEF FetchStep, OneList
<1>5. "members" \in loaded'[u] => "members" \in loaded[u]
  <2>1. UNCHANGED loaded \/ loaded' = [loaded EXCEPT ![r.u] = @ \union {"stickers"}]
    BY DEF FetchStep, WriterStep, shown
  <2>2. CASE loaded' = [loaded EXCEPT ![r.u] = @ \union {"stickers"}]
    BY <2>2 DEF Typed
  <2> QED BY <2>1, <2>2
<1> QED BY <1>0, <1>1, <1>2, <1>3, <1>4, <1>5, MembersAside DEF OnWire

\* An event of the members has them loaded again, or is one's own removal.
LEMMA HearsWarn ==
  ASSUME Typed, Placed, NoDuplicates, Removed, Typed', Placed', NEW w \in Users, HearStep(w),
         NEW u \in Users, MembersFollow(u)
  PROVE  MembersFollow(u)'
<1> DEFINE e == Head(wire[w])
<1>0. /\ wire[w] # <<>> /\ wire[w] \in Seq(Events) /\ e \in Events /\ e = wire[w][1] /\ 1 \in DOMAIN wire[w]
      /\ e.kind \in Kinds /\ e.ver \in Nat /\ e.ver <= ver[e.kind] /\ heard' = Later(w, e.kind, e.ver)
      /\ UNCHANGED <<table, ver>> /\ behind \subseteq behind'
      /\ wire'[w] = Tail(wire[w]) /\ \A v \in Users : v # w => wire'[v] = wire[v]
  BY HeadOf DEF HearStep, Wired, Typed
<1> HIDE DEF e
<1>1. heard[u]["members"] <= heard'[u]["members"] /\ "members" \in Kinds
  BY <1>0, LaterTyped, KindsAre
<1>2. CASE u # w \/ e.kind # "members"
  <2>1. OnWire(u, "members") \subseteq OnWire(u, "members")'
    BY <1>0, <1>2, HearWires
  <2>2. reqs \ reqs' = {} /\ \A q \in reqs' \ reqs : q.u = w /\ q.op = "load" /\ q.pc = "read" /\ e.kind = "members"
    BY DEF HearStep, Reload, e
  <2>3. \A q \in reqs' \ reqs : ~Matters(q, u)
    BY <1>2, <2>2 DEF Matters, Warns, Removal
  <2>4. view'[u]["members"] = view[u]["members"]
    BY <1>1, <1>2, HearShows DEF OneList, e
  <2>5. "members" \in loaded'[u] => "members" \in loaded[u]
    <3>1. UNCHANGED loaded \/ loaded' = [loaded EXCEPT ![w] = @ \ {"channels"}]
      BY DEF HearStep, shown
    <3>2. CASE loaded' = [loaded EXCEPT ![w] = @ \ {"channels"}]
      BY <3>2 DEF Typed
    <3> QED BY <3>1, <3>2
  <2> QED BY <1>0, <1>1, <2>1, <2>2, <2>3, <2>4, <2>5, MembersAside
<1>3. CASE u = w /\ e.kind = "members"
  <2>1. CASE e.op = "del" /\ e.item = u /\ UNCHANGED reqs
    <3>1. e \in OnWire(u, "members")
      BY <1>0, <1>3 DEF OnWire
    <3>2. Doomed(u) \/ <<u, "members">> \in behind
      BY <1>1, <2>1, <3>1 DEF Removed
    <3>3. ~Safe(u)'
      BY <1>0, <2>1, <3>2 DEF Safe, Follows, Doomed
    <3> QED BY <3>3 DEF MembersFollow
  <2>2. CASE \E z \in Requests : reqs' = reqs \union {z} /\ Reload(z) /\ z.u = u /\ z.kind = "members"
    BY <2>2 DEF MembersFollow, Warned, Warns, Reload
  <2> QED BY <1>3, <2>1, <2>2 DEF HearStep, e
<1> QED BY <1>2, <1>3

LEMMA DropsWarn ==
  ASSUME Typed, Placed, Typed', Placed', NEW w \in Users, DropStep(w), NEW u \in Users, MembersFollow(u)
  PROVE  MembersFollow(u)'
<1>0. UNCHANGED <<table, ver, shown, heard, reqs>> /\ wire' = [wire EXCEPT ![w] = <<>>] /\ behind \subseteq behind'
  BY DEF DropStep
<1>1. CASE <<u, "members">> \in behind'
  BY <1>1 DEF MembersFollow, Safe, Follows
<1>2. CASE <<u, "members">> \notin behind'
  <2>1. OnWire(u, "members") \subseteq OnWire(u, "members")'
    <3>1. u = w => OnWire(u, "members") = {}
      BY <1>2 DEF DropStep, OnWire
    <3>2. u # w => wire'[u] = wire[u]
      BY <1>0 DEF Typed
    <3> QED BY <3>1, <3>2 DEF OnWire
  <2> QED BY <1>0, <2>1, HeardSame, MembersAside DEF shown
<1> QED BY <1>1, <1>2

LEMMA AsksWarn ==
  ASSUME Typed, Placed, Typed', Placed', AskStep \/ IdleStep, NEW u \in Users, MembersFollow(u)
  PROVE  MembersFollow(u)'
<1>1. CASE IdleStep
  BY <1>1, HeardSame, MembersAside DEF IdleStep, shown, OnWire
<1>2. CASE AskStep
  <2>1. PICK z \in Requests : reqs' = reqs \union {z} /\ (NewItem(z) \/ OldItem(z))
                              /\ UNCHANGED <<table, wire, online, shown, ver, heard, behind>>
    BY <1>2 DEF AskStep
  <2>2. Matters(z, u) => Warns(z, u)
    BY <2>1 DEF Matters, Warns, Removal, NewItem, OldItem
  <2> QED BY <2>1, <2>2, HeardSame, MembersAside DEF shown, OnWire
<1> QED BY <1>1, <1>2

LEMMA StepsRemoved ==
  ASSUME Typed, Placed, NoDuplicates, Removed, Step
  PROVE  Removed'
<1> SUFFICES ASSUME NEW u \in Users, \E e \in OnWire(u, "members")' : e.op = "del" /\ e.item = u,
                    ~ \A k \in Kinds : <<u, k>> \in behind'
             PROVE  Doomed(u)'
  BY DEF Removed
<1> DEFINE Own == \E e \in OnWire(u, "members") : e.op = "del" /\ e.item = u
<1>0. Own => Doomed(u)
  BY BehindGrows DEF Removed
<1>1. ASSUME OnWire(u, "members")' \subseteq OnWire(u, "members"), \A q \in reqs : Removal(q) /\ q.pc = "write" => q \in reqs'
      PROVE  Doomed(u)'
  BY <1>0, <1>1 DEF Doomed
<1>2. CASE AskStep \/ IdleStep
  BY <1>1, <1>2 DEF AskStep, IdleStep, OnWire
<1>3. ASSUME NEW r \in reqs, InsertStep(r) \/ ReadStep(r) PROVE Doomed(u)'
  <2>1. UNCHANGED wire /\ ~(Removal(r) /\ r.pc = "write") /\ \A q \in reqs : q # r => q \in reqs'
    BY <1>3 DEF InsertStep, ReadStep, Turned, Removal
  <2> QED BY <1>1, <2>1 DEF OnWire
<1>4. ASSUME NEW r \in reqs, DeleteStep(r) \/ NoStep(r) PROVE Doomed(u)'
  <2>1. UNCHANGED wire /\ \A q \in reqs : q # r => q \in reqs'
    BY <1>4 DEF DeleteStep, NoStep, Turned
  <2>2. Removal(r) => r.item # u
    BY <1>4 DEF DeleteStep, NoStep, Removal
  <2> QED BY <1>0, <2>1, <2>2 DEF Doomed, OnWire
<1>5. ASSUME NEW r \in reqs, FanStep(r) PROVE Doomed(u)'
  <2> DEFINE pc == IF r.op = "del" /\ r.kind = "members" THEN "write" ELSE "reply"
  <2>1. PICK z \in Requests : Turned(r, z, pc)
    BY <1>5 DEF FanStep
  <2>2. /\ reqs' = (reqs \ {r}) \union {z} /\ z.op = r.op /\ z.kind = r.kind /\ z.item = r.item /\ z.pc = pc
        /\ r.pc = "fan"
    BY <1>5, <2>1 DEF Turned, FanStep
  <2>3. PICK e \in Events : /\ e.kind = r.kind /\ e.op = r.op /\ e.item = r.item
                            /\ wire' = [w \in Users |-> IF w \in Members \intersect online THEN Append(wire[w], e) ELSE wire[w]]
    BY <1>5 DEF FanStep
  <2>4. \A d \in OnWire(u, "members")' : d \in OnWire(u, "members") \/ (d = e /\ e.kind = "members")
    BY <2>3, FanWires
  <2>5. CASE Own
    BY <1>0, <2>2, <2>5 DEF Doomed
  <2>6. CASE ~Own
    <3>1. e.kind = "members" /\ e.op = "del" /\ e.item = u
      BY <2>4, <2>6
    <3> QED BY <2>2, <2>3, <3>1 DEF Doomed, Removal
  <2> QED BY <2>5, <2>6
<1>6. ASSUME NEW r \in reqs, LoadStep(r) \/ FetchStep(r) \/ WriterStep(r) PROVE Doomed(u)'
  <2>1. UNCHANGED wire /\ r.pc = "reply" /\ \A q \in reqs : q # r => q \in reqs'
    BY <1>6 DEF LoadStep, FetchStep, WriterStep, Replied, Finished
  <2> QED BY <1>1, <2>1 DEF OnWire
<1>7. ASSUME NEW w \in Users, HearStep(w) PROVE Doomed(u)'
  <2>1. OnWire(u, "members")' \subseteq OnWire(u, "members")
    <3>1. /\ wire[w] # <<>> /\ wire'[w] = Tail(wire[w]) /\ \A v \in Users : v # w => wire'[v] = wire[v]
      BY <1>7 DEF HearStep, Typed
    <3>2. PICK e : e = wire[w][1]
      OBVIOUS
    <3> QED BY <3>1, <3>2, HearWires
  <2> QED BY <1>1, <1>7, <2>1 DEF HearStep, shown
<1>8. ASSUME NEW w \in Users, DropStep(w) PROVE Doomed(u)'
  <2>1. OnWire(u, "members")' \subseteq OnWire(u, "members")
    BY <1>8 DEF DropStep, OnWire, Typed
  <2> QED BY <1>1, <1>8, <2>1 DEF DropStep
<1> QED BY <1>2, <1>3, <1>4, <1>5, <1>6, <1>7, <1>8 DEF Step

LEMMA StepsCurrent ==
  ASSUME Typed, Placed, Current, Step
  PROVE  Current'
<1> DEFINE Loads(q) == q.op = "load" /\ q.kind = "members" /\ q.pc = "reply"
<1>0. ver["members"] \in Nat /\ \A q \in reqs : q.ver \in Nat /\ q.ver <= ver[q.kind]
  BY RequestFields, KindsAre DEF Typed, Placed, Asked
<1>1. ASSUME table'["members"] = table["members"], ver'["members"] = ver["members"],
             \A q \in reqs' : Loads(q) => q \in reqs
      PROVE  Current'
  BY <1>1 DEF Current, Members
<1>2. ASSUME NEW r \in reqs, InsertStep(r) \/ DeleteStep(r) PROVE Current'
  <2>1. r.kind \in Kinds /\ ver' = [ver EXCEPT ![r.kind] = @ + 1] /\ \A q \in reqs' : Loads(q) => q \in reqs
    BY <1>2, RequestFields DEF InsertStep, DeleteStep, Turned
  <2>2. CASE r.kind = "members"
    <3>1. ver'["members"] = ver["members"] + 1
      BY <2>1, <2>2 DEF Typed
    <3>2. \A q \in reqs' : Loads(q) => q.ver # ver'["members"]
      BY <1>0, <2>1, <3>1
    <3> QED BY <3>2 DEF Current
  <2>3. CASE r.kind # "members"
    <3>1. table'["members"] = table["members"] /\ ver'["members"] = ver["members"]
      BY <1>2, <2>1, <2>3, KindsAre DEF InsertStep, DeleteStep, Typed
    <3> QED BY <1>1, <2>1, <3>1
  <2> QED BY <2>2, <2>3
<1>3. ASSUME NEW r \in reqs, ReadStep(r) PROVE Current'
  <2>1. UNCHANGED <<table, ver>> /\ \A q \in reqs' : Loads(q) => q \in reqs \/ q.ans = Members
    <3>1. CASE reqs' = reqs \ {r}
      BY <1>3, <3>1 DEF ReadStep
    <3>2. ASSUME NEW z \in Requests, Turned(r, z, "reply"),
                 \/ r.u \notin Members /\ r.kind = "channels" /\ z.ans = {}
                 \/ r.u \in Members /\ r.op = "load" /\ z.ans = table[r.kind]
                 \/ r.u \in Members /\ r.op = "fetch" /\ z.ans = table[r.kind] \intersect {r.item}
          PROVE  UNCHANGED <<table, ver>> /\ \A q \in reqs' : Loads(q) => q \in reqs \/ q.ans = Members
      <4>1. reqs' = (reqs \ {r}) \union {z} /\ z.op = r.op /\ z.kind = r.kind
        BY <3>2 DEF Turned
      <4>2. Loads(z) => z.ans = Members
        BY <3>2, <4>1 DEF Members
      <4> QED BY <1>3, <4>1, <4>2 DEF ReadStep
    <3> QED BY <1>3, <3>1, <3>2 DEF ReadStep
  <2> QED BY <2>1 DEF Current, Members
<1>4. ASSUME NEW r \in reqs, NoStep(r) \/ FanStep(r) PROVE Current'
  <2>1. UNCHANGED <<table, ver>> /\ \A q \in reqs' : Loads(q) => q \in reqs
    BY <1>4 DEF NoStep, FanStep, Turned
  <2> QED BY <1>1, <2>1
<1>5. ASSUME NEW r \in reqs, LoadStep(r) \/ FetchStep(r) \/ WriterStep(r) PROVE Current'
  <2>1. UNCHANGED <<table, ver>> /\ \A q \in reqs' : Loads(q) => q \in reqs
    BY <1>5 DEF LoadStep, FetchStep, WriterStep, Replied, Finished, Reload
  <2> QED BY <1>1, <2>1
<1>6. CASE AskStep \/ IdleStep \/ \E w \in Users : HearStep(w) \/ DropStep(w)
  <2>1. UNCHANGED <<table, ver>> /\ \A q \in reqs' : Loads(q) => q \in reqs
    BY <1>6 DEF AskStep, NewItem, OldItem, IdleStep, HearStep, Reload, DropStep, shown
  <2> QED BY <1>1, <2>1
<1> QED BY <1>2, <1>3, <1>4, <1>5, <1>6 DEF Step

LEMMA StepsWarning ==
  ASSUME Typed, Placed, NoDuplicates, Warning, Step, Typed', Placed'
  PROVE  Warning'
<1>1. Removed' /\ Current'
  BY StepsRemoved, StepsCurrent DEF Warning
<1>2. ASSUME NEW u \in Users PROVE MembersFollow(u)'
  <2>0. MembersFollow(u) /\ Removed /\ Current
    BY DEF Warning
  <2>1. CASE AskStep \/ IdleStep
    BY <2>0, <2>1, AsksWarn
  <2>2. ASSUME NEW r \in reqs, InsertStep(r) PROVE MembersFollow(u)'
    BY <2>0, <2>2, InsertsWarn
  <2>3. ASSUME NEW r \in reqs, DeleteStep(r) PROVE MembersFollow(u)'
    BY <2>0, <2>3, DeletesWarn
  <2>4. ASSUME NEW r \in reqs, NoStep(r) PROVE MembersFollow(u)'
    BY <2>0, <2>4, NothingsWarn
  <2>5. ASSUME NEW r \in reqs, FanStep(r) PROVE MembersFollow(u)'
    BY <2>0, <2>5, FansWarn
  <2>6. ASSUME NEW r \in reqs, ReadStep(r) PROVE MembersFollow(u)'
    BY <2>0, <2>6, ReadsWarn
  <2>7. ASSUME NEW r \in reqs, LoadStep(r) PROVE MembersFollow(u)'
    BY <2>0, <2>7, LoadsWarn
  <2>8. ASSUME NEW r \in reqs, FetchStep(r) \/ WriterStep(r) PROVE MembersFollow(u)'
    BY <2>0, <2>8, AnswersWarn
  <2>9. ASSUME NEW w \in Users, HearStep(w) PROVE MembersFollow(u)'
    BY <2>0, <2>9, HearsWarn
  <2>10. ASSUME NEW w \in Users, DropStep(w) PROVE MembersFollow(u)'
    BY <2>0, <2>10, DropsWarn
  <2> QED BY <2>1, <2>2, <2>3, <2>4, <2>5, <2>6, <2>7, <2>8, <2>9, <2>10 DEF Step
<1> QED BY <1>1, <1>2 DEF Warning

-----------------------------------------------------------------------------
(* When nothing is under way.                                                *)

Invariant == /\ Typed /\ Placed /\ NoDuplicates /\ Numbered /\ Honest
             /\ OwnersStickers /\ Newcomers /\ Following /\ Warning

LEMMA StepsInvariant ==
  ASSUME Invariant, Step
  PROVE  Invariant'
<1>1. Typed' /\ Placed' /\ NoDuplicates'
  BY StepsTyped DEF Invariant
<1>2. Numbered' /\ Honest'
  BY <1>1, StepsNumbered, StepsHonest DEF Invariant
<1>3. OwnersStickers' /\ Newcomers' /\ Following' /\ Warning'
  BY <1>1, StepsOwners, StepsNewcomers, StepsFollowing, StepsWarning DEF Invariant
<1> QED BY <1>1, <1>2, <1>3 DEF Invariant

\* The first members show what there is; nothing is on its way.
LEMMA InitInvariant ==
  ASSUME Init
  PROVE  Invariant
<1>0. Typed /\ Placed /\ NoDuplicates
  BY InitTyped
<1>1. PICK first : First(first) /\ Started(first)
  BY InitStarts
<1>2. /\ reqs = {} /\ wire = [u \in Users |-> <<>>] /\ urls = [u \in Users |-> {}] /\ made = [k \in Kinds |-> 0]
      /\ loaded = [u \in Users |-> IF u \in first THEN {"channels", "members"} ELSE {}]
  BY <1>1 DEF Started
<1>3. \A u \in Users, k \in Kinds : OnWire(u, k) = {} /\ News(u, k) = {} /\ Replies(u, k) = {} /\ Coming(u, k) = {}
  BY <1>2 DEF OnWire, News, Coming, Due, Told, Replies
<1>4. Members = first /\ table["stickers"] = {} /\ table["messages"] = {} /\ table["channels"] = {0}
  BY <1>1 DEF Members, Lists, Started
<1>5. \A u \in Members, k \in Kinds : \A i : Shows(u, k, i) <=> i \in table[k]
  <2>1. ASSUME NEW u \in first, NEW k \in Kinds PROVE ToSet(view[u][k]) = table[k]
    <3> DEFINE some == Lists(Sorted(first), <<0>>, <<>>)
    <3>1. view[u] = some
      BY <1>1, <2>1 DEF Started, First
    <3>2. ToSet(some[k]) = Lists(first, {0}, {})[k]
      BY <1>1, StartLists
    <3> HIDE DEF some
    <3> QED BY <1>1, <3>1, <3>2 DEF Started
  <2> QED BY <1>4, <2>1 DEF Shows
<1>6. \A u \in Users : \A i : ~Shows(u, "stickers", i)
  <2>1. "stickers" \in Kinds
    BY KindsAre
  <2>2. \A u \in Members : \A i : ~Shows(u, "stickers", i)
    BY <1>5, <1>4, <2>1
  <2>3. ASSUME NEW u \in Users, u \notin Members PROVE \A i : ~Shows(u, "stickers", i)
    <3>1. view[u]["stickers"] = <<>>
      BY <1>1, <1>4, <2>3 DEF Lists, Started
    <3> QED BY <3>1 DEF Shows, ToSet
  <2> QED BY <2>2, <2>3
<1>7. Numbered
  <2>1. \A k \in NewsKinds : \A i : Seen(k, i) => i = 0 /\ made[k] = 0
    BY <1>2, <1>3, <1>4, NewsKindsAre DEF Seen, NewsKinds
  <2> QED BY <1>2, <2>1 DEF Numbered
<1>8. Honest
  BY <1>3, NewsKindsAre DEF Honest, Accurate, Ordered, Known
<1>9. OwnersStickers
  BY <1>6, <1>4 DEF OwnersStickers
<1>10. Newcomers
  BY <1>2, <1>3, <1>4, NewsKindsAre DEF Newcomers
<1>11. Following
  <2>1. ASSUME NEW u \in Users, NEW k \in NewsKinds, Follows(u, k) PROVE Followed(u, k)
    <3>1. u \in Members /\ k \in Kinds /\ urls[u] = {} /\ News(u, k) = {} /\ Useful(u, k) = {}
      BY <1>2, <1>3, <1>4, <2>1, NewsKindsAre DEF Follows, Useful
    <3> QED BY <1>5, <3>1 DEF Followed, AnswersFollow, ViewFollows, StaleHeard, UrlsFollow
  <2> QED BY <2>1 DEF Following
<1>12. Warning
  <2>1. "members" \in Kinds
    BY KindsAre
  <2>2. ASSUME NEW u \in Users PROVE MembersFollow(u)
    <3>1. ~Removing /\ Useful(u, "members") = {}
      BY <1>2, <1>3, <2>1 DEF Removing, Useful
    <3>2. Follows(u, "members") => u \in Members
      BY DEF Follows
    <3> QED BY <1>5, <2>1, <3>1, <3>2 DEF MembersFollow, Safe, Informed, Members
  <2>3. Removed /\ Current
    BY <1>2, <1>3, <2>1 DEF Removed, Current
  <2> QED BY <2>2, <2>3 DEF Warning
<1> QED BY <1>0, <1>7, <1>8, <1>9, <1>10, <1>11, <1>12 DEF Invariant

LEMMA InvariantAgrees ==
  ASSUME Invariant
  PROVE  ViewsAgree
<1> SUFFICES ASSUME Quiet, NEW u \in Users, NEW k \in Kinds, UpToDate(u, k)
             PROVE  ToSet(view[u][k]) = table[k] /\ (k = "stickers" => urls[u] \subseteq table[k])
  BY DEF ViewsAgree
<1>0. reqs = {} /\ wire[u] = <<>> /\ Follows(u, k) /\ k \in loaded[u]
  BY DEF Quiet, UpToDate, Follows
<1>1. OnWire(u, k) = {} /\ News(u, k) = {} /\ Coming(u, k) = {} /\ Replies(u, k) = {}
  BY <1>0 DEF OnWire, News, Coming, Due, Told, Replies
<1>2. CASE k \in NewsKinds
  <2>1. Followed(u, k)
    BY <1>0, <1>2 DEF Invariant, Following
  <2>2. \A i : Shows(u, k, i) <=> i \in table[k]
    BY <1>0, <1>1, <2>1 DEF Followed, ViewFollows, Comes, News
  <2>3. k = "stickers" => urls[u] \subseteq table[k]
    BY <1>1, <2>1 DEF Followed, UrlsFollow, Comes
  <2> QED BY <2>2, <2>3 DEF Shows
<1>3. CASE k = "members"
  <2>1. Safe(u) /\ ~Warned(u)
    BY <1>0, <1>1, <1>3 DEF Safe, Doomed, Warned
  <2>2. Informed(u)
    BY <2>1 DEF Invariant, Warning, MembersFollow
  <2>3. \A i : Shows(u, "members", i) <=> i \in Members
    BY <1>0, <1>1, <1>3, <2>2 DEF Informed, Useful
  <2> QED BY <1>3, <2>3 DEF Shows, Members
<1> QED BY <1>2, <1>3, NewsKindsAre

\* When nothing is under way, a member who lists the space and did not miss news
\* of a kind shows exactly what the server has of it, in however many clients
\* and after however many changes, and caches no removed sticker.
THEOREM ViewsSettle == Spec => []ViewsAgree
<1>1. Init => Invariant
  BY InitInvariant
<1>2. Invariant /\ [Next]_vars => Invariant'
  <2>1. ASSUME Invariant, [Next]_vars PROVE Invariant'
    <3>1. Step
      BY <2>1, StepsAre DEF Invariant
    <3> QED BY <2>1, <3>1, StepsInvariant
  <2> QED BY <2>1
<1>3. Invariant => ViewsAgree
  BY InvariantAgrees
<1> QED BY <1>1, <1>2, <1>3, PTL DEF Spec

=============================================================================

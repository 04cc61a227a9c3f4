---------------------------- MODULE RelayProofs ----------------------------
(***************************************************************************)
(* The algorithms of a relayed broadcast: planTree (RelayPlanner) and the    *)
(* frames that cross one link of its tree (RelayStream).                     *)
(*                                                                           *)
(* What planTree guarantees for any number of viewers and any reports: the  *)
(* result is a tree within maxDepth that reaches everybody, nodes that       *)
(* cannot relay feed nobody, slots are exceeded only for degraded viewers,   *)
(* and a viewer is degraded or given a banned parent only for want of an     *)
(* alternative.  PlanInv adds to these what makes them inductive: the turns  *)
(* order the nodes, and used counts the children.  Then that the order of    *)
(* attaching finds room whenever there is room (RoomInv), and that planning  *)
(* again from the same reports moves nobody (StableInv).                     *)
(*                                                                           *)
(* What the two ends of a link guarantee for streams of any length and       *)
(* frames on any pattern of layers (StreamInv).                              *)
(***************************************************************************)
EXTENDS RelayPlanner, RelayStream, FiniteSetTheorems, SequenceTheorems, TLAPS

-----------------------------------------------------------------------------
(* The planner.                                                              *)

Kids(p) == {v \in Viewers : parent[v] = p}

\* The bookkeeping of the loop.
Counted ==
  /\ at[Root] = 0 /\ depth[Root] = 0
  /\ \A n \in Nodes : at[n] <= turn
  /\ \A v \in waiting : parent[v] = None
  /\ degraded \subseteq Placed
  /\ \A p \in Nodes : used[p] = Cardinality(Kids(p))

PlanInv ==
  /\ PlannerTypeOK /\ Counted /\ TreeOK /\ WithinSlots /\ DegradedWhenFull /\ BannedLastResort

LEMMA NodesFinite == IsFiniteSet(Viewers) /\ 0 \notin Viewers /\ None \notin Nodes
                     /\ Viewers \subseteq Nodes /\ Root \in Nodes
  BY PlannerAssumption DEF Nodes, Root, None

\* A set of children is finite, and so are its parts.
LEMMA KidsFinite ==
  ASSUME NEW S \in SUBSET Viewers
  PROVE  IsFiniteSet(S) /\ Cardinality(S) \in Nat
  BY NodesFinite, FS_Subset, FS_CardinalityType

LEMMA DivType ==
  ASSUME NEW x \in Int, NEW y \in Int, y > 0
  PROVE  x \div y \in Int
  OBVIOUS

\* A node has a natural number of slots, and the broadcaster at least one.
LEMMA SlotsType ==
  ASSUME PlannerTypeOK, NEW n \in Nodes
  PROVE  Slots(n) \in Nat /\ Slots(Root) >= 1
<1>1. ASSUME NEW m \in Nodes PROVE SlotsFor(input.cap[m]) \in Nat
  <2>1. input.cap[m] \in Nat
    BY DEF PlannerTypeOK, Input
  <2>3. (4 * input.cap[m]) \div (5 * Bitrate) \in Int
    <3>1. 4 * input.cap[m] \in Int /\ 5 * Bitrate \in Int /\ 5 * Bitrate > 0
      BY <2>1, PlannerAssumption
    <3> QED
      BY <3>1, DivType
  <2> QED
    BY <2>3 DEF SlotsFor, Larger
<1>2. Slots(Root) \in Nat /\ Slots(Root) >= 1
  <2>1. Slots(Root) = IF input.busy THEN 1 ELSE Larger(1, SlotsFor(input.cap[Root]))
    <3>1. Root \notin input.noRelay
      BY NodesFinite DEF PlannerTypeOK, Input, Root
    <3> QED
      BY <3>1 DEF Slots
  <2>2. SlotsFor(input.cap[Root]) \in Nat
    BY <1>1, NodesFinite
  <2> QED
    BY <2>1, <2>2 DEF Larger
<1>3. ASSUME n # Root PROVE Slots(n) \in Nat
  <2>1. Slots(n) = IF n \in input.noRelay THEN 0 ELSE SlotsFor(input.cap[n])
    BY <1>3 DEF Slots
  <2> QED
    BY <1>1, <2>1
<1> QED
  BY <1>2, <1>3

LEMMA RttType ==
  ASSUME PlannerTypeOK, NEW a \in Nodes, NEW b \in Nodes
  PROVE  Rtt(a, b) \in Nat
<1>1. ASSUME NEW x \in Nodes, NEW y \in Nodes PROVE Report(x, y) \in Nat \union {Unknown}
  BY DEF Report, PlannerTypeOK, Input
<1> QED
  BY <1>1, PlannerAssumption DEF Rtt, Unknown

-----------------------------------------------------------------------------
LEMMA EmptyPlan ==
  ASSUME NoPlan, input \in Input, last \in [Viewers -> Nodes \union {None}]
  PROVE  PlanInv
<1>1. PlannerTypeOK
  BY NodesFinite DEF NoPlan, PlannerTypeOK
<1>2. \A p \in Nodes : Kids(p) = {}
  BY NodesFinite DEF NoPlan, Kids
<1>3. Counted
  BY <1>2, NodesFinite, FS_EmptySet DEF NoPlan, Counted
<1> QED
  BY <1>1, <1>2, <1>3, NodesFinite
  DEF NoPlan, PlanInv, TreeOK, WithinSlots, DegradedWhenFull, BannedLastResort, Kids

LEMMA InitPlan == PlannerInit => PlanInv
  BY EmptyPlan, PlannerAssumption DEF PlannerInit, NoPlan

LEMMA ReplanStep ==
  ASSUME PlanInv, Replan
  PROVE  PlanInv'
<1>1. input' \in Input /\ last' \in [Viewers -> Nodes \union {None}]
  BY DEF PlanInv, PlannerTypeOK, Replan, Input
<1>2. NoPlan'
  BY DEF Replan, NoPlan
<1>3. PlannerTypeOK'
  BY <1>1, <1>2, NodesFinite DEF NoPlan, PlannerTypeOK
<1>4. \A p \in Nodes : Kids(p)' = {}
  BY <1>2, NodesFinite DEF NoPlan, Kids
<1>5. Counted'
  BY <1>2, <1>4, NodesFinite, FS_EmptySet DEF NoPlan, Counted
<1> QED
  BY <1>2, <1>3, <1>4, <1>5, NodesFinite
  DEF NoPlan, PlanInv, TreeOK, WithinSlots, DegradedWhenFull, BannedLastResort, Kids

-----------------------------------------------------------------------------
(* One turn of the loop.                                                     *)

\* The broadcaster can always be taken, so every turn finds a parent.
LEMMA AlwaysAParent ==
  ASSUME PlanInv, NEW v \in waiting
  PROVE  Spare(v) \union Full(v) # {}
<1>0. PlannerTypeOK /\ v \in Viewers /\ depth[Root] = 0
  BY DEF PlanInv, PlannerTypeOK, Counted
<1>1. Root \in Placed /\ Usable(Root)
  BY <1>0, SlotsType, NodesFinite, PlannerAssumption DEF Placed, Usable
<1>2. PICK p \in Placed : Usable(p) /\ p \in Allowed(v)
  BY <1>1 DEF Allowed, Usable
<1>3. p \in Nodes /\ used[p] \in Nat /\ Slots(p) \in Nat
  BY <1>0, SlotsType, NodesFinite DEF Placed, PlannerTypeOK
<1> QED
  BY <1>2, <1>3 DEF Spare, Full, Usable

\* What a turn does for a viewer that is given a parent.
TurnFor(v, p) ==
  /\ v \in waiting /\ p \in Allowed(v) /\ Slots(p) > 0
  /\ waiting' = waiting \ {v} /\ turn' = turn + 1 /\ UNCHANGED <<input, last>>
  /\ Feed(p, v)
  /\ \/ used[p] < Slots(p) /\ degraded' = degraded
     \/ Spare(v) = {} /\ degraded' = degraded \union {v}

LEMMA AttachIsTurn ==
  ASSUME PlanInv, NEW v \in waiting, Attach(v)
  PROVE  \E p \in Placed : TurnFor(v, p)
<1>1. Spare(v) \union Full(v) # {}
  BY AlwaysAParent
<1>2. PlannerTypeOK
  BY DEF PlanInv
<1>3. CASE Spare(v) # {}
  <2>1. PICK p \in Best(v) : Feed(p, v) /\ degraded' = degraded
    BY <1>1, <1>3 DEF Attach, Choice
  <2>2. p \in Placed /\ p \in Allowed(v) /\ used[p] < Slots(p)
    BY <2>1 DEF Best, Spare, Allowed
  <2>3. p \in Nodes
    BY <2>2, NodesFinite DEF Placed
  <2>4. used[p] \in Nat /\ Slots(p) \in Nat
    BY <1>2, <2>3, SlotsType DEF PlannerTypeOK
  <2> QED
    BY <2>1, <2>2, <2>4 DEF Attach, TurnFor
<1>4. CASE Spare(v) = {}
  <2>1. PICK p \in Fallback(v) : Feed(p, v) /\ degraded' = degraded \union {v}
    BY <1>1, <1>4 DEF Attach, Choice
  <2>2. p \in Placed /\ p \in Allowed(v) /\ Slots(p) > 0
    BY <2>1 DEF Fallback, Full, Allowed
  <2> QED
    BY <1>4, <2>1, <2>2 DEF Attach, TurnFor
<1> QED
  BY <1>3, <1>4

LEMMA TurnStep ==
  ASSUME PlanInv, NEW v \in waiting, NEW p \in Placed, TurnFor(v, p)
  PROVE  PlanInv'
<1>0. /\ PlannerTypeOK /\ v \in Viewers /\ v \in Nodes /\ v # Root /\ p \in Nodes
      /\ parent[v] = None /\ p # v /\ p # None
  BY NodesFinite DEF PlanInv, PlannerTypeOK, Counted, Placed, Root
<1>s. \A n : Slots(n)' = Slots(n)
  <2>1. input' = input
    BY DEF TurnFor
  <2> QED
    BY <2>1 DEF Slots
<1>f. /\ parent' = [parent EXCEPT ![v] = p]
      /\ depth' = [depth EXCEPT ![v] = depth[p] + 1]
      /\ used' = [used EXCEPT ![p] = @ + 1]
      /\ at' = [at EXCEPT ![v] = turn + 1]
      /\ delay' = [delay EXCEPT ![v] = PathDelay(p, v)]
  BY DEF TurnFor, Feed
<1>t. PlannerTypeOK'
  <2>1. PathDelay(p, v) \in Nat
    BY <1>0, RttType, PlannerAssumption DEF PathDelay, PlannerTypeOK
  <2> QED
    BY <1>0, <1>f, <2>1 DEF PlannerTypeOK, TurnFor
<1>p. Placed' = Placed \union {v} /\ v \notin Placed
  BY <1>0, <1>f DEF Placed, PlannerTypeOK
<1>k. \A q \in Nodes : Kids(q)' = IF q = p THEN Kids(q) \union {v} ELSE Kids(q)
  <2>1. \A w \in Viewers : parent'[w] = IF w = v THEN p ELSE parent[w]
    BY <1>0, <1>f DEF PlannerTypeOK
  <2>2. Kids(p)' = Kids(p) \union {v}
    BY <1>0, <2>1 DEF Kids
  <2>3. ASSUME NEW q \in Nodes, q # p PROVE Kids(q)' = Kids(q)
    BY <1>0, <2>1, <2>3, NodesFinite DEF Kids
  <2> QED
    BY <2>2, <2>3
<1>u. \A q \in Nodes : IF q = p THEN Cardinality(Kids(q)') = Cardinality(Kids(q)) + 1
                                ELSE Kids(q)' = Kids(q)
  <2>1. v \notin Kids(p) /\ IsFiniteSet(Kids(p))
    BY <1>0, KidsFinite DEF Kids
  <2>2. Cardinality(Kids(p) \union {v}) = Cardinality(Kids(p)) + 1
    BY <2>1, FS_AddElement
  <2> QED
    BY <1>k, <2>2
<1>c. Counted'
  <2>1. at'[Root] = 0 /\ depth'[Root] = 0
    BY <1>0, <1>f, NodesFinite DEF PlanInv, Counted, PlannerTypeOK
  <2>2. \A n \in Nodes : at'[n] <= turn'
    BY <1>0, <1>f DEF PlanInv, Counted, PlannerTypeOK, TurnFor
  <2>3. \A w \in waiting' : parent'[w] = None
    BY <1>0, <1>f DEF PlanInv, Counted, PlannerTypeOK, TurnFor
  <2>4. degraded' \subseteq Placed'
    BY <1>p DEF PlanInv, Counted, TurnFor
  <2>5. \A q \in Nodes : used'[q] = Cardinality(Kids(q)')
    BY <1>0, <1>f, <1>u DEF PlanInv, Counted, PlannerTypeOK
  <2> QED
    BY <2>1, <2>2, <2>3, <2>4, <2>5 DEF Counted, Kids
<1>e. \A q \in Placed : q \in Nodes /\ q # v /\ depth'[q] = depth[q] /\ at'[q] = at[q]
                        /\ used[q] <= used'[q]
  BY <1>0, <1>f, <1>p, NodesFinite DEF Placed, PlannerTypeOK
<1>d. at[p] < at'[v] /\ depth'[v] = depth[p] + 1 /\ depth[p] < MaxDepth
      /\ \A q \in Placed : at[q] < at'[v]
  BY <1>0, <1>e, <1>f DEF PlanInv, Counted, PlannerTypeOK, TurnFor, Allowed
<1>1. TreeOK'
  <2>1. parent'[v] # None /\ parent'[v] \in Placed' /\ at'[parent'[v]] < at'[v]
        /\ depth'[v] = depth'[parent'[v]] + 1 /\ depth'[v] <= MaxDepth
    BY <1>0, <1>d, <1>e, <1>f, <1>p, PlannerAssumption DEF PlannerTypeOK
  <2>2. ASSUME NEW w \in Viewers \ waiting
        PROVE  /\ parent'[w] # None /\ parent'[w] \in Placed' /\ at'[parent'[w]] < at'[w]
               /\ depth'[w] = depth'[parent'[w]] + 1 /\ depth'[w] <= MaxDepth
    <3>1. parent[w] # None /\ parent[w] \in Placed /\ w \in Placed
      BY DEF PlanInv, TreeOK, Placed
    <3>2. parent'[w] = parent[w]
      BY <1>0, <1>f, <3>1, <1>p DEF PlannerTypeOK
    <3> QED
      BY <1>e, <1>p, <3>1, <3>2 DEF PlanInv, TreeOK
  <2> QED
    BY <2>1, <2>2 DEF TreeOK, TurnFor
<1>2. WithinSlots'
  <2> SUFFICES ASSUME NEW q \in Nodes, Kids(q)' # {}
               PROVE  Slots(q) > 0 /\ Cardinality(Kids(q)' \ degraded') <= Slots(q)
    BY <1>s DEF WithinSlots, Kids
  <2>0. Kids(q) \subseteq Viewers /\ Slots(q) \in Nat
    BY <1>0, SlotsType DEF Kids
  <2>1. Kids(q) # {} => Slots(q) > 0 /\ Cardinality(Kids(q) \ degraded) <= Slots(q)
    BY DEF PlanInv, WithinSlots, Kids
  <2>2. Cardinality(Kids(q) \ degraded) <= used[q] /\ Cardinality(Kids(q) \ degraded) \in Nat
        /\ IsFiniteSet(Kids(q) \ degraded) /\ used[q] \in Nat
    BY <1>0, <2>0, KidsFinite, FS_Subset DEF PlanInv, Counted, PlannerTypeOK
  <2>3. CASE q # p
    <3>1. Kids(q)' = Kids(q) /\ v \notin Kids(q)
      BY <1>0, <1>k, <2>3 DEF Kids
    <3>2. Kids(q)' \ degraded' = Kids(q) \ degraded
      BY <3>1 DEF TurnFor
    <3> QED
      BY <2>1, <3>1, <3>2
  <2>4. CASE q = p /\ used[p] < Slots(p) /\ degraded' = degraded
    <3>1. v \notin degraded
      BY <1>p DEF PlanInv, Counted
    <3>2. Kids(q)' \ degraded' = (Kids(q) \ degraded) \union {v}
      BY <1>k, <2>4, <3>1
    <3>3. v \notin Kids(q) \ degraded
      BY <1>0, <2>4 DEF Kids
    <3>4. Cardinality(Kids(q)' \ degraded') = Cardinality(Kids(q) \ degraded) + 1
      BY <2>2, <3>2, <3>3, FS_AddElement
    <3> QED
      BY <2>0, <2>2, <2>4, <3>4
  <2>5. CASE q = p /\ Spare(v) = {} /\ degraded' = degraded \union {v}
    <3>1. Kids(q)' \ degraded' = Kids(q) \ degraded
      BY <1>k, <1>0, <2>5 DEF Kids
    <3>2. CASE Kids(q) = {}
      BY <2>0, <2>5, <3>1, <3>2, FS_EmptySet DEF TurnFor
    <3>3. CASE Kids(q) # {}
      BY <2>1, <3>1, <3>3
    <3> QED
      BY <3>2, <3>3
  <2> QED
    BY <2>3, <2>4, <2>5 DEF TurnFor
<1>3. DegradedWhenFull'
  <2> SUFFICES ASSUME NEW w \in degraded', NEW q \in Placed',
                      at'[q] < at'[w], Usable(q)', ~Banned(q, w)'
               PROVE  used'[q] >= Slots(q)
    BY <1>s DEF DegradedWhenFull
  <2>0. Banned(q, w)' = Banned(q, w)
    BY DEF Banned, TurnFor
  <2>1. CASE w = v
    <3>0. q # v
      BY <1>f, <1>t, <2>1 DEF PlannerTypeOK
    <3>1. q \in Placed /\ Usable(q)
      BY <1>e, <1>p, <1>s, <3>0 DEF Usable
    <3>2. w \notin degraded
      BY <1>p, <2>1 DEF PlanInv, Counted
    <3>3. Spare(v) = {}
      BY <3>2 DEF TurnFor
    <3>4. q \in Allowed(v)
      BY <2>0, <2>1, <3>1 DEF Allowed, Usable
    <3>5. ~(used[q] < Slots(q))
      BY <3>3, <3>4 DEF Spare
    <3> QED
      BY <1>0, <1>e, <1>t, <3>1, <3>5, SlotsType DEF PlannerTypeOK
  <2>2. CASE w # v
    <3>1. w \in degraded /\ w \in Placed
      BY <2>2 DEF TurnFor, PlanInv, Counted
    <3>2. q # v
      BY <1>d, <1>e, <1>t, <3>1, <1>0 DEF PlannerTypeOK
    <3>3. q \in Placed /\ Usable(q) /\ at[q] < at[w]
      BY <1>e, <1>p, <1>s, <3>1, <3>2 DEF Usable
    <3>4. used[q] >= Slots(q)
      BY <2>0, <3>1, <3>3 DEF PlanInv, DegradedWhenFull
    <3> QED
      BY <1>0, <1>e, <1>t, <3>3, <3>4, SlotsType DEF PlannerTypeOK
  <2> QED
    BY <2>1, <2>2
<1>4. BannedLastResort'
  <2> SUFFICES ASSUME NEW w \in Viewers, parent'[w] # None,
                      <<parent'[w], w>> \in input'.forbidden,
                      NEW q \in Placed', at'[q] < at'[w], Usable(q)'
               PROVE  Banned(q, w)'
    BY DEF BannedLastResort, Banned
  <2>0. \A x, y : Banned(x, y)' = Banned(x, y) /\ (Banned(x, y) <=> <<x, y>> \in input'.forbidden)
    BY DEF Banned, TurnFor
  <2>1. CASE w = v
    <3>0. q # v
      BY <1>f, <1>t, <2>1 DEF PlannerTypeOK
    <3>1. q \in Placed /\ Usable(q)
      BY <1>e, <1>p, <1>s, <3>0 DEF Usable
    <3>2. parent'[w] = p
      BY <1>0, <1>f, <2>1 DEF PlannerTypeOK
    <3> QED
      BY <2>0, <2>1, <3>1, <3>2 DEF TurnFor, Allowed
  <2>2. CASE w # v
    <3>1. parent'[w] = parent[w]
      BY <1>f, <2>2
    <3>2. w \in Placed
      BY <3>1 DEF Placed
    <3>3. q # v
      BY <1>d, <1>e, <1>t, <3>2, <1>0 DEF PlannerTypeOK
    <3>4. q \in Placed /\ Usable(q) /\ at[q] < at[w]
      BY <1>e, <1>p, <1>s, <3>2, <3>3 DEF Usable
    <3> QED
      BY <2>0, <3>1, <3>4 DEF PlanInv, BannedLastResort
  <2> QED
    BY <2>1, <2>2
<1> QED
  BY <1>t, <1>c, <1>1, <1>2, <1>3, <1>4 DEF PlanInv

-----------------------------------------------------------------------------
LEMMA PlanStep == PlanInv /\ [PlannerNext]_plannerVars => PlanInv'
<1> SUFFICES ASSUME PlanInv, [PlannerNext]_plannerVars PROVE PlanInv'
  OBVIOUS
<1>1. CASE Replan
  BY <1>1, ReplanStep
<1>2. ASSUME NEW v \in waiting, Attach(v) PROVE PlanInv'
  BY <1>2, AttachIsTurn, TurnStep
<1>3. CASE UNCHANGED plannerVars
  <2>1. /\ UNCHANGED <<input, waiting, turn, parent, depth>>
        /\ UNCHANGED <<delay, used, degraded, at, last>>
    BY <1>3 DEF plannerVars, plan
  <2>2. PlannerTypeOK' /\ Counted'
    BY <2>1 DEF PlanInv, PlannerTypeOK, Counted, Kids, Placed
  <2>3. TreeOK' /\ BannedLastResort'
    BY <2>1 DEF PlanInv, TreeOK, BannedLastResort, Placed, Usable, Slots, Banned
  <2>4. WithinSlots' /\ DegradedWhenFull'
    BY <2>1 DEF PlanInv, WithinSlots, DegradedWhenFull, Placed, Usable, Slots, Banned
  <2> QED
    BY <2>2, <2>3, <2>4 DEF PlanInv
<1> QED
  BY <1>1, <1>2, <1>3 DEF PlannerNext

\* The planner's inductive invariant, for any viewers, reports and bans.
THEOREM PlanCorrect == PlannerSpec => []PlanInv
  BY InitPlan, PlanStep, PTL DEF PlannerSpec

\* Every variable of the planner keeps its type: delays never turn negative.
THEOREM PlannerTypeCorrect == PlannerSpec => []PlannerTypeOK
<1>1. PlanInv => PlannerTypeOK
  BY DEF PlanInv
<1> QED
  BY <1>1, PlanCorrect, PTL

\* planTree gives every viewer it reaches a parent entered before it, one level
\* above it and within maxDepth: the plan is a tree and nobody is left out.
THEOREM TreeHolds == PlannerSpec => []TreeOK
<1>1. PlanInv => TreeOK
  BY DEF PlanInv
<1> QED
  BY <1>1, PlanCorrect, PTL

\* Nodes that cannot relay feed nobody, and viewers that are not degraded fit
\* into the slots of their parent.
THEOREM WithinSlotsHolds == PlannerSpec => []WithinSlots
<1>1. PlanInv => WithinSlots
  BY DEF PlanInv
<1> QED
  BY <1>1, PlanCorrect, PTL

\* A viewer is degraded only if every parent it was allowed was full.
THEOREM DegradedWhenFullHolds == PlannerSpec => []DegradedWhenFull
<1>1. PlanInv => DegradedWhenFull
  BY DEF PlanInv
<1> QED
  BY <1>1, PlanCorrect, PTL

\* A banned edge is used only when all usable parents are banned.
THEOREM BannedLastResortHolds == PlannerSpec => []BannedLastResort
<1>1. PlanInv => BannedLastResort
  BY DEF PlanInv
<1> QED
  BY <1>1, PlanCorrect, PTL

-----------------------------------------------------------------------------
(* Relays first.                                                             *)

\* Who was attached comes before who waits, and children fill the slots of
\* their parents one by one: as many places are filled as viewers attached.
Size == Cardinality(Viewers)
Filled == {s \in Nodes \X (1..Size) : s[2] <= used[s[1]]}
Open == {s \in Nodes \X (1..Size) : s[2] <= Slots(s[1])}
Sorted == \A u \in Viewers \ waiting, w \in waiting : Before(u, w)
RoomInv == Sorted /\ Cardinality(Filled) = Cardinality(Viewers \ waiting) /\ RoomForAll

LEMMA PlacesFinite ==
  /\ Size \in Nat
  /\ \A S \in SUBSET (Nodes \X (1..Size)) : IsFiniteSet(S) /\ Cardinality(S) \in Nat
<1>1. IsFiniteSet(Viewers) /\ IsFiniteSet(Nodes)
  BY NodesFinite, FS_AddElement DEF Nodes
<1>2. Size \in Nat
  BY <1>1, FS_CardinalityType DEF Size
<1>3. IsFiniteSet(1..Size)
  BY <1>2, FS_Interval
<1>4. IsFiniteSet(Nodes \X (1..Size))
  BY <1>1, <1>3, FS_Product
<1>5. ASSUME NEW S \in SUBSET (Nodes \X (1..Size)) PROVE IsFiniteSet(S) /\ Cardinality(S) \in Nat
  BY <1>4, FS_Subset, FS_CardinalityType
<1> QED
  BY <1>2, <1>5

LEMMA RoomEmpty ==
  ASSUME NoPlan, PlanInv PROVE RoomInv
<1>1. Filled = {}
  BY NodesFinite DEF NoPlan, Filled
<1>2. Viewers \ waiting = {} /\ degraded = {}
  BY DEF NoPlan
<1> QED
  BY <1>1, <1>2 DEF RoomInv, Sorted, RoomForAll

\* Who is placed is the broadcaster or attached.
LEMMA PlacedAttached ==
  ASSUME PlanInv PROVE Placed = {Root} \union (Viewers \ waiting)
BY DEF PlanInv, TreeOK, Counted, Placed, PlannerTypeOK

\* A turn fills one place.
LEMMA TurnFills ==
  ASSUME PlanInv, NEW v \in waiting, NEW p \in Placed, TurnFor(v, p),
         Cardinality(Filled) = Cardinality(Viewers \ waiting)
  PROVE  Cardinality(Filled') = Cardinality(Viewers \ waiting')
<1>1. /\ PlannerTypeOK /\ v \in Viewers /\ p \in Nodes /\ used[p] \in Nat /\ used[p] = Cardinality(Kids(p))
      /\ parent[v] = None
  BY NodesFinite DEF PlanInv, PlannerTypeOK, Counted, Placed
<1>2. used' = [used EXCEPT ![p] = @ + 1] /\ waiting' = waiting \ {v}
  BY DEF TurnFor, Feed
<1>3. used[p] + 1 \in 1..Size
  <2>1. Kids(p) \in SUBSET (Viewers \ {v})
    BY <1>1, NodesFinite DEF Kids
  <2>2. IsFiniteSet(Viewers \ {v}) /\ Cardinality(Viewers \ {v}) = Size - 1
    BY <1>1, NodesFinite, FS_RemoveElement DEF Size
  <2>3. Cardinality(Kids(p)) <= Size - 1
    BY <2>1, <2>2, FS_Subset
  <2> QED
    BY <1>1, <2>3, PlacesFinite
<1>4. <<p, used[p] + 1>> \notin Filled
  BY <1>1 DEF Filled
<1>5. Filled' = Filled \union {<<p, used[p] + 1>>}
  <2>1. \A n \in Nodes : used[n] \in Nat /\ used'[n] = IF n = p THEN used[n] + 1 ELSE used[n]
    BY <1>1, <1>2 DEF PlannerTypeOK
  <2>2. Filled' = {s \in Nodes \X (1..Size) : s[2] <= used'[s[1]]}
    BY DEF Filled
  <2>3. ASSUME NEW n \in Nodes, NEW k \in 1..Size
        PROVE  <<n, k>> \in Filled' <=> <<n, k>> \in Filled \/ (n = p /\ k = used[p] + 1)
    <3>1. k <= used'[n] <=> k <= used[n] \/ (n = p /\ k = used[p] + 1)
      BY <2>1
    <3> QED
      BY <2>2, <3>1 DEF Filled
  <2> QED
    BY <1>1, <1>3, <2>2, <2>3 DEF Filled
<1>6. Cardinality(Filled') = Cardinality(Filled) + 1
  <2>1. IsFiniteSet(Filled)
    BY PlacesFinite DEF Filled
  <2> QED
    BY <1>4, <1>5, <2>1, FS_AddElement
<1>7. Cardinality(Viewers \ waiting') = Cardinality(Viewers \ waiting) + 1
  <2>1. Viewers \ waiting' = (Viewers \ waiting) \union {v} /\ v \notin Viewers \ waiting
    BY <1>1, <1>2
  <2>2. IsFiniteSet(Viewers \ waiting)
    BY NodesFinite, FS_Difference
  <2> QED
    BY <2>1, <2>2, FS_AddElement
<1> QED
  BY <1>6, <1>7

\* With slots for everybody and no ban or depth in the way, the first of the
\* list finds a spare one: either it has none itself, and then nobody behind it
\* does, or everybody before it has one at least, and one slot more is open
\* than viewers were attached.
LEMMA RoomLeft ==
  ASSUME PlanInv, RoomInv, NEW v \in waiting, \A w \in waiting \ {v} : Before(v, w),
         input.forbidden = {}, \A q \in Placed : Slots(q) > 0 => Usable(q),
         Cardinality(Open) >= Size
  PROVE  Spare(v) # {}
<1> SUFFICES ASSUME Spare(v) = {} PROVE FALSE
  OBVIOUS
<1>1. /\ PlannerTypeOK /\ v \in Viewers /\ Placed \subseteq Nodes
      /\ \A n \in Nodes : used[n] \in Nat /\ Slots(n) \in Nat
  BY SlotsType, NodesFinite DEF PlanInv, PlannerTypeOK, Placed
<1>2. ASSUME NEW q \in Placed, Slots(q) > 0 PROVE used[q] >= Slots(q)
  <2>1. depth[q] < MaxDepth /\ ~Banned(q, v)
    BY <1>2 DEF Usable, Banned
  <2>2. q \in Allowed(v)
    BY <2>1 DEF Allowed
  <2>3. ~(used[q] < Slots(q))
    BY <2>2 DEF Spare
  <2> QED
    BY <1>1, <2>3
<1>3. /\ IsFiniteSet(Filled) /\ Cardinality(Filled) \in Nat /\ Cardinality(Filled) = Cardinality(Viewers \ waiting)
      /\ Size \in Nat /\ Cardinality(Open) \in Nat
  BY PlacesFinite DEF RoomInv, Filled, Open
<1>4. Cardinality(Viewers \ waiting) < Size
  <2>1. Viewers \ waiting \in SUBSET (Viewers \ {v})
    OBVIOUS
  <2>2. IsFiniteSet(Viewers \ {v}) /\ Cardinality(Viewers \ {v}) = Size - 1
    BY <1>1, NodesFinite, FS_RemoveElement DEF Size
  <2>3. Cardinality(Viewers \ waiting) <= Size - 1
    BY <2>1, <2>2, FS_Subset
  <2> QED
    BY <1>3, <2>3
<1>5. CASE Slots(v) = 0
  <2>1. ASSUME NEW n \in Nodes, Slots(n) > 0 PROVE n \in Placed
    <3>1. CASE n \in waiting
      <4>1. n # v /\ Before(v, n)
        BY <1>1, <1>5, <2>1, <3>1
      <4> QED
        BY <1>1, <1>5, <2>1, <3>1, <4>1 DEF Before, Nodes
    <3> QED
      BY <3>1, PlacedAttached DEF Nodes
  <2>2. Open \in SUBSET Filled
    <3>1. ASSUME NEW n \in Nodes, NEW k \in 1..Size, k <= Slots(n) PROVE k <= used[n]
      BY <1>1, <1>2, <1>3, <2>1, <3>1
    <3> QED
      BY <3>1 DEF Open, Filled
  <2>3. Cardinality(Open) <= Cardinality(Filled)
    BY <1>3, <2>2, FS_Subset
  <2> QED
    BY <1>3, <1>4, <2>3
<1>6. CASE Slots(v) > 0
  <2>1. ASSUME NEW q \in Placed PROVE <<q, 1>> \in Filled
    <3>1. Slots(q) > 0
      <4>1. CASE q = Root
        BY <1>1, <4>1, SlotsType
      <4>2. CASE q # Root
        <5>1. q \in Viewers \ waiting /\ Before(q, v)
          BY <4>2, PlacedAttached DEF RoomInv, Sorted
        <5> QED
          BY <1>1, <1>6, <5>1 DEF Before, Nodes
      <4> QED
        BY <4>1, <4>2
    <3> QED
      BY <1>1, <1>2, <1>3, <1>4, <3>1 DEF Filled
  <2> DEFINE first == [q \in Placed |-> <<q, 1>>]
  <2>2. first \in [Placed -> Filled] /\ \A q, r \in Placed : first[q] = first[r] => q = r
    BY <2>1
  <2>3. Cardinality(Placed) = Cardinality(Viewers \ waiting) + 1 /\ IsFiniteSet(Placed)
    <3>1. IsFiniteSet(Viewers \ waiting) /\ Root \notin Viewers \ waiting
      BY NodesFinite, FS_Difference DEF Root
    <3>2. Placed = (Viewers \ waiting) \union {Root}
      BY PlacedAttached
    <3> QED
      BY <3>1, <3>2, FS_AddElement
  <2>4. Cardinality(Filled) < Cardinality(Placed)
    BY <1>3, <2>3
  <2> HIDE DEF first
  <2> QED
    BY <1>3, <2>2, <2>3, <2>4, FS_PigeonHole
<1> QED
  BY <1>1, <1>5, <1>6 DEF Nodes

LEMMA RoomTurn ==
  ASSUME PlanInv, PlanInv', RoomInv, NEW v \in waiting, Attach(v) PROVE RoomInv'
<1>1. PICK p \in Placed : TurnFor(v, p)
  BY AttachIsTurn
<1>2. /\ waiting' = waiting \ {v} /\ input' = input /\ v \in Viewers
      /\ \A w \in waiting \ {v} : Before(v, w)
  BY <1>1 DEF TurnFor, Attach, PlanInv, PlannerTypeOK
<1>3. \A n : Slots(n)' = Slots(n)
  BY <1>2 DEF Slots
<1>4. Sorted'
  <2>1. \A a, b : Before(a, b)' = Before(a, b)
    BY <1>2, <1>3 DEF Before, Rtt, Report
  <2> QED
    BY <1>2, <2>1 DEF RoomInv, Sorted
<1>5. Cardinality(Filled') = Cardinality(Viewers \ waiting')
  BY <1>1, TurnFills DEF RoomInv
<1>6. RoomForAll'
  <2> SUFFICES ASSUME input'.forbidden = {}, \A q \in Placed' : Slots(q) > 0 => Usable(q)',
                      Cardinality(Open) >= Size
               PROVE  degraded' = {}
    <3>1. Open' = Open
      BY <1>3 DEF Open
    <3> QED
      BY <1>3, <3>1 DEF RoomForAll, Open, Size
  <2>1. \A q \in Placed : q \in Placed' /\ depth'[q] = depth[q]
    <3>1. /\ parent' = [parent EXCEPT ![v] = p] /\ depth' = [depth EXCEPT ![v] = depth[p] + 1]
          /\ parent[v] = None /\ p \in Nodes /\ v # Root
      BY <1>1, <1>2, NodesFinite DEF TurnFor, Feed, PlanInv, Counted, Placed, Root
    <3>2. parent \in [Viewers -> Nodes \union {None}] /\ depth \in [Nodes -> Nat]
      BY DEF PlanInv, PlannerTypeOK
    <3>3. \A q \in Placed : q \in Nodes /\ q # v
      BY <3>1, NodesFinite DEF Placed, Root
    <3>4. \A q \in Placed : q \in Placed'
      BY <3>1, <3>2, <3>3, NodesFinite DEF Placed
    <3> QED
      BY <3>1, <3>2, <3>3, <3>4
  <2>2. \A q \in Placed : Slots(q) > 0 => Usable(q)
    BY <1>3, <2>1 DEF Usable
  <2>3. input.forbidden = {}
    BY <1>2
  <2>4. degraded = {}
    BY <2>2, <2>3 DEF RoomInv, RoomForAll, Open, Size
  <2>5. Spare(v) # {}
    BY <1>2, <2>2, <2>3, RoomLeft
  <2> QED
    BY <1>1, <2>4, <2>5, AlwaysAParent DEF Attach
<1> QED
  BY <1>4, <1>5, <1>6 DEF RoomInv, Filled, Size

LEMMA RoomStep == PlanInv /\ RoomInv /\ [PlannerNext]_plannerVars => RoomInv'
<1> SUFFICES ASSUME PlanInv, RoomInv, [PlannerNext]_plannerVars PROVE RoomInv'
  OBVIOUS
<1>0. PlanInv'
  BY PlanStep
<1>1. CASE Replan
  <2>1. NoPlan'
    BY <1>1 DEF Replan, NoPlan
  <2>2. Filled' = {}
    BY <2>1, NodesFinite DEF NoPlan, Filled
  <2>3. Viewers \ waiting' = {} /\ degraded' = {}
    BY <2>1 DEF NoPlan
  <2> QED
    BY <2>2, <2>3 DEF RoomInv, Sorted, RoomForAll
<1>2. ASSUME NEW v \in waiting, Attach(v) PROVE RoomInv'
  BY <1>0, <1>2, RoomTurn
<1>3. CASE UNCHANGED plannerVars
  BY <1>3 DEF plannerVars, plan, RoomInv, Sorted, Filled, RoomForAll, Before, Slots, Rtt, Report, Placed, Usable
<1> QED
  BY <1>1, <1>2, <1>3 DEF PlannerNext

\* If the slots suffice for everybody and neither a ban nor the depth stands in
\* the way, planTree degrades nobody: it attaches relays first.
THEOREM RoomForAllHolds == PlannerSpec => []RoomForAll
<1>1. PlannerInit => RoomInv
  <2> SUFFICES ASSUME PlannerInit PROVE RoomInv
    OBVIOUS
  <2> QED
    BY InitPlan, RoomEmpty DEF PlannerInit
<1>2. RoomInv => RoomForAll
  BY DEF RoomInv
<1> QED
  BY <1>1, <1>2, RoomStep, PlanCorrect, PTL DEF PlannerSpec

-----------------------------------------------------------------------------
(* Planning again.  A plan is described without the loop that made it: who   *)
(* is ahead of a viewer in the sorted list decides what its turn found, and  *)
(* the plan has for it the parent that such a turn takes.  f, d, l and a are *)
(* the parents, depths, delays and turns of a plan, b the plan before it.    *)

Ahead(v) == {w \in Viewers : Before(w, v)}
Seen(v) == {Root} \union Ahead(v)
UsedAt(f, p, v) == Cardinality({w \in Ahead(v) : f[w] = p})
MayTake(d, v) ==
  LET allBanned == \A p \in Seen(v) : Slots(p) > 0 /\ d[p] < MaxDepth => Banned(p, v)
  IN {p \in Seen(v) : d[p] < MaxDepth /\ (allBanned \/ ~Banned(p, v))}
SpareAt(f, d, v) == {p \in MayTake(d, v) : UsedAt(f, p, v) < Slots(p)}
FullAt(f, d, v) == {p \in MayTake(d, v) : 0 < Slots(p) /\ Slots(p) <= UsedAt(f, p, v)}

CostAt(l, b, p, v) == (l[p] + Rtt(p, v) + 2 * HopMs) - (IF b[v] = p THEN 2 * StickyMs ELSE 0)
CheaperAt(l, a, b, p, q, v) ==
  \/ CostAt(l, b, p, v) < CostAt(l, b, q, v)
  \/ CostAt(l, b, p, v) = CostAt(l, b, q, v) /\ a[p] <= a[q]
LoadAt(f, p, q, v) == (UsedAt(f, p, v) + 1) * Slots(q)
LighterAt(f, l, a, b, p, q, v) ==
  \/ LoadAt(f, p, q, v) < LoadAt(f, q, p, v)
  \/ LoadAt(f, p, q, v) = LoadAt(f, q, p, v) /\ CheaperAt(l, a, b, p, q, v)

ChosenAt(f, d, l, a, b, p, v) ==
  \/ p \in SpareAt(f, d, v) /\ \A q \in SpareAt(f, d, v) : CheaperAt(l, a, b, p, q, v)
  \/ /\ SpareAt(f, d, v) = {}
     /\ p \in FullAt(f, d, v) /\ \A q \in FullAt(f, d, v) : LighterAt(f, l, a, b, p, q, v)

Made(f, d, l, a, b, v) ==
  /\ ChosenAt(f, d, l, a, b, f[v], v)
  /\ d[v] = d[f[v]] + 1
  /\ l[v] = l[f[v]] + Rtt(f[v], v) + 2 * HopMs
  /\ a[v] = Cardinality(Ahead(v)) + 1

Apart(a, S) == \A p, q \in S : a[p] = a[q] => p = q

\* A plan, complete, that an earlier run of the loop made.
Complete(f, d, l, a, b) ==
  /\ d \in [Nodes -> Nat] /\ l \in [Nodes -> Nat] /\ a \in [Nodes -> Nat]
  /\ d[Root] = 0 /\ l[Root] = 0 /\ a[Root] = 0
  /\ Apart(a, Nodes) /\ \A v \in Viewers : Made(f, d, l, a, b, v)

MadeSoFar ==
  \E f, d, l, a, b :
    /\ f = parent /\ d = depth /\ l = delay /\ a = at /\ b = input.prev
    /\ \A v \in Viewers \ waiting : Made(f, d, l, a, b, v)

MadeInv ==
  /\ Sorted /\ delay[Root] = 0 /\ turn = Cardinality(Viewers \ waiting)
  /\ Apart(at, Placed) /\ MadeSoFar

Repeats(d, l, a) ==
  \A v \in Viewers \ waiting :
    parent[v] = last[v] /\ depth[v] = d[v] /\ delay[v] = l[v] /\ at[v] = a[v]

AgainInv ==
  (\E v \in Viewers : last[v] # None) =>
    /\ input.prev = last
    /\ \E f, d, l, a, b : f = last /\ Complete(f, d, l, a, b) /\ Repeats(d, l, a)

StableInv == MadeInv /\ AgainInv

LEMMA NotBeforeItself ==
  ASSUME PlannerTypeOK, NEW v \in Viewers PROVE ~Before(v, v)
<1>1. v \in Nat /\ Slots(v) \in Nat /\ Rtt(Root, v) \in Nat
  BY NodesFinite, SlotsType, RttType, PlannerAssumption DEF Nodes
<1> QED
  BY <1>1 DEF Before

\* The sorted list is one: of two viewers one is ahead.
LEMMA Ordered ==
  ASSUME PlannerTypeOK, NEW v \in Viewers, NEW w \in Viewers, v # w
  PROVE  Before(v, w) <=> ~Before(w, v)
<1>1. /\ v \in Nat /\ w \in Nat /\ Slots(v) \in Nat /\ Slots(w) \in Nat
      /\ Rtt(Root, v) \in Nat /\ Rtt(Root, w) \in Nat
  BY NodesFinite, SlotsType, RttType, PlannerAssumption DEF Nodes
<1> QED
  BY <1>1 DEF Before

\* When the turn of v comes, those ahead of it are attached, and no others.
LEMMA TurnSees ==
  ASSUME PlanInv, Sorted, NEW v \in waiting, \A w \in waiting \ {v} : Before(v, w)
  PROVE  /\ v \in Viewers /\ Ahead(v) = Viewers \ waiting /\ Seen(v) = Placed
         /\ \A p \in Nodes : used[p] = UsedAt(parent, p, v)
<1>1. PlannerTypeOK /\ v \in Viewers /\ \A w \in waiting : parent[w] = None
  BY DEF PlanInv, PlannerTypeOK, Counted
<1>2. ASSUME NEW w \in Viewers PROVE Before(w, v) <=> w \notin waiting
  <2>1. CASE w \notin waiting
    BY <2>1 DEF Sorted
  <2>2. CASE w = v
    BY <1>1, <2>2, NotBeforeItself
  <2>3. CASE w \in waiting /\ w # v
    BY <1>1, <2>3, Ordered
  <2> QED
    BY <2>1, <2>2, <2>3
<1>3. Ahead(v) = Viewers \ waiting
  BY <1>2 DEF Ahead
<1>4. ASSUME NEW p \in Nodes PROVE Kids(p) = {w \in Ahead(v) : parent[w] = p}
  BY <1>1, <1>3, NodesFinite DEF Kids
<1> QED
  BY <1>1, <1>3, <1>4, PlacedAttached DEF Seen, UsedAt, PlanInv, Counted

\* The loop takes such a parent.
LEMMA TurnChooses ==
  ASSUME PlanInv, Sorted, NEW v \in waiting, \A w \in waiting \ {v} : Before(v, w),
         NEW p \in Choice(v), Spare(v) \union Full(v) # {}
  PROVE  ChosenAt(parent, depth, delay, at, input.prev, p, v)
<1>1. Seen(v) = Placed /\ Placed \subseteq Nodes /\ \A q \in Nodes : used[q] = UsedAt(parent, q, v)
  BY TurnSees, NodesFinite DEF Placed
<1>2. MayTake(depth, v) = Allowed(v)
  BY <1>1 DEF MayTake, Allowed, Usable
<1>3. SpareAt(parent, depth, v) = Spare(v) /\ FullAt(parent, depth, v) = Full(v)
  BY <1>1, <1>2 DEF SpareAt, FullAt, Spare, Full, Allowed
<1>4. \A q, r : CheaperAt(delay, at, input.prev, q, r, v) <=> Cheaper(q, r, v)
  <2>1. ASSUME NEW q PROVE CostAt(delay, input.prev, q, v) = Cost(q, v)
    BY DEF CostAt, Cost, PathDelay
  <2> QED
    BY <2>1 DEF CheaperAt, Cheaper
<1>5. \A q, r \in Placed : LighterAt(parent, delay, at, input.prev, q, r, v) <=> Lighter(q, r, v)
  BY <1>1, <1>4 DEF LighterAt, Lighter, LoadAt, Load
<1>6. Full(v) \subseteq Placed
  BY DEF Full, Allowed
<1> QED
  BY <1>3, <1>4, <1>5, <1>6 DEF ChosenAt, Choice, Best, Fallback

\* What a turn takes depends on those ahead only.
LEMMA SameAhead ==
  ASSUME NEW v \in Viewers, NEW f, NEW d, NEW l, NEW a, NEW g, NEW e, NEW m, NEW c,
         \A n \in Seen(v) : d[n] = e[n] /\ l[n] = m[n] /\ a[n] = c[n],
         \A w \in Ahead(v) : f[w] = g[w],
         NEW b, NEW p
  PROVE  ChosenAt(f, d, l, a, b, p, v) <=> ChosenAt(g, e, m, c, b, p, v)
<1>1. \A q : UsedAt(f, q, v) = UsedAt(g, q, v)
  <2>1. ASSUME NEW q PROVE {w \in Ahead(v) : f[w] = q} = {w \in Ahead(v) : g[w] = q}
    OBVIOUS
  <2> QED
    BY <2>1 DEF UsedAt
<1>2. MayTake(d, v) = MayTake(e, v) /\ MayTake(d, v) \subseteq Seen(v)
  BY DEF MayTake
<1>3. SpareAt(f, d, v) = SpareAt(g, e, v) /\ SpareAt(f, d, v) \subseteq Seen(v)
  BY <1>1, <1>2 DEF SpareAt
<1>4. FullAt(f, d, v) = FullAt(g, e, v) /\ FullAt(f, d, v) \subseteq Seen(v)
  BY <1>1, <1>2 DEF FullAt
<1>5. \A q, r \in Seen(v) : CheaperAt(l, a, b, q, r, v) <=> CheaperAt(m, c, b, q, r, v)
  BY DEF CheaperAt, CostAt
<1>6. \A q, r \in Seen(v) : LighterAt(f, l, a, b, q, r, v) <=> LighterAt(g, m, c, b, q, r, v)
  BY <1>1, <1>5 DEF LighterAt, LoadAt
<1> QED
  BY <1>3, <1>4, <1>5, <1>6 DEF ChosenAt

\* The parent of the plan before is chosen again: to stay makes it cheaper, and
\* nothing else becomes so.
LEMMA ChosenAgain ==
  ASSUME PlannerTypeOK, NEW v \in Viewers, NEW f, NEW d, NEW l \in [Nodes -> Nat], NEW a \in [Nodes -> Nat],
         Apart(a, Nodes), NEW b, NEW c, NEW p, NEW q, c[v] = q,
         ChosenAt(f, d, l, a, b, q, v), ChosenAt(f, d, l, a, c, p, v)
  PROVE  p = q
<1> SUFFICES ASSUME p # q PROVE FALSE
  OBVIOUS
<1>1. p \in Nodes /\ q \in Nodes
  BY NodesFinite DEF ChosenAt, SpareAt, FullAt, MayTake, Seen, Ahead
<1>2. a[p] \in Nat /\ a[q] \in Nat /\ a[p] # a[q]
  BY <1>1 DEF Apart
<1>3. ~(CheaperAt(l, a, c, p, q, v) /\ CheaperAt(l, a, b, q, p, v))
  <2> DEFINE way(n) == l[n] + Rtt(n, v) + 2 * HopMs
             stay == 2 * StickyMs
  <2>1. way(p) \in Int /\ way(q) \in Int /\ stay \in Nat
    BY <1>1, RttType, PlannerAssumption DEF Nodes
  <2>2. ASSUME NEW n, NEW x
        PROVE  CostAt(l, x, n, v) = way(n) - (IF x[v] = n THEN stay ELSE 0)
    BY DEF CostAt, way, stay
  <2> HIDE DEF way, stay
  <2>3. CostAt(l, c, q, v) = way(q) - stay /\ CostAt(l, c, p, v) = way(p)
    BY <2>1, <2>2
  <2>4. CostAt(l, b, q, v) - CostAt(l, b, p, v) >= way(q) - stay - way(p)
    BY <2>1, <2>2
  <2>5. CostAt(l, b, q, v) \in Int /\ CostAt(l, b, p, v) \in Int
    BY <2>1, <2>2
  <2> QED
    BY <1>2, <2>1, <2>3, <2>4, <2>5 DEF CheaperAt
<1>4. CASE SpareAt(f, d, v) # {}
  BY <1>3, <1>4 DEF ChosenAt
<1>5. CASE SpareAt(f, d, v) = {}
  <2>1. LighterAt(f, l, a, c, p, q, v) /\ LighterAt(f, l, a, b, q, p, v)
    BY <1>5 DEF ChosenAt
  <2>2. UsedAt(f, p, v) \in Nat /\ UsedAt(f, q, v) \in Nat
    BY KidsFinite DEF UsedAt, Ahead
  <2>3. LoadAt(f, p, q, v) \in Int /\ LoadAt(f, q, p, v) \in Int
    BY <1>1, <2>2, SlotsType DEF LoadAt
  <2> QED
    BY <1>3, <2>1, <2>3 DEF LighterAt
<1> QED
  BY <1>4, <1>5

LEMMA StableStart ==
  ASSUME NoPlan, PlanInv PROVE MadeInv
<1>1. Viewers \ waiting = {} /\ Placed = {Root} /\ delay[Root] = 0 /\ turn = 0
  BY NodesFinite DEF NoPlan, Placed, Nodes
<1> QED
  BY <1>1, FS_EmptySet DEF MadeInv, Sorted, Apart, MadeSoFar

\* What a turn changes of the plan, and of what is behind it nothing.
LEMMA TurnAdds ==
  ASSUME PlanInv, MadeInv, NEW v \in waiting, \A w \in waiting \ {v} : Before(v, w),
         NEW p \in Placed, TurnFor(v, p)
  PROVE  /\ v \in Viewers /\ v \notin Placed /\ p # v /\ Placed' = Placed \union {v}
         /\ Viewers \ waiting' = (Viewers \ waiting) \union {v} /\ v \notin Viewers \ waiting
         /\ \A n \in Placed : depth'[n] = depth[n] /\ delay'[n] = delay[n] /\ at'[n] = at[n]
         /\ \A w \in Viewers \ waiting : w \in Placed /\ parent'[w] = parent[w]
         /\ parent'[v] = p /\ depth'[v] = depth[p] + 1 /\ delay'[v] = PathDelay(p, v) /\ at'[v] = turn + 1
<1>1. /\ PlannerTypeOK /\ v \in Viewers /\ v \in Nodes /\ v # Root /\ p \in Nodes
      /\ parent[v] = None /\ p # v /\ p # None
  BY NodesFinite DEF PlanInv, PlannerTypeOK, Counted, Placed, Root
<1>2. /\ parent' = [parent EXCEPT ![v] = p]
      /\ depth' = [depth EXCEPT ![v] = depth[p] + 1]
      /\ at' = [at EXCEPT ![v] = turn + 1]
      /\ delay' = [delay EXCEPT ![v] = PathDelay(p, v)]
      /\ waiting' = waiting \ {v}
  BY DEF TurnFor, Feed
<1>3. Placed' = Placed \union {v} /\ v \notin Placed
  BY <1>1, <1>2 DEF Placed, PlannerTypeOK
<1>4. \A n \in Placed : n \in Nodes /\ n # v
  BY <1>1, NodesFinite DEF Placed
<1>5. \A n \in Placed : depth'[n] = depth[n] /\ delay'[n] = delay[n] /\ at'[n] = at[n]
  BY <1>1, <1>2, <1>4 DEF PlannerTypeOK
<1>6. \A w \in Viewers \ waiting : w \in Placed /\ parent'[w] = parent[w]
  BY <1>1, <1>2, PlacedAttached DEF PlannerTypeOK
<1> QED
  BY <1>1, <1>2, <1>3, <1>5, <1>6 DEF PlannerTypeOK

\* Those that are ahead of an attached viewer are attached.
LEMMA AheadAttached ==
  ASSUME PlanInv, Sorted, NEW u \in Viewers \ waiting
  PROVE  Ahead(u) \subseteq Viewers \ waiting /\ Seen(u) \subseteq Placed
<1>1. ASSUME NEW w \in Ahead(u), w \in waiting PROVE FALSE
  BY <1>1, Ordered, NotBeforeItself DEF Sorted, Ahead, PlanInv
<1>2. Ahead(u) \subseteq Viewers \ waiting
  BY <1>1 DEF Ahead
<1> QED
  BY <1>2, PlacedAttached DEF Seen

\* What is described of an attached viewer stays when plans agree up to it.
LEMMA SameMade ==
  ASSUME NEW u \in Viewers, NEW f, NEW d, NEW l, NEW a, NEW g, NEW e, NEW m, NEW c, NEW b,
         \A n \in Seen(u) \union {u} : d[n] = e[n] /\ l[n] = m[n] /\ a[n] = c[n],
         \A w \in Ahead(u) \union {u} : f[w] = g[w],
         Made(f, d, l, a, b, u)
  PROVE  Made(g, e, m, c, b, u)
<1>1. ChosenAt(f, d, l, a, b, f[u], u) /\ f[u] \in Seen(u)
  BY DEF Made, ChosenAt, SpareAt, FullAt, MayTake
<1>2. /\ \A n \in Seen(u) : d[n] = e[n] /\ l[n] = m[n] /\ a[n] = c[n]
      /\ \A w \in Ahead(u) : f[w] = g[w]
  OBVIOUS
<1>3. ASSUME NEW p PROVE ChosenAt(f, d, l, a, b, p, u) <=> ChosenAt(g, e, m, c, b, p, u)
  BY <1>2, SameAhead, Zenon
<1>4. ChosenAt(g, e, m, c, b, f[u], u)
  BY <1>1, <1>3
<1> QED
  BY <1>1, <1>4 DEF Made

\* A description reads of the input what a re-plan keeps.
Kept == /\ input'.cap = input.cap /\ input'.rtt = input.rtt /\ input'.busy = input.busy
        /\ input'.noRelay = input.noRelay /\ input'.forbidden = input.forbidden

LEMMA SameReports ==
  ASSUME Kept, NEW CONSTANT f, NEW CONSTANT d, NEW CONSTANT l, NEW CONSTANT a, NEW CONSTANT b, NEW CONSTANT u
  PROVE  Made(f, d, l, a, b, u)' <=> Made(f, d, l, a, b, u)
<1>1. \A n : Slots(n)' = Slots(n)
  BY DEF Kept, Slots
<1>2. \A n, m : Rtt(n, m)' = Rtt(n, m) /\ (Banned(n, m)' <=> Banned(n, m))
  BY DEF Kept, Rtt, Report, Banned
<1>3. \A n, m : Before(n, m)' <=> Before(n, m)
  BY <1>1, <1>2 DEF Before
<1>4. \A n : Ahead(n)' = Ahead(n) /\ Seen(n)' = Seen(n)
  BY <1>3 DEF Ahead, Seen
<1>5. \A q : UsedAt(f, q, u)' = UsedAt(f, q, u)
  BY <1>4 DEF UsedAt
<1>6. MayTake(d, u)' = MayTake(d, u)
  BY <1>1, <1>2, <1>4 DEF MayTake
<1>7. SpareAt(f, d, u)' = SpareAt(f, d, u) /\ FullAt(f, d, u)' = FullAt(f, d, u)
  BY <1>1, <1>5, <1>6 DEF SpareAt, FullAt
<1>8. \A q, r : CheaperAt(l, a, b, q, r, u)' <=> CheaperAt(l, a, b, q, r, u)
  BY <1>2 DEF CheaperAt, CostAt
<1>9. \A q, r : LighterAt(f, l, a, b, q, r, u)' <=> LighterAt(f, l, a, b, q, r, u)
  BY <1>1, <1>5, <1>8 DEF LighterAt, LoadAt
<1>10. \A p : ChosenAt(f, d, l, a, b, p, u)' <=> ChosenAt(f, d, l, a, b, p, u)
  BY <1>7, <1>8, <1>9 DEF ChosenAt
<1> QED
  BY <1>2, <1>4, <1>10 DEF Made

LEMMA TurnTakes ==
  ASSUME PlanInv, MadeInv, NEW v \in waiting, Attach(v), NEW p \in Placed, TurnFor(v, p)
  PROVE  ChosenAt(parent, depth, delay, at, input.prev, p, v)
<1>1. Sorted /\ Spare(v) \union Full(v) # {} /\ \A w \in waiting \ {v} : Before(v, w)
  BY AlwaysAParent DEF MadeInv, Attach
<1>2. PICK c \in Choice(v) : Feed(c, v)
  BY <1>1 DEF Attach
<1>3. c = p
  <2>1. parent' = [parent EXCEPT ![v] = c] /\ parent' = [parent EXCEPT ![v] = p]
    BY <1>2 DEF Feed, TurnFor
  <2>2. parent \in [Viewers -> Nodes \union {None}] /\ v \in Viewers
    BY DEF PlanInv, PlannerTypeOK
  <2> QED
    BY <2>1, <2>2
<1>4. ASSUME NEW q \in Choice(v) PROVE ChosenAt(parent, depth, delay, at, input.prev, q, v)
  BY <1>1, TurnChooses
<1> QED
  BY <1>2, <1>3, <1>4

LEMMA MadeTurn ==
  ASSUME PlanInv, MadeInv, Sorted', NEW v \in waiting, Attach(v) PROVE MadeInv'
<1>1. PICK p \in Placed : TurnFor(v, p)
  BY AttachIsTurn
<1>2. \A w \in waiting \ {v} : Before(v, w)
  BY DEF Attach
<1>3. /\ v \in Viewers /\ v \notin Placed /\ p # v /\ Placed' = Placed \union {v}
      /\ Viewers \ waiting' = (Viewers \ waiting) \union {v} /\ v \notin Viewers \ waiting
      /\ \A n \in Placed : depth'[n] = depth[n] /\ delay'[n] = delay[n] /\ at'[n] = at[n]
      /\ \A w \in Viewers \ waiting : w \in Placed /\ parent'[w] = parent[w]
      /\ parent'[v] = p /\ depth'[v] = depth[p] + 1 /\ delay'[v] = PathDelay(p, v) /\ at'[v] = turn + 1
  BY <1>1, <1>2, TurnAdds
<1>4. /\ Sorted /\ delay[Root] = 0 /\ turn = Cardinality(Viewers \ waiting) /\ Apart(at, Placed) /\ MadeSoFar
      /\ turn' = turn + 1 /\ input' = input
  BY <1>1 DEF MadeInv, TurnFor
<1>5. Root \in Placed
  BY DEF Placed
<1>6. delay'[Root] = 0
  BY <1>3, <1>4, <1>5
<1>7. turn' = Cardinality(Viewers \ waiting')
  <2>1. IsFiniteSet(Viewers \ waiting)
    BY NodesFinite, FS_Difference
  <2>2. Cardinality((Viewers \ waiting) \union {v}) = Cardinality(Viewers \ waiting) + 1
    BY <1>3, <2>1, FS_AddElement
  <2> QED
    BY <1>3, <1>4, <2>2
<1>8. Apart(at', Placed')
  <2>1. \A n \in Placed : at[n] \in Nat /\ at[n] <= turn /\ turn \in Nat
    BY NodesFinite DEF PlanInv, PlannerTypeOK, Counted, Placed
  <2>2. \A n \in Placed : at'[n] # at'[v]
    BY <1>3, <2>1
  <2>3. \A m, n \in Placed : at'[m] = at'[n] => m = n
    BY <1>3, <1>4 DEF Apart
  <2> QED
    BY <1>3, <2>2, <2>3 DEF Apart
<1>9. Ahead(v) = Viewers \ waiting /\ Seen(v) = Placed
  BY <1>2, <1>4, TurnSees
<1>10. PICK f, d, l, a, b : f = parent' /\ d = depth' /\ l = delay' /\ a = at' /\ b = input.prev
  OBVIOUS
<1>11. ASSUME NEW u \in Viewers \ waiting PROVE Made(f, d, l, a, b, u)
  <2>1. Ahead(u) \subseteq Viewers \ waiting /\ Seen(u) \subseteq Placed /\ u \in Placed
    BY <1>3, <1>4, AheadAttached
  <2>2. PICK g, e, m, c, h : /\ g = parent /\ e = depth /\ m = delay /\ c = at /\ h = input.prev
                             /\ \A w \in Viewers \ waiting : Made(g, e, m, c, h, w)
    BY <1>4 DEF MadeSoFar
  <2>3. \A n \in Seen(u) \union {u} : e[n] = d[n] /\ m[n] = l[n] /\ c[n] = a[n]
    BY <1>3, <1>10, <2>1, <2>2
  <2>4. \A w \in Ahead(u) \union {u} : g[w] = f[w]
    BY <1>3, <1>10, <2>1, <2>2
  <2>5. Made(g, e, m, c, b, u)
    BY <1>10, <2>2
  <2> QED
    BY <2>3, <2>4, <2>5, SameMade
<1>12. Made(f, d, l, a, b, v)
  <2>1. PICK g, e, m, c : g = parent /\ e = depth /\ m = delay /\ c = at
    OBVIOUS
  <2>2. ChosenAt(g, e, m, c, b, p, v)
    BY <1>1, <1>10, <2>1, TurnTakes
  <2>3. \A n \in Seen(v) : e[n] = d[n] /\ m[n] = l[n] /\ c[n] = a[n]
    BY <1>3, <1>9, <1>10, <2>1
  <2>4. \A w \in Ahead(v) : g[w] = f[w]
    BY <1>3, <1>9, <1>10, <2>1
  <2>5. ASSUME NEW q PROVE ChosenAt(g, e, m, c, b, q, v) <=> ChosenAt(f, d, l, a, b, q, v)
    BY <1>3, <2>3, <2>4, SameAhead, Zenon
  <2>6. f[v] = p /\ ChosenAt(f, d, l, a, b, f[v], v)
    BY <1>3, <1>10, <2>2, <2>5
  <2>7. d[v] = d[f[v]] + 1 /\ a[v] = Cardinality(Ahead(v)) + 1
    BY <1>3, <1>4, <1>9, <1>10, <2>6
  <2>8. l[v] = l[f[v]] + Rtt(f[v], v) + 2 * HopMs
    BY <1>3, <1>10, <2>6 DEF PathDelay
  <2> QED
    BY <2>6, <2>7, <2>8 DEF Made
<1>13. Kept
  BY <1>4 DEF Kept
<1>14. MadeSoFar'
  <2>1. ASSUME NEW u \in Viewers \ waiting' PROVE Made(f, d, l, a, b, u)'
    <3>1. Made(f, d, l, a, b, u)
      BY <1>3, <1>11, <1>12
    <3> QED
      BY <1>13, <3>1, SameReports
  <2>2. b = input'.prev
    BY <1>4, <1>10
  <2> QED
    BY <1>10, <2>1, <2>2 DEF MadeSoFar
<1> QED
  BY <1>6, <1>7, <1>8, <1>14 DEF MadeInv, Apart

LEMMA AgainTurn ==
  ASSUME PlanInv, MadeInv, AgainInv, NEW v \in waiting, Attach(v) PROVE AgainInv'
<1>1. PICK p \in Placed : TurnFor(v, p)
  BY AttachIsTurn
<1>2. \A w \in waiting \ {v} : Before(v, w)
  BY DEF Attach
<1>3. /\ v \in Viewers /\ v \notin Placed /\ p # v /\ Placed' = Placed \union {v}
      /\ Viewers \ waiting' = (Viewers \ waiting) \union {v} /\ v \notin Viewers \ waiting
      /\ \A n \in Placed : depth'[n] = depth[n] /\ delay'[n] = delay[n] /\ at'[n] = at[n]
      /\ \A w \in Viewers \ waiting : w \in Placed /\ parent'[w] = parent[w]
      /\ parent'[v] = p /\ depth'[v] = depth[p] + 1 /\ delay'[v] = PathDelay(p, v) /\ at'[v] = turn + 1
  BY <1>1, <1>2, TurnAdds
<1>4. input' = input /\ last' = last
  BY <1>1 DEF TurnFor
<1> SUFFICES ASSUME \E w \in Viewers : last[w] # None
             PROVE  \E f, d, l, a, b : f = last /\ Complete(f, d, l, a, b)' /\ Repeats(d, l, a)'
  BY <1>4 DEF AgainInv
<1>5. PICK f, d, l, a, b : f = last /\ Complete(f, d, l, a, b) /\ Repeats(d, l, a)
  BY DEF AgainInv
<1>6. input.prev = f
  BY <1>5 DEF AgainInv
<1>7. PlannerTypeOK /\ Sorted /\ depth[Root] = 0 /\ delay[Root] = 0 /\ at[Root] = 0
  BY DEF PlanInv, Counted, MadeInv
<1>8. Ahead(v) = Viewers \ waiting /\ Seen(v) = {Root} \union (Viewers \ waiting) /\ Seen(v) = Placed
  BY <1>2, <1>7, TurnSees DEF Seen
<1>9. PICK g, e, m, c : g = parent /\ e = depth /\ m = delay /\ c = at
  OBVIOUS
<1>10. \A n \in Seen(v) : e[n] = d[n] /\ m[n] = l[n] /\ c[n] = a[n]
  BY <1>5, <1>7, <1>8, <1>9 DEF Complete, Repeats
<1>11. \A w \in Ahead(v) : g[w] = f[w]
  BY <1>5, <1>8, <1>9 DEF Repeats
<1>12. p = f[v]
  <2>1. ChosenAt(g, e, m, c, f, p, v)
    BY <1>1, <1>6, <1>9, TurnTakes
  <2>2. ASSUME NEW q PROVE ChosenAt(g, e, m, c, f, q, v) <=> ChosenAt(f, d, l, a, f, q, v)
    BY <1>3, <1>10, <1>11, SameAhead, Zenon
  <2>3. ChosenAt(f, d, l, a, f, p, v)
    BY <2>1, <2>2
  <2>4. ChosenAt(f, d, l, a, b, f[v], v)
    BY <1>3, <1>5 DEF Complete, Made
  <2>5. l \in [Nodes -> Nat] /\ a \in [Nodes -> Nat] /\ Apart(a, Nodes)
    BY <1>5 DEF Complete
  <2> QED
    BY <1>3, <1>7, <2>3, <2>4, <2>5, ChosenAgain
<1>13. parent'[v] = last'[v] /\ depth'[v] = d[v] /\ delay'[v] = l[v] /\ at'[v] = a[v]
  <2>1. Made(f, d, l, a, b, v)
    BY <1>3, <1>5 DEF Complete
  <2>2. depth[p] = d[p] /\ delay[p] = l[p]
    BY <1>8, <1>9, <1>10
  <2>3. turn = Cardinality(Ahead(v))
    BY <1>8 DEF MadeInv
  <2> QED
    BY <1>3, <1>4, <1>5, <1>12, <2>1, <2>2, <2>3 DEF Made, PathDelay
<1>14. Repeats(d, l, a)'
  <2>1. ASSUME NEW w \in Viewers \ waiting
        PROVE  parent'[w] = last'[w] /\ depth'[w] = d[w] /\ delay'[w] = l[w] /\ at'[w] = a[w]
    BY <1>3, <1>4, <1>5 DEF Repeats
  <2> QED
    BY <1>3, <1>13, <2>1 DEF Repeats
<1>15. Complete(f, d, l, a, b)'
  <2>1. Kept
    BY <1>4 DEF Kept
  <2>2. ASSUME NEW u \in Viewers PROVE Made(f, d, l, a, b, u)'
    <3>1. Made(f, d, l, a, b, u)
      BY <1>5 DEF Complete
    <3> QED
      BY <2>1, <3>1, SameReports
  <2> QED
    BY <1>5, <2>2 DEF Complete, Apart
<1> QED
  BY <1>5, <1>14, <1>15

LEMMA AgainReplan ==
  ASSUME PlanInv, MadeInv, Replan PROVE AgainInv'
<1>1. /\ waiting = {} /\ last' = parent /\ input' = [input EXCEPT !.prev = parent] /\ waiting' = Viewers
  BY DEF Replan
<1>2. Kept /\ input'.prev = last'
  BY <1>1 DEF Kept, PlanInv, PlannerTypeOK, Input
<1>3. PICK f, d, l, a, b : /\ f = parent /\ d = depth /\ l = delay /\ a = at
                           /\ \A v \in Viewers \ waiting : Made(f, d, l, a, b, v)
  BY DEF MadeInv, MadeSoFar
<1>4. Placed = Nodes
  BY <1>1, PlacedAttached DEF Nodes
<1>5. Complete(f, d, l, a, b)'
  <2>1. ASSUME NEW u \in Viewers PROVE Made(f, d, l, a, b, u)'
    <3>1. Made(f, d, l, a, b, u)
      BY <1>1, <1>3
    <3> QED
      BY <1>2, <3>1, SameReports
  <2>2. Apart(a, Nodes)
    BY <1>3, <1>4 DEF MadeInv
  <2>3. /\ d \in [Nodes -> Nat] /\ l \in [Nodes -> Nat] /\ a \in [Nodes -> Nat]
        /\ d[Root] = 0 /\ l[Root] = 0 /\ a[Root] = 0
    BY <1>3 DEF PlanInv, PlannerTypeOK, Counted, MadeInv
  <2> QED
    BY <2>1, <2>2, <2>3 DEF Complete, Apart
<1>6. Repeats(d, l, a)'
  BY <1>1 DEF Repeats
<1>7. f = last'
  BY <1>1, <1>3
<1> QED
  BY <1>2, <1>5, <1>6, <1>7 DEF AgainInv

LEMMA StableStep == PlanInv /\ RoomInv /\ StableInv /\ [PlannerNext]_plannerVars => StableInv'
<1> SUFFICES ASSUME PlanInv, RoomInv, StableInv, [PlannerNext]_plannerVars PROVE StableInv'
  OBVIOUS
<1>0. PlanInv' /\ RoomInv' /\ MadeInv /\ AgainInv
  BY PlanStep, RoomStep DEF StableInv
<1>1. CASE Replan
  <2>1. NoPlan'
    BY <1>1 DEF Replan, NoPlan
  <2>2. Viewers \ waiting' = {} /\ Placed' = {Root} /\ delay'[Root] = 0 /\ turn' = 0
    BY <2>1, NodesFinite DEF NoPlan, Placed, Nodes
  <2>3. MadeInv'
    BY <2>2, FS_EmptySet DEF MadeInv, Sorted, Apart, MadeSoFar
  <2> QED
    BY <1>0, <1>1, <2>3, AgainReplan DEF StableInv
<1>2. ASSUME NEW v \in waiting, Attach(v) PROVE StableInv'
  <2>1. MadeInv'
    BY <1>0, <1>2, MadeTurn DEF RoomInv
  <2> QED
    BY <1>0, <1>2, <2>1, AgainTurn DEF StableInv
<1>3. CASE UNCHANGED plannerVars
  <2>1. /\ UNCHANGED <<input, waiting, turn, parent, depth>>
        /\ UNCHANGED <<delay, used, degraded, at, last>>
    BY <1>3 DEF plannerVars, plan
  <2>2. Kept
    BY <2>1 DEF Kept
  <2>3. ASSUME NEW f, NEW d, NEW l, NEW a, NEW b, NEW u PROVE Made(f, d, l, a, b, u)' <=> Made(f, d, l, a, b, u)
    BY <2>2, SameReports
  <2>4. Sorted' /\ Placed' = Placed
    BY <1>0, <2>1 DEF RoomInv, Placed
  <2>5. MadeInv'
    BY <1>0, <2>1, <2>3, <2>4 DEF MadeInv, MadeSoFar, Apart
  <2>6. AgainInv'
    BY <1>0, <2>1, <2>3 DEF AgainInv, Complete, Repeats, Apart
  <2> QED
    BY <2>5, <2>6 DEF StableInv
<1> QED
  BY <1>1, <1>2, <1>3 DEF PlannerNext

\* Planning again from the same reports moves nobody (planTree with the previous
\* plan, and its preference for the current parent): the tree does not flap.
THEOREM StableHolds == PlannerSpec => []Stable
<1>1. PlannerInit => RoomInv /\ StableInv
  <2> SUFFICES ASSUME PlannerInit PROVE RoomInv /\ StableInv
    OBVIOUS
  <2>1. NoPlan /\ PlanInv /\ last = [v \in Viewers |-> None]
    BY InitPlan DEF PlannerInit, NoPlan
  <2> QED
    BY <2>1, RoomEmpty, StableStart DEF StableInv, AgainInv
<1>2. StableInv => Stable
  BY DEF StableInv, AgainInv, Repeats, Stable
<1> QED
  BY <1>1, <1>2, RoomStep, StableStep, PlanCorrect, PTL DEF PlannerSpec

-----------------------------------------------------------------------------
(* The stream: what the inductive invariant says.                            *)

Layer(n) == frames[n].tl

\* What a frame on layer tl with reference d, number n of the frames fs, relies
\* on: every frame between the two is on its own layer or above (between two T0
\* frames, above), and the reference is on a lower one.
Leans(fs, d, tl, n) ==
  /\ d < n
  /\ \A m \in 1..Len(fs) : d < m /\ m < n => fs[m].tl >= tl /\ fs[m].tl > 0
  /\ d > 0 => fs[d].tl < tl \/ fs[d].tl = 0

Founded(fs, n) ==
  IF fs[n].key THEN fs[n].tl = 0 /\ fs[n].dep = n ELSE Leans(fs, fs[n].dep, fs[n].tl, n)

\* LayerDeps names the references that the next frames lean on.
DepsOK ==
  /\ \A n \in Numbers : Founded(frames, n)
  /\ Leans(frames, lastT0, 0, Len(frames) + 1)
  /\ \A k \in {1, 2} : Leans(frames, lastBelow[k], k, Len(frames) + 1)

\* The decoder only moves forward, and from a keyframe on.
OrderOK ==
  /\ delivered \subseteq 1..lastDelivered
  /\ lastDelivered = 0 \/ lastDelivered \in delivered
  /\ \A n \in complete : lastDelivered < n
  /\ lastDelivered > 0 => \E k \in Numbers : k <= lastDelivered /\ Key(k)

\* What the frames up to f still need: s, if all frames after it are above it.
Needed(s, f) == s < f /\ \A m \in Numbers : s < m /\ m <= f => Layer(m) > Layer(s)

\* With a frame, everything still needed at that frame has been delivered.
ChainOK == \A f \in delivered, s \in Numbers : Needed(s, f) => s \in delivered

\* A frame the link decided against is remembered until the next keyframe.
SkippedOK ==
  \A n \in missed : n \in skipped \/ \E k \in Numbers : n < k /\ Key(k)

StreamInv ==
  StreamTypeOK /\ DepsOK /\ OrderOK /\ ChainOK /\ SkippedOK /\ ForwardedWhole /\ AskedWhenCut

-----------------------------------------------------------------------------
(* Typing.                                                                   *)

LEMMA InitTyped == StreamInit => StreamTypeOK
<1> SUFFICES ASSUME StreamInit PROVE StreamTypeOK
  OBVIOUS
<1>1. frames = <<>> /\ Len(frames) = 0 /\ frames \in Seq(Frame)
  BY DEF StreamInit
<1>2. base = {} /\ maxLayer \in Layers
  BY DEF StreamInit, Layers
<1>3. lastBelow \in [Layers -> 0..Len(frames)] /\ lastT0 \in 0..Len(frames)
  BY <1>1 DEF StreamInit
<1>4. /\ forced \in BOOLEAN /\ wanted \in BOOLEAN
      /\ chainBroken \in BOOLEAN /\ waitingKey \in BOOLEAN
  BY DEF StreamInit
<1>5. /\ skipped = {} /\ enh = {} /\ missed = {} /\ complete = {} /\ late = {} /\ scan = {}
      /\ delivered = {} /\ lastDelivered = 0
  BY DEF StreamInit
<1>6. Len(frames) <= MaxFrames /\ lastDelivered \in 0..Len(frames)
  BY <1>1, <1>5, StreamAssumption
<1> QED
  BY <1>1, <1>2, <1>3, <1>4, <1>5, <1>6 DEF StreamTypeOK

LEMMA FrameTyped ==
  ASSUME StreamTypeOK, NEW n \in Numbers
  PROVE  /\ n \in Nat /\ n > 0 /\ frames[n].key \in BOOLEAN
         /\ Dep(n) \in Nat /\ Layer(n) \in Layers /\ Layer(n) \in Nat
<1>1. frames \in Seq(Frame) /\ Len(frames) \in Nat /\ n \in 1..Len(frames)
  BY DEF StreamTypeOK, Numbers
<1>2. frames[n] \in Frame
  BY <1>1
<1> QED
  BY <1>1, <1>2 DEF Frame, Dep, Layer, Layers

\* What encoding adds to the frames.
LEMMA FramesGrow ==
  ASSUME StreamTypeOK, NEW tl \in Layers, NEW top, NEW congested, NEW ch,
         Encode(tl, top, congested, ch)
  PROVE  /\ NewFrame(tl) \in Frame
         /\ frames' \in Seq(Frame) /\ Len(frames') = Len(frames) + 1
         /\ Len(frames') <= MaxFrames
         /\ \A m \in Numbers : frames'[m] = frames[m]
         /\ frames'[Len(frames) + 1] = NewFrame(tl)
<1>1. NewFrame(tl) \in Frame
  BY DEF NewFrame, NextDep, Frame, StreamTypeOK, Layers
<1>2. frames \in Seq(Frame) /\ frames' = Append(frames, NewFrame(tl)) /\ Len(frames) + 1 <= MaxFrames
  BY DEF Encode, StreamTypeOK
<1> QED
  BY <1>1, <1>2, AppendProperties DEF Numbers

LEMMA EncodeTyped ==
  ASSUME StreamTypeOK, NEW tl \in Layers, NEW top, NEW congested, NEW ch,
         Encode(tl, top, congested, ch)
  PROVE  StreamTypeOK'
<1> DEFINE n == Len(frames) + 1
           f == NewFrame(tl)
<1>1. f \in Frame /\ frames' \in Seq(Frame) /\ Len(frames') = n /\ n <= MaxFrames /\ n \in Nat
  BY FramesGrow DEF StreamTypeOK
<1>2. Numbers' = Numbers \union {n} /\ Numbers \subseteq Numbers' /\ n \in Numbers'
  BY <1>1 DEF Numbers, StreamTypeOK
<1>3. lastT0' \in 0..Len(frames') /\ lastBelow' \in [Layers -> 0..Len(frames')]
  BY <1>1 DEF Encode, StreamTypeOK, Layers
<1>4. /\ missed' \subseteq Numbers' /\ skipped' \subseteq Numbers' /\ chainBroken' \in BOOLEAN
      /\ enh' \subseteq Numbers'
  BY <1>1, <1>2 DEF Encode, Offer, Remember, HandOver, Breaks, StreamTypeOK, Frame
<1>5. base' \subseteq Numbers' /\ maxLayer' \in Layers
  BY <1>1, <1>2 DEF Encode, Offer, HandOver, StreamTypeOK
<1>6. /\ wanted' \in BOOLEAN /\ forced' \in BOOLEAN /\ waitingKey' \in BOOLEAN
      /\ complete' \subseteq Numbers' /\ late' \subseteq complete' /\ scan' \subseteq complete'
      /\ delivered' \subseteq Numbers'
  BY <1>2 DEF Encode, receiver, StreamTypeOK
<1>7. lastDelivered' \in 0..Len(frames')
  BY <1>1 DEF Encode, receiver, StreamTypeOK
<1> QED
  BY <1>1, <1>3, <1>4, <1>5, <1>6, <1>7 DEF StreamTypeOK

\* Steps of the receiver and of the channels.
LEMMA ArrivalTyped ==
  ASSUME StreamTypeOK, NEW n \in Numbers, ArriveBase(n) \/ ArriveEnh(n) \/ Late(n)
  PROVE  StreamTypeOK'
<1>1. frames' = frames /\ Numbers' = Numbers
  BY DEF ArriveBase, ArriveEnh, Late, encoder, Numbers
<1>2. base' \subseteq Numbers /\ enh' \subseteq Numbers
  BY DEF ArriveBase, ArriveEnh, Late, StreamTypeOK
<1>3. complete' \subseteq Numbers /\ late' \subseteq complete' /\ scan' \subseteq complete'
  BY DEF ArriveBase, ArriveEnh, Late, Push, StreamTypeOK
<1> QED
  BY <1>1, <1>2, <1>3 DEF ArriveBase, ArriveEnh, Late, Push, encoder, link, StreamTypeOK

LEMMA ScanTyped ==
  ASSUME StreamTypeOK, NEW n \in Numbers, Scan(n)
  PROVE  StreamTypeOK'
<1>1. /\ frames' = frames /\ lastT0' = lastT0 /\ lastBelow' = lastBelow /\ forced' = forced
      /\ UNCHANGED <<skipped, chainBroken, maxLayer, missed, base, enh>>
  BY DEF Scan, Discard, Deliver, GiveUp, Wait, encoder, link
<1>2. Numbers' = Numbers /\ base' \subseteq Numbers' /\ Len(frames') = Len(frames)
  BY <1>1 DEF Numbers, StreamTypeOK
<1>3. wanted' \in BOOLEAN /\ waitingKey' \in BOOLEAN
  BY DEF Scan, Discard, Deliver, GiveUp, Wait, Ask, encoder, StreamTypeOK
<1>4. complete' \subseteq Numbers /\ late' \subseteq complete' /\ scan' \subseteq complete'
  BY DEF Scan, Discard, Deliver, GiveUp, Wait, Drop, StreamTypeOK
<1>5. delivered' \subseteq Numbers /\ lastDelivered' \in 0..Len(frames)
  <2>1. UNCHANGED <<delivered, lastDelivered>> \/ (delivered' = delivered \union {n} /\ lastDelivered' = n)
    BY DEF Scan, Discard, Deliver, GiveUp, Wait
  <2>2. n \in 0..Len(frames)
    BY DEF Numbers
  <2> QED
    BY <2>1, <2>2 DEF StreamTypeOK
<1>6. /\ frames' \in Seq(Frame) /\ Len(frames') <= MaxFrames /\ forced' \in BOOLEAN
      /\ lastT0' \in 0..Len(frames') /\ lastBelow' \in [Layers -> 0..Len(frames')]
      /\ skipped' \subseteq Numbers' /\ enh' \subseteq Numbers' /\ missed' \subseteq Numbers'
      /\ chainBroken' \in BOOLEAN /\ maxLayer' \in Layers
  BY <1>1, <1>2 DEF StreamTypeOK
<1> QED
  BY <1>2, <1>3, <1>4, <1>5, <1>6 DEF StreamTypeOK

\* Steps of the sender that send nothing.
SenderAlone == Adapt \/ TakeBroken \/ RequestKeyframe \/ SetBitrate

LEMMA SenderTyped == ASSUME StreamTypeOK, SenderAlone PROVE StreamTypeOK'
<1>1. frames' = frames /\ Numbers' = Numbers
  BY DEF SenderAlone, Adapt, TakeBroken, RequestKeyframe, SetBitrate, encoder, Numbers
<1> QED
  BY <1>1 DEF SenderAlone, Adapt, TakeBroken, RequestKeyframe, SetBitrate, encoder, link, receiver, StreamTypeOK

LEMMA StutterTyped == ASSUME StreamTypeOK, UNCHANGED streamVars PROVE StreamTypeOK'
<1>1. frames' = frames /\ Numbers' = Numbers
  BY DEF streamVars, encoder, Numbers
<1> QED
  BY <1>1 DEF streamVars, encoder, link, receiver, StreamTypeOK

LEMMA TypedStep == ASSUME StreamTypeOK, [StreamNext]_streamVars PROVE StreamTypeOK'
<1>1. CASE UNCHANGED streamVars
  BY <1>1, StutterTyped
<1>2. CASE SenderAlone
  BY <1>2, SenderTyped
<1>3. CASE \E n \in Numbers : ArriveBase(n) \/ ArriveEnh(n) \/ Late(n)
  BY <1>3, ArrivalTyped
<1>4. CASE \E n \in Numbers : Scan(n)
  BY <1>4, ScanTyped
<1>5. CASE \E tl \in Layers, ceiling \in Ceilings, congested \in BOOLEAN, ch \in Channels :
              Encode(tl, Top(ceiling), congested, ch)
  BY <1>5, EncodeTyped
<1> QED
  BY <1>1, <1>2, <1>3, <1>4, <1>5 DEF StreamNext, SenderAlone

-----------------------------------------------------------------------------
(* A frame is encoded.                                                       *)

\* gs is fs with the frame f at its end.
Extends(gs, fs, f) ==
  /\ fs \in Seq(Frame) /\ gs \in Seq(Frame) /\ f \in Frame
  /\ Len(fs) \in Nat /\ Len(gs) = Len(fs) + 1 /\ gs[Len(gs)] = f
  /\ \A m \in 1..Len(fs) : gs[m] = fs[m] /\ fs[m] \in Frame

\* What a frame leans on does not change when more frames follow.
LEMMA LeansStays ==
  ASSUME NEW fs, NEW gs, NEW f, Extends(gs, fs, f), NEW d \in Nat, NEW tl \in Layers,
         NEW n \in 1..(Len(fs) + 1), Leans(fs, d, tl, n)
  PROVE  Leans(gs, d, tl, n)
<1>1. \A m \in 1..Len(gs) : m < n => m \in 1..Len(fs) /\ gs[m] = fs[m]
  BY DEF Extends
<1>2. d > 0 => d \in 1..Len(fs) /\ gs[d] = fs[d]
  BY DEF Leans, Extends
<1> QED
  BY <1>1, <1>2 DEF Leans

\* A reference passes a frame on the same layer or above ...
LEMMA LeansPasses ==
  ASSUME NEW fs, NEW gs, NEW f, Extends(gs, fs, f), NEW d \in Nat, NEW tl \in Layers,
         Leans(fs, d, tl, Len(fs) + 1), f.tl >= tl, f.tl > 0
  PROVE  Leans(gs, d, tl, Len(gs) + 1)
<1>1. \A m \in 1..Len(gs) : m = Len(gs) \/ (m \in 1..Len(fs) /\ m < Len(fs) + 1)
  BY DEF Extends
<1>2. Leans(gs, d, tl, Len(fs) + 1) /\ gs[Len(gs)] = f /\ Len(gs) = Len(fs) + 1 /\ Len(fs) \in Nat
  BY LeansStays DEF Extends
<1> QED
  BY <1>1, <1>2 DEF Leans

\* ... and a frame below becomes the reference.
LEMMA LeansAnew ==
  ASSUME NEW fs, NEW gs, NEW f, Extends(gs, fs, f), NEW tl \in Layers, f.tl < tl \/ f.tl = 0
  PROVE  Leans(gs, Len(gs), tl, Len(gs) + 1)
BY DEF Leans, Extends

LEMMA EncodeExtends ==
  ASSUME StreamTypeOK, NEW tl \in Layers, NEW top, NEW congested, NEW ch,
         Encode(tl, top, congested, ch)
  PROVE  Extends(frames', frames, NewFrame(tl)) /\ Len(frames') \in Nat
<1>1. \A m \in Numbers : frames[m] \in Frame
  BY DEF StreamTypeOK, Numbers
<1> QED
  BY <1>1, FramesGrow DEF Extends, StreamTypeOK, Numbers

LEMMA EncodeDeps ==
  ASSUME StreamTypeOK, DepsOK, NEW tl \in Layers, NEW top, NEW congested, NEW ch,
         Encode(tl, top, congested, ch)
  PROVE  DepsOK'
<1> DEFINE f == NewFrame(tl)
<1>1. Extends(frames', frames, f) /\ Len(frames) \in Nat /\ f.tl \in Layers
  BY EncodeExtends DEF Extends, Frame
<1>2. ASSUME NEW n \in 1..Len(frames') PROVE Founded(frames', n)
  <2>1. CASE n \in 1..Len(frames)
    <3>1. Founded(frames, n) /\ frames'[n] = frames[n] /\ frames[n] \in Frame
      BY <1>1, <2>1 DEF DepsOK, Numbers, Extends
    <3>2. frames[n].dep \in Nat /\ frames[n].tl \in Layers /\ n \in 1..(Len(frames) + 1)
      BY <1>1, <2>1, <3>1 DEF Frame
    <3>3. CASE frames[n].key
      BY <3>1, <3>3 DEF Founded
    <3>4. CASE ~frames[n].key
      <4>1. Leans(frames, frames[n].dep, frames[n].tl, n)
        BY <3>1, <3>4 DEF Founded
      <4>2. Leans(frames', frames[n].dep, frames[n].tl, n)
        BY <4>1, <3>2, <1>1, LeansStays
      <4> QED
        BY <4>2, <3>1, <3>4 DEF Founded
    <3> QED
      BY <3>3, <3>4
  <2>2. CASE n = Len(frames) + 1
    <3>1. frames'[n] = f
      BY <1>1, <2>2 DEF Extends
    <3>2. CASE forced
      BY <2>2, <3>1, <3>2 DEF NewFrame, Founded
    <3>3. CASE ~forced
      <4>1. f.key = FALSE /\ f.tl = tl /\ f.dep = NextDep(tl)
        BY <3>3 DEF NewFrame
      <4>2. Leans(frames, NextDep(tl), tl, n) /\ NextDep(tl) \in Nat
        BY <2>2 DEF DepsOK, NextDep, Layers, StreamTypeOK
      <4>3. Leans(frames', NextDep(tl), tl, n)
        BY <1>1, <2>2, <4>2, LeansStays
      <4> QED
        BY <3>1, <4>1, <4>3 DEF Founded
    <3> QED
      BY <3>2, <3>3
  <2> QED
    BY <1>1, <2>1, <2>2 DEF Extends
<1>3. Leans(frames', lastT0', 0, Len(frames') + 1)
  <2>1. lastT0' = IF f.tl = 0 THEN Len(frames') ELSE lastT0
    BY <1>1 DEF Encode, Extends
  <2>2. Leans(frames, lastT0, 0, Len(frames) + 1) /\ lastT0 \in Nat /\ 0 \in Layers
    BY DEF DepsOK, StreamTypeOK, Layers
  <2>3. f.tl = 0 \/ (f.tl >= 0 /\ f.tl > 0)
    BY <1>1 DEF Layers
  <2> QED
    BY <1>1, <2>1, <2>2, <2>3, LeansAnew, LeansPasses
<1>4. ASSUME NEW k \in {1, 2}
      PROVE  Leans(frames', lastBelow'[k], k, Len(frames') + 1)
  <2>1. lastBelow'[k] = IF k > f.tl THEN Len(frames') ELSE lastBelow[k]
    BY <1>1 DEF Encode, Extends, Layers
  <2>2. Leans(frames, lastBelow[k], k, Len(frames) + 1) /\ lastBelow[k] \in Nat /\ k \in Layers
    BY DEF DepsOK, StreamTypeOK, Layers
  <2>3. IF k > f.tl THEN f.tl < k ELSE f.tl >= k /\ f.tl > 0
    BY <1>1 DEF Layers
  <2> QED
    BY <1>1, <2>1, <2>2, <2>3, LeansAnew, LeansPasses
<1> QED
  BY <1>2, <1>3, <1>4 DEF DepsOK, Numbers

\* No keyframe lies behind what a frame leans on.
LEMMA NoKeyBetween ==
  ASSUME StreamTypeOK, DepsOK, NEW n \in 1..(Len(frames) + 1), NEW d \in Nat, NEW tl \in Layers,
         Leans(frames, d, tl, n), NEW k \in Numbers, d < k, k < n
  PROVE  ~Key(k)
<1>1. frames[k].tl > 0 /\ Founded(frames, k)
  BY DEF Leans, DepsOK, Numbers
<1> QED
  BY <1>1 DEF Founded, Key

\* The sender's side.
LEMMA EncodeForwards ==
  ASSUME StreamTypeOK, DepsOK, SkippedOK, ForwardedWhole, AskedWhenCut,
         NEW tl \in Layers, NEW top, NEW congested, NEW ch,
         Encode(tl, top, congested, ch)
  PROVE  SkippedOK' /\ ForwardedWhole' /\ AskedWhenCut'
<1> DEFINE n == Len(frames) + 1
           f == NewFrame(tl)
<1>1. Extends(frames', frames, f) /\ Len(frames) \in Nat /\ f.tl \in Layers
  BY EncodeExtends DEF Extends, Frame
<1>2. /\ Numbers' = Numbers \union {n} /\ n \notin Numbers /\ frames'[n] = f
      /\ \A m \in Numbers : frames'[m] = frames[m] /\ m < n /\ m \in Nat
  BY <1>1 DEF Numbers, Extends
<1>3. /\ f.key => missed' = missed /\ skipped' \subseteq skipped
      /\ ~f.key => \/ /\ missed' = missed \union {n} /\ skipped' = skipped \union {n}
                      /\ chainBroken' = (chainBroken \/ Breaks(f))
                   \/ missed' = missed /\ skipped' = skipped /\ chainBroken' = chainBroken
      /\ base' \union enh' \subseteq base \union enh
         \/ /\ base' \union enh' \subseteq base \union enh \union {n} /\ missed' = missed
            /\ f.key \/ f.dep \notin skipped
  <2>1. chainBroken \in BOOLEAN /\ f.key \in BOOLEAN
    BY DEF StreamTypeOK, NewFrame
  <2> DEFINE send == Send(f, top, congested)
  <2>2. /\ IF ch = "closed" THEN UNCHANGED <<skipped, chainBroken, missed>> ELSE Remember(n, f, send)
        /\ IF send /\ ch = "open" THEN HandOver(n, f) ELSE UNCHANGED <<base, enh>>
    BY DEF Encode, Offer
  <2>3. send => f.key \/ f.dep \notin skipped
    BY DEF Send
  <2>4. f.key => send
    BY DEF Send
  <2>5. CASE ch = "closed"
    BY <2>2, <2>5
  <2>6. CASE ch # "closed" /\ send
    <3>1. skipped' = (IF f.key THEN {} ELSE skipped) /\ chainBroken' = (~f.key /\ chainBroken) /\ missed' = missed
      BY <2>2, <2>6 DEF Remember
    <3>2. base' \union enh' \subseteq base \union enh \union {n}
      BY <2>2 DEF HandOver
    <3> HIDE DEF send
    <3> QED
      BY <2>1, <2>3, <2>6, <3>1, <3>2
  <2>7. CASE ch # "closed" /\ ~send
    <3>1. skipped' = skipped \union {n} /\ missed' = missed \union {n} /\ chainBroken' = (chainBroken \/ Breaks(f))
      BY <2>2, <2>7 DEF Remember
    <3> HIDE DEF send
    <3> QED
      BY <2>2, <2>4, <2>7, <3>1
  <2> QED
    BY <2>5, <2>6, <2>7
<1>4. f.key = forced /\ wanted' = wanted /\ (f.key => f.dep = n) /\ (~f.key => f.tl = tl /\ f.dep = NextDep(tl))
  BY DEF NewFrame, Encode, StreamTypeOK
<1>5. NextDep(tl) \in 0..Len(frames) /\ Leans(frames, NextDep(tl), tl, n)
  BY DEF NextDep, DepsOK, StreamTypeOK, Layers
<1>6. SkippedOK'
  <2> SUFFICES ASSUME NEW m \in missed'
               PROVE  m \in skipped' \/ \E k \in Numbers' : m < k /\ Key(k)'
    BY DEF SkippedOK
  <2>1. CASE f.key
    <3>1. m \in Numbers
      BY <1>3, <2>1 DEF StreamTypeOK
    <3> QED
      BY <1>2, <2>1, <3>1 DEF Key
  <2>2. CASE ~f.key
    <3>1. skipped \subseteq skipped' /\ ((m = n /\ n \in skipped') \/ m \in missed)
      BY <1>3, <2>2
    <3>2. \A k \in Numbers : Key(k) => k \in Numbers' /\ Key(k)'
      BY <1>2 DEF Key
    <3> QED
      BY <3>1, <3>2 DEF SkippedOK
  <2> QED
    BY <2>1, <2>2
<1>7. ForwardedWhole'
  <2> SUFFICES ASSUME NEW m \in base' \union enh' PROVE Dep(m)' \notin missed'
    BY DEF ForwardedWhole
  <2>1. CASE m \in base \union enh
    <3>1. m \in Numbers /\ Dep(m)' = Dep(m) /\ Dep(m) \notin missed
      BY <1>2, <2>1 DEF Dep, ForwardedWhole, StreamTypeOK
    <3>2. Founded(frames, m) /\ Dep(m) \in Nat /\ m \in Nat /\ m < n
      BY <1>2, <3>1, FrameTyped DEF DepsOK
    <3>3. Dep(m) # n
      BY <1>1, <3>2 DEF Founded, Leans, Dep
    <3> QED
      BY <1>3, <3>1, <3>3
  <2>2. CASE m \notin base \union enh
    <3>1. m = n /\ Dep(m)' = f.dep /\ missed' = missed /\ (f.key \/ f.dep \notin skipped)
      BY <1>2, <1>3, <2>2 DEF Dep
    <3>2. CASE f.key
      BY <1>2, <1>4, <3>1, <3>2 DEF StreamTypeOK
    <3>3. CASE ~f.key
      <4> SUFFICES ASSUME f.dep \in missed PROVE FALSE
        BY <3>1
      <4>1. f.dep = NextDep(tl) /\ NextDep(tl) \in Nat
        BY <1>4, <1>5, <3>3
      <4>2. PICK k \in Numbers : f.dep < k /\ Key(k)
        BY <3>1, <3>3 DEF SkippedOK
      <4>3. k < n /\ n \in 1..(Len(frames) + 1)
        BY <1>1 DEF Numbers
      <4> QED
        BY <1>5, <4>1, <4>2, <4>3, NoKeyBetween
    <3> QED
      BY <3>2, <3>3
  <2> QED
    BY <2>1, <2>2
<1>8. AskedWhenCut'
  <2> SUFFICES ASSUME lastT0' \in skipped' PROVE chainBroken' \/ wanted'
    BY DEF AskedWhenCut
  <2>1. ~f.key
    <3> SUFFICES ASSUME f.key PROVE FALSE
      OBVIOUS
    <3>1. lastT0' = n /\ n \notin skipped
      BY <1>2 DEF Encode, NewFrame, StreamTypeOK
    <3> QED
      BY <1>3, <3>1
  <2>2. lastT0 \in skipped => chainBroken \/ wanted
    BY <2>1, <1>4 DEF AskedWhenCut
  <2>3. chainBroken => chainBroken'
    BY <1>3, <2>1
  <2>4. CASE tl = 0
    <3>1. lastT0' = n /\ n \notin skipped
      BY <1>2, <1>4, <2>1, <2>4 DEF Encode, StreamTypeOK
    <3>2. chainBroken' = (chainBroken \/ Breaks(f))
      BY <1>3, <2>1, <3>1
    <3>3. Breaks(f) \/ lastT0 \in skipped
      BY <1>4, <2>1, <2>4 DEF Breaks, NextDep
    <3> QED
      BY <1>4, <2>2, <2>3, <3>2, <3>3
  <2>5. CASE tl # 0
    <3>1. lastT0' = lastT0 /\ lastT0 # n
      BY <1>1, <1>4, <2>1, <2>5 DEF Encode, StreamTypeOK
    <3>2. lastT0 \in skipped
      BY <1>3, <2>1, <3>1
    <3> QED
      BY <1>4, <2>2, <2>3, <3>2
  <2> QED
    BY <2>4, <2>5
<1> QED
  BY <1>6, <1>7, <1>8

\* The receiver's side: a new frame changes nothing of what was needed before.
LEMMA EncodeKeeps ==
  ASSUME StreamTypeOK, OrderOK, ChainOK, NEW tl \in Layers, NEW top, NEW congested, NEW ch,
         Encode(tl, top, congested, ch)
  PROVE  OrderOK' /\ ChainOK'
<1>1. /\ \A m \in Numbers : m \in Numbers' /\ frames'[m] = frames[m]
      /\ Len(frames) \in Nat /\ Len(frames') = Len(frames) + 1
  BY EncodeExtends DEF Extends, Numbers
<1>2. UNCHANGED <<complete, delivered, lastDelivered>>
  BY DEF Encode, receiver
<1>3. OrderOK'
  BY <1>1, <1>2 DEF OrderOK, Key
<1>4. ASSUME NEW g \in delivered, NEW s \in Numbers', Needed(s, g)' PROVE s \in delivered
  <2>1. g \in Numbers /\ s \in Numbers
    BY <1>1, <1>4 DEF StreamTypeOK, Needed, Numbers
  <2>2. Needed(s, g)
    BY <1>1, <1>4, <2>1 DEF Needed, Layer
  <2> QED
    BY <2>1, <2>2 DEF ChainOK
<1> QED
  BY <1>2, <1>3, <1>4 DEF ChainOK

-----------------------------------------------------------------------------
(* A frame is delivered.                                                     *)

LEMMA DeliverKeeps ==
  ASSUME StreamTypeOK, DepsOK, OrderOK, ChainOK, NEW n \in Numbers, Deliver(n)
  PROVE  OrderOK' /\ ChainOK'
<1>1. /\ delivered' = delivered \union {n} /\ lastDelivered' = n /\ frames' = frames
      /\ complete' = {m \in complete : m > n} /\ n \in complete
  BY DEF Deliver, Next1, StreamTypeOK, encoder
<1>2. /\ Founded(frames, n) /\ Dep(n) \in Nat /\ Layer(n) \in Layers /\ n \in Nat /\ n > 0
      /\ frames[n].key \in BOOLEAN
  BY FrameTyped DEF DepsOK
<1>3. Numbers' = Numbers /\ n <= Len(frames) /\ Len(frames) \in Nat
  BY <1>1 DEF Numbers, StreamTypeOK
<1>4. lastDelivered < n /\ lastDelivered \in Nat
  BY <1>1 DEF OrderOK, StreamTypeOK
<1>5. ASSUME \E k \in Numbers : k <= n /\ Key(k)
      PROVE  OrderOK'
  <2>1. delivered' \subseteq 1..lastDelivered'
    <3>1. \A m \in delivered : m \in Nat /\ 1 <= m /\ m <= lastDelivered
      BY <1>4 DEF OrderOK
    <3>2. \A m \in delivered : m <= n
      BY <1>2, <1>4, <3>1
    <3> QED
      BY <1>1, <1>2, <3>1, <3>2
  <2>2. \A m \in complete' : lastDelivered' < m
    BY <1>1, <1>2, <1>3 DEF StreamTypeOK, Numbers
  <2>3. \E k \in Numbers' : k <= lastDelivered' /\ Key(k)'
    BY <1>1, <1>3, <1>5 DEF Key
  <2> QED
    BY <1>1, <2>1, <2>2, <2>3 DEF OrderOK
<1>6. ASSUME \A s \in Numbers : Needed(s, n) => s \in delivered
      PROVE  ChainOK'
  <2> SUFFICES ASSUME NEW g \in delivered', NEW s \in Numbers', Needed(s, g)'
               PROVE  s \in delivered
    BY <1>1 DEF ChainOK
  <2>1. Needed(s, g) /\ s \in Numbers
    BY <1>1, <1>3 DEF Needed, Layer
  <2> QED
    BY <1>1, <1>6, <2>1 DEF ChainOK
<1>7. CASE Key(n)
  <2>1. Layer(n) = 0
    BY <1>2, <1>7 DEF Founded, Key, Layer
  <2>2. ASSUME NEW s \in Numbers, Needed(s, n) PROVE FALSE
    <3>1. Layer(n) > Layer(s) /\ Layer(s) \in Nat
      BY <2>2, <1>2, FrameTyped DEF Needed
    <3> QED
      BY <2>1, <3>1
  <2> QED
    BY <1>2, <1>5, <1>6, <1>7, <2>2
<1>8. CASE ~Key(n)
  <2>1. Leans(frames, Dep(n), Layer(n), n) /\ Dep(n) < n
    BY <1>2, <1>8 DEF Founded, Key, Dep, Layer, Leans
  <2>2. Dep(n) \in delivered
    BY <1>2, <2>1 DEF Deliver, Decodable
  <2>3. lastDelivered > 0
    <3>1. Dep(n) \in 1..lastDelivered
      BY <2>2 DEF OrderOK
    <3> QED
      BY <3>1, <1>4
  <2>4. \E k \in Numbers : k <= n /\ Key(k)
    <3>1. PICK k \in Numbers : k <= lastDelivered /\ Key(k)
      BY <2>3 DEF OrderOK
    <3>2. k <= n
      BY <3>1, <1>2, <1>4, FrameTyped
    <3> QED
      BY <3>1, <3>2
  <2>5. ASSUME NEW s \in Numbers, Needed(s, n) PROVE s \in delivered
    <3>1. s < n /\ Layer(n) > Layer(s) /\ Layer(n) \in Nat /\ Layer(s) \in Nat /\ s \in Nat
      BY <2>5, <1>2, FrameTyped DEF Needed
    <3>2. ~(Dep(n) < s)
      <4>1. Dep(n) < s => Layer(s) >= Layer(n)
        BY <2>1, <3>1 DEF Leans, Numbers, Layer
      <4> QED
        BY <3>1, <4>1
    <3>3. CASE s = Dep(n)
      BY <2>2, <3>3
    <3>4. CASE s < Dep(n)
      <4>1. \A m \in Numbers : m <= Dep(n) => m <= n
        BY <1>2, <2>1, FrameTyped
      <4>2. Needed(s, Dep(n))
        BY <2>5, <3>4, <4>1 DEF Needed
      <4> QED
        BY <2>2, <4>2 DEF ChainOK
    <3> QED
      BY <1>2, <3>1, <3>2, <3>3, <3>4
  <2> QED
    BY <1>5, <1>6, <2>4, <2>5
<1> QED
  BY <1>7, <1>8

-----------------------------------------------------------------------------
(* The invariant.                                                            *)

\* Steps that touch neither the stream nor what was delivered.
LEMMA QuietStep ==
  ASSUME StreamTypeOK, OrderOK, ChainOK, DepsOK, SkippedOK, ForwardedWhole, AskedWhenCut,
         UNCHANGED <<frames, lastT0, lastBelow, skipped, missed, delivered, lastDelivered>>,
         base' \union enh' \subseteq base \union enh,
         \A m \in complete' : m \in complete \/ lastDelivered < m,
         chainBroken \/ wanted \/ forced => chainBroken' \/ wanted' \/ forced'
  PROVE  OrderOK' /\ ChainOK' /\ DepsOK' /\ SkippedOK' /\ ForwardedWhole' /\ AskedWhenCut'
<1>1. Numbers' = Numbers
  BY DEF Numbers
<1>2. OrderOK'
  BY <1>1 DEF OrderOK, Key
<1>3. ChainOK' /\ DepsOK'
  BY <1>1 DEF ChainOK, Needed, Layer, DepsOK
<1>4. SkippedOK' /\ ForwardedWhole' /\ AskedWhenCut'
  BY <1>1 DEF SkippedOK, Key, ForwardedWhole, Dep, AskedWhenCut
<1> QED
  BY <1>2, <1>3, <1>4

LEMMA ScanKeeps ==
  ASSUME StreamInv, NEW n \in Numbers, Scan(n)
  PROVE  OrderOK' /\ ChainOK' /\ DepsOK' /\ SkippedOK' /\ ForwardedWhole' /\ AskedWhenCut'
<1> USE DEF StreamInv
<1>1. CASE Deliver(n)
  <2>1. UNCHANGED <<frames, lastT0, lastBelow, wanted, forced, skipped, chainBroken, missed, base, enh>>
    BY <1>1 DEF Deliver, encoder, link
  <2>2. Numbers' = Numbers
    BY <2>1 DEF Numbers
  <2>3. DepsOK' /\ SkippedOK' /\ ForwardedWhole' /\ AskedWhenCut'
    BY <2>1, <2>2 DEF DepsOK, SkippedOK, Key, ForwardedWhole, Dep, AskedWhenCut
  <2> QED
    BY <1>1, <2>3, DeliverKeeps
<1>2. CASE Discard(n) \/ GiveUp(n) \/ Wait(n)
  <2>1. UNCHANGED <<frames, lastT0, lastBelow, forced, skipped, chainBroken, missed, base, enh, delivered, lastDelivered>>
    BY <1>2 DEF Discard, GiveUp, Wait, encoder, link
  <2>2. complete' \subseteq complete
    BY <1>2 DEF Discard, GiveUp, Wait, Drop
  <2>3. wanted' = wanted \/ wanted' = TRUE
    BY <1>2 DEF Discard, GiveUp, Wait, Ask, encoder
  <2> QED
    BY <2>1, <2>2, <2>3, QuietStep
<1> QED
  BY <1>1, <1>2 DEF Scan

LEMMA InvInit == StreamInit => StreamInv
<1> SUFFICES ASSUME StreamInit PROVE StreamInv
  OBVIOUS
<1>1. /\ frames = <<>> /\ Len(frames) = 0 /\ Numbers = {} /\ lastT0 = 0 /\ delivered = {}
      /\ lastDelivered = 0 /\ complete = {} /\ missed = {} /\ skipped = {} /\ base = {} /\ enh = {}
      /\ lastBelow[1] = 0 /\ lastBelow[2] = 0
  BY DEF StreamInit, Numbers, Layers
<1>2. DepsOK
  BY <1>1 DEF DepsOK, Leans
<1>3. OrderOK /\ ChainOK /\ SkippedOK /\ ForwardedWhole /\ AskedWhenCut
  BY <1>1 DEF OrderOK, ChainOK, SkippedOK, ForwardedWhole, AskedWhenCut
<1> QED
  BY <1>2, <1>3, InitTyped DEF StreamInv

LEMMA InvStep == StreamInv /\ [StreamNext]_streamVars => StreamInv'
<1> SUFFICES ASSUME StreamInv, [StreamNext]_streamVars PROVE StreamInv'
  OBVIOUS
<1>1. StreamTypeOK'
  BY TypedStep DEF StreamInv
<1>2. CASE \E tl \in Layers, ceiling \in Ceilings, congested \in BOOLEAN, ch \in Channels :
              Encode(tl, Top(ceiling), congested, ch)
  BY <1>1, <1>2, EncodeDeps, EncodeForwards, EncodeKeeps DEF StreamInv
<1>3. CASE \E n \in Numbers : Scan(n)
  BY <1>1, <1>3, ScanKeeps DEF StreamInv
<1>4. CASE SenderAlone \/ UNCHANGED streamVars
  <2> USE DEF SenderAlone, Adapt, TakeBroken, RequestKeyframe, SetBitrate
  <2>1. UNCHANGED <<frames, lastT0, lastBelow, skipped, missed, delivered, lastDelivered, complete, base, enh>>
    BY <1>4 DEF streamVars, encoder, link, receiver
  <2>2. chainBroken \/ wanted \/ forced => chainBroken' \/ wanted' \/ forced'
    BY <1>4 DEF streamVars, encoder, link
  <2> QED
    BY <1>1, <2>1, <2>2, QuietStep DEF StreamInv
<1>5. CASE \E n \in Numbers : ArriveBase(n) \/ ArriveEnh(n) \/ Late(n)
  <2>1. UNCHANGED <<frames, lastT0, lastBelow, wanted, forced, skipped, chainBroken, missed, delivered, lastDelivered>>
    BY <1>5 DEF ArriveBase, ArriveEnh, Late, Push, encoder, link
  <2>2. \A m \in complete' : m \in complete \/ lastDelivered < m
    BY <1>5 DEF ArriveBase, ArriveEnh, Late, Push, StreamInv, StreamTypeOK, Numbers
  <2>3. base' \union enh' \subseteq base \union enh
    BY <1>5 DEF ArriveBase, ArriveEnh, Late
  <2> QED
    BY <1>1, <2>1, <2>2, <2>3, QuietStep DEF StreamInv
<1> QED
  BY <1>2, <1>3, <1>4, <1>5 DEF StreamNext, SenderAlone

\* The inductive invariant of the stream: what LayerDeps names, what the link
\* remembers and what the decoder has fit together.
THEOREM StreamCorrect == StreamSpec => []StreamInv
<1> QED
  BY InvInit, InvStep, PTL DEF StreamSpec

\* Every variable keeps its type for streams of any length: in particular the
\* frames a pass of drain still has to look at are always there.
THEOREM StreamTypeCorrect == StreamSpec => []StreamTypeOK
<1>1. StreamInv => StreamTypeOK
  BY DEF StreamInv
<1> QED
  BY <1>1, StreamCorrect, PTL

\* What ChildLink.decide decided against is no reference of a frame that it hands
\* over, whatever layers are shed, however often the channel is full, and whatever
\* frames find it closed or closing, of which nothing is remembered.
THEOREM ForwardedWholeHolds == StreamSpec => []ForwardedWhole
<1>1. StreamInv => ForwardedWhole
  BY DEF StreamInv
<1> QED
  BY <1>1, StreamCorrect, PTL

\* A child whose base layer was cut always has a keyframe coming or asked for.
THEOREM AskedWhenCutHolds == StreamSpec => []AskedWhenCut
<1>1. StreamInv => AskedWhenCut
  BY DEF StreamInv
<1> QED
  BY <1>1, StreamCorrect, PTL

LEMMA NothingNeededLost == StreamInv => NothingNeededSkipped
<1> SUFFICES ASSUME StreamInv, NEW n \in Numbers, lastDelivered < n, Dep(n) < lastDelivered
             PROVE  Dep(n) \in delivered
  BY DEF NothingNeededSkipped
<1> USE DEF StreamInv
<1>1. /\ Founded(frames, n) /\ Dep(n) \in Nat /\ Layer(n) \in Layers /\ Layer(n) \in Nat
      /\ n \in 1..(Len(frames) + 1) /\ lastDelivered \in Nat /\ n \in Nat
  BY FrameTyped DEF DepsOK, StreamTypeOK, Numbers
<1>2. lastDelivered > 0 /\ lastDelivered \in delivered /\ lastDelivered \in Numbers
  BY <1>1 DEF OrderOK, StreamTypeOK
<1>3. ~Key(n) /\ Leans(frames, Dep(n), Layer(n), n)
  BY <1>1 DEF Founded, Key, Dep, Layer
<1>4. Dep(n) # 0
  <2> SUFFICES ASSUME Dep(n) = 0 PROVE FALSE
    OBVIOUS
  <2>1. PICK k \in Numbers : k <= lastDelivered /\ Key(k)
    BY <1>2 DEF OrderOK
  <2>2. 0 < k /\ k < n
    BY <2>1, <1>1, FrameTyped
  <2> QED
    BY <1>1, <1>3, <2>1, <2>2, NoKeyBetween
<1>5. Dep(n) \in Numbers
  BY <1>1, <1>2, <1>4 DEF Numbers
<1>6. Needed(Dep(n), lastDelivered)
  <2> SUFFICES ASSUME NEW m \in Numbers, Dep(n) < m, m <= lastDelivered
               PROVE  Layer(m) > Layer(Dep(n))
    BY DEF Needed
  <2>1. /\ m < n /\ Layer(m) \in Nat /\ Layer(Dep(n)) \in Nat
    BY <1>1, <1>5, FrameTyped
  <2>2. Layer(m) >= Layer(n) /\ Layer(m) > 0
    BY <1>3, <2>1 DEF Leans, Numbers, Layer
  <2>3. Layer(Dep(n)) < Layer(n) \/ Layer(Dep(n)) = 0
    BY <1>1, <1>3, <1>4 DEF Leans, Layer
  <2> QED
    BY <1>1, <2>1, <2>2, <2>3
<1> QED
  BY <1>2, <1>5, <1>6 DEF ChainOK

\* Releasing frames as soon as they are decodable never skips one that a later
\* frame needs, for any order of arrival, any losses and any pattern of layers.
THEOREM NothingNeededSkippedHolds == StreamSpec => []NothingNeededSkipped
<1> QED
  BY StreamCorrect, NothingNeededLost, PTL

=============================================================================

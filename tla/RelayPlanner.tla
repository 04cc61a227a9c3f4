---------------------------- MODULE RelayPlanner ----------------------------
(***************************************************************************)
(* planTree of client/src/lib/relay/planner.ts: the broadcaster computes    *)
(* who feeds whom.  One turn of its loop is one step; a finished plan is     *)
(* planned again from the same reports, as hub.ts does.                      *)
(*                                                                           *)
(* Delays are in half milliseconds, since the code halves round trips.       *)
(***************************************************************************)
EXTENDS Integers, FiniteSets

CONSTANTS Viewers,      \* their ids: the code compares them with <
          Bitrate,      \* of the stream, kbps
          DefaultRtt, HopMs, StickyMs, MaxDepth,
          Inputs        \* what planTree may be called with

Root == 0
None == -1
Unknown == -1           \* a round trip nobody reported
Nodes == Viewers \union {Root}

\* noRelay and the capacities of replan; forbidden holds pairs parent, child.
Input == [cap : [Nodes -> Nat], rtt : [Viewers -> [Nodes -> Nat \union {Unknown}]],
          busy : BOOLEAN, noRelay : SUBSET Viewers, forbidden : SUBSET (Nodes \X Viewers),
          prev : [Viewers -> Nodes \union {None}]]

ASSUME PlannerAssumption ==
  /\ IsFiniteSet(Viewers) /\ Viewers \subseteq Nat \ {Root}
  /\ {DefaultRtt, HopMs, StickyMs} \subseteq Nat
  /\ Bitrate \in Nat \ {0} /\ MaxDepth \in Nat \ {0}
  /\ Inputs \subseteq Input

VARIABLES input,
          waiting,      \* viewers of the sorted list the loop has not reached
          turn,         \* turns of the loop made
          parent, depth, delay, used, degraded,   \* the plan so far
          at,           \* at[n]: the turn that entered n (insertion order of the maps)
          last          \* parent of the plan before this one

plan == <<parent, depth, delay, used, degraded, at>>
plannerVars == <<input, waiting, turn, plan, last>>

Larger(a, b) == IF a > b THEN a ELSE b

SlotsFor(cap) == Larger(0, (4 * cap) \div (5 * Bitrate))     \* headroom 0.8

\* A busy broadcaster feeds one viewer (rootMaxSlots), every broadcaster at least one.
Slots(n) ==
  CASE n = Root -> IF input.busy THEN 1 ELSE Larger(1, SlotsFor(input.cap[Root]))
    [] n \in input.noRelay -> 0
    [] OTHER -> SlotsFor(input.cap[n])

Report(a, b) == IF a \in Viewers THEN input.rtt[a][b] ELSE Unknown

\* a's own measurement of the way to b comes first.
Rtt(a, b) ==
  IF Report(a, b) # Unknown THEN Report(a, b)
  ELSE IF Report(b, a) # Unknown THEN Report(b, a)
  ELSE DefaultRtt

\* Mutant of Before: the nearest viewers first.
BeforeByRtt(a, b) ==
  \/ Rtt(Root, a) < Rtt(Root, b)
  \/ Rtt(Root, a) = Rtt(Root, b) /\ a < b

\* The order of the sorted list: most slots, then nearest to the root, then id.
Before(a, b) ==
  \/ Slots(a) > Slots(b)
  \/ Slots(a) = Slots(b) /\ Rtt(Root, a) < Rtt(Root, b)
  \/ Slots(a) = Slots(b) /\ Rtt(Root, a) = Rtt(Root, b) /\ a < b

Placed == {Root} \union {v \in Viewers : parent[v] # None}

-----------------------------------------------------------------------------
(* The choice of a parent.                                                   *)

Usable(p) == Slots(p) > 0 /\ depth[p] < MaxDepth
Banned(p, v) == <<p, v>> \in input.forbidden

\* Mutant of Allowed: bans are ignored.
AllowedBanned(v) == {p \in Placed : depth[p] < MaxDepth}

\* Mutant of Allowed: the depth is not looked at.
AllowedDeep(v) ==
  LET allBanned == \A p \in Placed : Usable(p) => Banned(p, v)
  IN {p \in Placed : allBanned \/ ~Banned(p, v)}

\* A ban counts unless every usable parent is banned.
Allowed(v) ==
  LET allBanned == \A p \in Placed : Usable(p) => Banned(p, v)
  IN {p \in Placed : depth[p] < MaxDepth /\ (allBanned \/ ~Banned(p, v))}

Spare(v) == {p \in Allowed(v) : used[p] < Slots(p)}
Full(v) == {p \in Allowed(v) : 0 < Slots(p) /\ Slots(p) <= used[p]}

PathDelay(p, v) == delay[p] + Rtt(p, v) + 2 * HopMs

\* Mutant of Cost: the current parent is made dearer.
CostUnsticky(p, v) == PathDelay(p, v) + (IF input.prev[v] = p THEN 2 * StickyMs ELSE 0)

Cost(p, v) == PathDelay(p, v) - (IF input.prev[v] = p THEN 2 * StickyMs ELSE 0)

\* Strictly smaller wins, so among equals the one entered first.
Cheaper(p, q, v) ==
  Cost(p, v) < Cost(q, v) \/ (Cost(p, v) = Cost(q, v) /\ at[p] <= at[q])

\* Load with one more child relative to the slots, compared without dividing.
Load(p, q) == (used[p] + 1) * Slots(q)
Lighter(p, q, v) == Load(p, q) < Load(q, p) \/ (Load(p, q) = Load(q, p) /\ Cheaper(p, q, v))

Best(v) == {p \in Spare(v) : \A q \in Spare(v) : Cheaper(p, q, v)}
Fallback(v) == {p \in Full(v) : \A q \in Full(v) : Lighter(p, q, v)}
Choice(v) == IF Spare(v) # {} THEN Best(v) ELSE Fallback(v)

-----------------------------------------------------------------------------
NoPlan ==
  /\ waiting = Viewers /\ turn = 0
  /\ parent = [v \in Viewers |-> None] /\ degraded = {}
  /\ depth = [n \in Nodes |-> 0] /\ delay = [n \in Nodes |-> 0]
  /\ used = [n \in Nodes |-> 0] /\ at = [n \in Nodes |-> 0]

PlannerInit == input \in Inputs /\ NoPlan /\ last = parent

Feed(p, v) ==
  /\ parent' = [parent EXCEPT ![v] = p]
  /\ depth' = [depth EXCEPT ![v] = depth[p] + 1]
  /\ delay' = [delay EXCEPT ![v] = PathDelay(p, v)]
  /\ used' = [used EXCEPT ![p] = @ + 1]
  /\ at' = [at EXCEPT ![v] = turn + 1]

\* One turn of the loop: the first of the viewers left gets a parent, unless
\* the depth cap leaves none.
Attach(v) ==
  /\ \A w \in waiting \ {v} : Before(v, w)
  /\ waiting' = waiting \ {v} /\ turn' = turn + 1
  /\ IF Spare(v) \union Full(v) = {} THEN UNCHANGED plan
     ELSE /\ \E p \in Choice(v) : Feed(p, v)
          /\ degraded' = IF Spare(v) # {} THEN degraded ELSE degraded \union {v}
  /\ UNCHANGED <<input, last>>

\* replan of hub.ts with nothing new: the parents of this plan are the previous ones.
Replan ==
  /\ waiting = {}
  /\ input' = [input EXCEPT !.prev = parent]
  /\ last' = parent
  /\ waiting' = Viewers /\ turn' = 0
  /\ parent' = [v \in Viewers |-> None] /\ degraded' = {}
  /\ depth' = [n \in Nodes |-> 0] /\ delay' = [n \in Nodes |-> 0]
  /\ used' = [n \in Nodes |-> 0] /\ at' = [n \in Nodes |-> 0]

PlannerNext == Replan \/ \E v \in waiting : Attach(v)

PlannerSpec == PlannerInit /\ [][PlannerNext]_plannerVars

-----------------------------------------------------------------------------
(* Properties.                                                               *)

PlannerTypeOK ==
  /\ input \in Input /\ waiting \subseteq Viewers /\ turn \in Nat
  /\ parent \in [Viewers -> Nodes \union {None}] /\ last \in [Viewers -> Nodes \union {None}]
  /\ depth \in [Nodes -> Nat] /\ delay \in [Nodes -> Nat]
  /\ used \in [Nodes -> Nat] /\ at \in [Nodes -> Nat] /\ degraded \subseteq Viewers

\* The plan is a tree: the loop reached every viewer it fed, and every parent
\* was entered before its child, one level above it, within maxDepth.
TreeOK ==
  \A v \in Viewers \ waiting :
    /\ parent[v] # None
    /\ parent[v] \in Placed /\ at[parent[v]] < at[v]
    /\ depth[v] = depth[parent[v]] + 1 /\ depth[v] <= MaxDepth

\* Nodes that cannot relay are never parents, and a parent has more children
\* than slots only if one of them is marked degraded.
WithinSlots ==
  \A p \in Nodes :
    LET kids == {v \in Viewers : parent[v] = p}
    IN kids # {} => /\ Slots(p) > 0
                    /\ Cardinality(kids \ degraded) <= Slots(p)

\* A viewer is degraded only when every parent it might have had was full.
DegradedWhenFull ==
  \A v \in degraded : \A p \in Placed :
    at[p] < at[v] /\ Usable(p) /\ ~Banned(p, v) => used[p] >= Slots(p)

\* A forbidden edge is used only by a viewer for whom all edges were forbidden.
BannedLastResort ==
  \A v \in Viewers : parent[v] # None /\ Banned(parent[v], v) =>
    \A p \in Placed : at[p] < at[v] /\ Usable(p) => Banned(p, v)

\* Relays go first, so if the slots suffice for everybody and neither a ban nor
\* the depth stands in the way, nobody is degraded.
RoomForAll ==
  LET slots == {s \in Nodes \X (1..Cardinality(Viewers)) : s[2] <= Slots(s[1])}
  IN input.forbidden = {} /\ (\A p \in Placed : Slots(p) > 0 => Usable(p))
       /\ Cardinality(slots) >= Cardinality(Viewers) => degraded = {}

\* Planning again from the same reports moves nobody: the tree does not flap.
Stable ==
  (\E v \in Viewers : last[v] # None) =>
    \A v \in Viewers \ waiting : parent[v] = last[v]
=============================================================================

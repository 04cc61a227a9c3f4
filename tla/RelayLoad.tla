------------------------------ MODULE RelayLoad ------------------------------
(***************************************************************************)
(* What the broadcaster of a relayed stream believes its viewers can carry,  *)
(* second by second: the evidence half of client/src/lib/relay/hub.ts        *)
(* (reports, the check of every second, estimates that are cut and grow      *)
(* back, viewers that are moved or kept leaves) and the busy signal of       *)
(* load.ts.                                                                  *)
(*                                                                           *)
(* A report takes less than a second, or does not come at all.  Capacities   *)
(* are whole numbers in the unit of Bitrate.  Everybody has watched for a    *)
(* while: who comes and goes, and how places in the tree reach the viewers,  *)
(* is RelayTree.  A re-plan takes any tree that planTree may return by the   *)
(* properties of RelayPlanner (TreeOK, WithinSlots, BannedLastResort,        *)
(* RoomForAll).  Left out: layers asked for by hidden or starved viewers.    *)
(***************************************************************************)
EXTENDS Integers, FiniteSets

CONSTANTS Viewers, Root, None,
          Reasons,          \* why a machine may be busy
          Full,             \* upload capacity each node declares when it is not
          Bitrate,
          Calm,             \* seconds: CALM_MS
          Silent, Dead,     \*   3 and 5 without a report
          Settle, CutGap,   \*   SETTLE_MS, and 3 after a cut
          Quiet, Regrow,    \*   10 and 5 of recover
          MaxDoublings,     \*   4
          Judge, Again,     \*   3 and 4 of onReport
          MoveGap, BanFor, WeakFor, OrphanBan,  \* 30, 60, 120 and 15
          MaxUpsets         \* bound: things that turn bad

Nodes == Viewers \union {Root}
Edges == Nodes \X Viewers

ASSUME ConstantsAssumption ==
  /\ IsFiniteSet(Viewers) /\ Root \notin Viewers /\ None \notin Nodes
  /\ Full \in [Nodes -> Nat \ {0}] /\ Bitrate \in Nat \ {0}
  /\ {Calm, Silent, Dead, Settle, CutGap, Quiet, Regrow, MaxDoublings} \subseteq Nat
  /\ {Judge, Again, MoveGap, BanFor, WeakFor, OrphanBan, MaxUpsets} \subseteq Nat
  /\ MaxDoublings <= 4 /\ Silent < Dead /\ Regrow <= Quiet /\ Again < MoveGap /\ OrphanBan <= BanFor

VARIABLES signals,      \* LoadMonitor.active of each node
          calm,         \* seconds since a reason was last seen, at most Calm
          cap,          \* CapState of every node; times as seconds passed
          view,         \* ViewerState; times as seconds passed or left
          ban,          \* out.forbidden: seconds an edge stays banned
          plan,         \* out.plan.parent
          wanted,       \* out.replanWanted
          planned,      \* a re-plan was made in this second
          due,          \* viewers whose report of this second is on its way
          uplink,       \* the queue on a node's uplink: the median that is measured
          bad,          \* edges whose path loses layers
          mute,         \* viewers whose reports do not arrive
          upsets        \* the bound used up

machine == <<signals, calm>>
root == <<cap, view, ban, plan, wanted, planned>>
world == <<uplink, bad, mute>>
vars == <<machine, root, due, world, upsets>>

\* What OwdTracker makes of the pings that cross an uplink, in terms of the limits:
\* below a quarter of both, above the one for a busy broadcaster, above both.
Queues == {"clear", "slow", "full"}

Larger(a, b) == IF a > b THEN a ELSE b
Smaller(a, b) == IF a < b THEN a ELSE b
Up(x, most) == Smaller(x + 1, most)
Down(x) == Larger(x - 1, 0)

\* The quiet period after so many cuts more than one.
Doubled(n) == Quiet * <<1, 2, 4, 8, 16>>[n + 1]
QuietMost == Doubled(MaxDoublings)
Long == MoveGap + 1     \* never moved, or longer ago than counts

CapState == [declared : Nat, est : Nat, cuts : 0..MaxDoublings + 1,
             since : 0..QuietMost, settle : 0..Settle]
ViewerState == [quiet : 0..Dead, poor : -1..Judge, moved : 0..Long, weak : 0..WeakFor]

TypeOK ==
  /\ signals \in [Nodes -> SUBSET Reasons] /\ calm \in [Nodes -> [Reasons -> 0..Calm]]
  /\ cap \in [Nodes -> CapState] /\ view \in [Viewers -> ViewerState]
  /\ ban \in [Edges -> 0..BanFor] /\ plan \in [Viewers -> Nodes \union {None}]
  /\ {wanted, planned} \subseteq BOOLEAN /\ due \subseteq Viewers
  /\ uplink \in [Nodes -> Queues] /\ bad \subseteq Edges
  /\ mute \subseteq Viewers /\ upsets \in 0..MaxUpsets

Init ==
  /\ signals = [n \in Nodes |-> {}] /\ calm = [n \in Nodes |-> [r \in Reasons |-> Calm]]
  /\ cap = [n \in Nodes |-> [declared |-> Full[n], est |-> Full[n], cuts |-> 0,
                             since |-> QuietMost, settle |-> 0]]
  /\ view = [v \in Viewers |-> [quiet |-> 0, poor |-> -1, moved |-> Long, weak |-> 0]]
  /\ ban = [e \in Edges |-> 0] /\ plan = [v \in Viewers |-> Root]
  /\ wanted = TRUE /\ planned = FALSE /\ due = Viewers
  /\ uplink = [n \in Nodes |-> "clear"] /\ bad = {} /\ mute = {} /\ upsets = 0

-----------------------------------------------------------------------------
(* Load of a machine.                                                        *)

\* A reason stays in effect until it has been quiet for CALM_MS.
Busy(n) == \E r \in Reasons : r \in signals[n] \/ calm[n][r] < Calm

\* The relay capacity a node offers (offeredKbps).
Offer(n) == IF Busy(n) THEN 0 ELSE Full[n]

-----------------------------------------------------------------------------
(* The plan.                                                                 *)

Kids(f, n) == {v \in Viewers : f[v] = n}
SlotsFor(c) == (4 * c) \div (5 * Bitrate)
Live(vw) == {v \in Viewers : vw[v].quiet < Dead}

\* A busy broadcaster feeds one viewer; the weak and the silent feed nobody.
Slots(c, vw, busy, n) ==
  IF n = Root THEN IF busy THEN 1 ELSE Larger(1, SlotsFor(c[Root].est))
  ELSE IF vw[n].weak > 0 \/ vw[n].quiet > Silent THEN 0
  ELSE SlotsFor(c[n].est)

\* The trees over the live viewers.
Shapes == [live \in SUBSET Viewers |->
  {f \in [Viewers -> Nodes \union {None}] :
     /\ \A v \in Viewers : f[v] \in IF v \in live THEN live \union {Root} ELSE {None}
     /\ \E d \in [live -> 1..Cardinality(live)] :
          \A v \in live : f[v] \in live => d[f[v]] < d[v]}]

\* Those that planTree may return: no parent without a slot, a banned edge only
\* if the parents placed before are banned too, and nobody one too many if there
\* is room.
Trees(c, vw, bans, busy) ==
  LET slots == [n \in Nodes |-> Slots(c, vw, busy, n)]
      banned == {e \in Edges : bans[e] > 0}
      fits(f) == \A n \in Nodes : Cardinality(Kids(f, n)) <= slots[n]
      able == {f \in Shapes[Live(vw)] : \A v \in Live(vw) :
                 /\ slots[f[v]] > 0
                 /\ <<f[v], v>> \in banned =>
                      \A p \in Nodes : p = Root \/ slots[p] > slots[v] => <<p, v>> \in banned}
  IN IF banned = {} /\ (\E f \in able : fits(f)) THEN {f \in able : fits(f)} ELSE able

\* Whoever got other children is not judged until their keyframes have drained.
Resettled(c, old, new) ==
  [n \in Nodes |-> IF Kids(new, n) = Kids(old, n) THEN c[n] ELSE [c[n] EXCEPT !.settle = Settle]]

-----------------------------------------------------------------------------
(* Evidence.                                                                 *)

\* uplinkQueue: the median of at least two that measure it, the broadcaster
\* itself and the viewers heard of lately.
Measured(n) ==
  LET others == {v \in Viewers \ {n} : view[v].quiet <= Silent}
  IN Cardinality(others) + (IF n = Root THEN 0 ELSE 1) >= 2

\* The limit is stricter for a broadcaster that is busy.
Over(n) == Measured(n) /\ (uplink[n] = "full" \/ (n = Root /\ Busy(Root) /\ uplink[n] = "slow"))
Under(n) == Measured(n) => uplink[n] = "clear"

\* A viewer gets less than all layers if an edge on its way does.
Low(v) ==
  LET poorly(w) == <<plan[w], w>> \in bad \/ uplink[plan[w]] # "clear"
      low[w \in Viewers] == plan[w] # None /\ (poorly(w) \/ (plan[w] \in Viewers /\ low[plan[w]]))
  IN low[v]

QuietOf(c) == Doubled(Smaller(MaxDoublings, Larger(0, c.cuts - 1)))

\* Mutant of Recover: the last step is not made, as it is less than a stream.
RecoverWhole(c) ==
  IF c.est + Bitrate > c.declared \/ c.since < QuietOf(c) THEN c
  ELSE [c EXCEPT !.est = @ + Bitrate, !.since = QuietOf(c) - Regrow]

\* recover: after a quiet period one stream's worth more, and again every 5 s.
Recover(c) ==
  IF c.est >= c.declared \/ c.since < QuietOf(c) THEN c
  ELSE [c EXCEPT !.est = Smaller(c.declared, @ + Bitrate), !.since = QuietOf(c) - Regrow]

Cut(c, to) == [c EXCEPT !.est = to, !.cuts = Up(@, MaxDoublings + 1), !.since = 0]

\* What a cut may leave: what it sent, at least half; nothing is cut from a node
\* that sends more than its estimate.
CutTo(n) ==
  LET c == cap[n]
      tos == (c.est + 1) \div 2 .. c.est - 1
  IN {Cut(c, to) : to \in tos}
       \union (IF tos = {} \/ Cardinality(Kids(plan, n)) * Bitrate > c.est THEN {c} ELSE {})

\* check of everySecond: only fresh reports count.
Checked(n) ==
  LET c == cap[n]
  IN IF (n # Root /\ view[n].quiet >= Silent) \/ c.since < CutGap \/ c.settle > 0 THEN {c}
     ELSE IF Over(n) THEN IF Kids(plan, n) = {} THEN {c} ELSE CutTo(n)
     ELSE IF Under(n) THEN {Recover(c)} ELSE {c}

-----------------------------------------------------------------------------
(* onReport.                                                                 *)

\* Some other parent might take v, as far as the estimates tell.
Alternatives(c, v, p) ==
  \/ p # Root /\ c[Root].est > 0
  \/ \E o \in Viewers \ {v, p} : c[o].est >= Bitrate /\ view[o].weak = 0

\* v has long been degraded, under a parent that is not and whose uplink is fine.
Judged(v, p) ==
  /\ view[v].weak = 0 /\ Low(v) /\ view[v].poor >= Judge /\ p # None
  /\ p \in Viewers => view[p].poor < 0
  /\ ~(Measured(p) /\ uplink[p] # "clear")

\* Mutant of Verdict: a viewer that was moved not long ago is left alone.
VerdictOnce(c, v, p) ==
  IF ~Judged(v, p) THEN "none"
  ELSE IF ~Alternatives(c, v, p) THEN "spare"
  ELSE IF view[v].moved > MoveGap THEN "move" ELSE "none"

\* Without another parent to try it is only believed weak: the next plan, whenever
\* that is made, gives it no children.  One that was moved in vain asks for that plan.
Verdict(c, v, p) ==
  IF ~Judged(v, p) THEN "none"
  ELSE IF ~Alternatives(c, v, p) THEN "spare"
  ELSE IF view[v].moved > MoveGap THEN "move"
  ELSE IF view[v].moved > Again THEN "leaf" ELSE "none"

\* Mutant of Withdrawn: the tree is left to the next periodic re-plan.
WithdrawnNever(v) == FALSE

\* A relay that offers less than it is believed to carry.
Withdrawn(v) ==
  cap[v].declared # Offer(v) /\ Offer(v) < cap[v].est /\ Kids(plan, v) # {}

Report(v) ==
  LET told == cap[v].declared # Offer(v)
      back == view[v].quiet > Silent
      before == IF told THEN Offer(v) ELSE cap[v].est
      after == IF back THEN Larger(before, Smaller(Offer(v), Bitrate)) ELSE before
      told1 == [cap EXCEPT ![v].declared = Offer(v), ![v].est = before]
      verdict == Verdict([told1 EXCEPT ![v].est = after], v, plan[v])
      heard == [view EXCEPT
                  ![v].quiet = 0,
                  ![v].poor = IF ~Low(v) \/ verdict = "move" THEN -1 ELSE Larger(@, 0),
                  ![v].moved = IF verdict = "move" THEN 0 ELSE @,
                  ![v].weak = IF verdict \in {"spare", "leaf"} THEN WeakFor ELSE @]
      bans == IF verdict = "move" THEN [ban EXCEPT ![<<plan[v], v>>] = BanFor] ELSE ban
  IN /\ v \in due \ mute /\ due' = due \ {v}
     /\ view' = heard /\ ban' = bans
     /\ \E f \in IF Withdrawn(v) THEN Trees(told1, [view EXCEPT ![v].quiet = 0], ban, Busy(Root)) ELSE {plan} :
          LET told2 == [Resettled(told1, plan, f) EXCEPT ![v].est = after]
          IN \E g \in IF verdict = "move" THEN Trees(told2, heard, bans, Busy(Root)) ELSE {f} :
               plan' = g /\ cap' = Resettled(told2, f, g)
     /\ planned' = (planned \/ Withdrawn(v) \/ verdict = "move")
     /\ wanted' = IF verdict = "move" THEN FALSE
                  ELSE back \/ verdict = "leaf" \/ (wanted /\ ~Withdrawn(v)) \/ (told /\ ~Withdrawn(v))
     /\ UNCHANGED <<machine, world, upsets>>

-----------------------------------------------------------------------------
(* everySecond of the broadcaster, and what else a second brings.            *)

Aged(c) == [c EXCEPT !.since = Up(@, QuietMost), !.settle = Down(@)]
AgedView(w) == [w EXCEPT !.quiet = Up(@, Dead), !.moved = Up(@, Long), !.weak = Down(@),
                         !.poor = IF @ < 0 THEN @ ELSE Up(@, Judge)]
AgedCalm(n) == [r \in Reasons |-> IF r \in signals[n] THEN 0 ELSE Up(calm[n][r], Calm)]

\* A relay stopped reporting.
Stopped == \E v \in Viewers : view[v].quiet > Silent /\ Kids(plan, v) # {}

\* The re-plan of this second waits for one made less than a second ago, except
\* when the broadcaster has just become calm.
Second ==
  /\ due \subseteq mute /\ due' = Viewers
  /\ calm' = [n \in Nodes |-> AgedCalm(n)] /\ UNCHANGED <<signals, world, upsets>>
  /\ \E c \in {d \in [Nodes -> UNION {Checked(n) : n \in Nodes}] : \A n \in Nodes : d[n] \in Checked(n)} :
       LET want == wanted \/ Stopped \/ (\E n \in Nodes : c[n].est # cap[n].est)
           replan == (want /\ ~planned) \/ (Busy(Root) /\ ~Busy(Root)')
       IN \E f \in IF replan THEN Trees(c, view, ban, Busy(Root)') ELSE {plan} :
            /\ plan' = f /\ wanted' = (want /\ ~replan)
            /\ cap' = [n \in Nodes |-> Aged(Resettled(c, plan, f)[n])]
  /\ planned' = FALSE
  /\ view' = [v \in Viewers |-> AgedView(view[v])]
  /\ ban' = [e \in Edges |-> Down(ban[e])]

-----------------------------------------------------------------------------
(* What happens to the machines and the network.                             *)

Upset == upsets < MaxUpsets /\ upsets' = upsets + 1

\* A reason appears: a viewer reports at once, the broadcaster plans at once.
SignalOn(n, r) ==
  /\ r \notin signals[n] /\ Upset
  /\ signals' = [signals EXCEPT ![n] = @ \union {r}] /\ calm' = [calm EXCEPT ![n][r] = 0]
  /\ IF Busy(n) THEN UNCHANGED <<root, due>>
     ELSE IF n # Root THEN due' = due \union {n} /\ UNCHANGED root
     ELSE /\ \E f \in Trees(cap, view, ban, TRUE) : plan' = f /\ cap' = Resettled(cap, plan, f)
          /\ planned' = TRUE /\ wanted' = FALSE /\ UNCHANGED <<view, ban, due>>
  /\ UNCHANGED world

SignalOff(n, r) ==
  /\ r \in signals[n]
  /\ signals' = [signals EXCEPT ![n] = @ \ {r}] /\ calm' = [calm EXCEPT ![n][r] = 0]
  /\ UNCHANGED <<root, due, world, upsets>>

\* A viewer whose parent went away bans it, and a parent not heard of lately is
\* not counted on until it reports.
Orphan(v) ==
  LET p == plan[v]
      c == IF p \in Viewers /\ view[p].quiet > 1 THEN [cap EXCEPT ![p].est = 0] ELSE cap
      bans == IF p \in Viewers THEN [ban EXCEPT ![<<p, v>>] = OrphanBan] ELSE ban
  IN /\ v \notin mute /\ p # None /\ Upset
     /\ ban' = bans
     /\ \E f \in Trees(c, view, bans, Busy(Root)) : plan' = f /\ cap' = Resettled(c, plan, f)
     /\ planned' = TRUE /\ wanted' = FALSE
     /\ UNCHANGED <<machine, view, due, world>>

\* applySenderSettings of the broadcaster gives its own estimate a fresh start.
Reapply ==
  /\ Upset /\ cap' = [cap EXCEPT ![Root].est = Full[Root]] /\ wanted' = TRUE
  /\ UNCHANGED <<machine, view, ban, plan, planned, due, world>>

Worse ==
  /\ Upset
  /\ \/ \E n \in Nodes, q \in Queues \ {"clear"} :
          uplink[n] = "clear" /\ uplink' = [uplink EXCEPT ![n] = q] /\ UNCHANGED <<bad, mute>>
     \/ \E e \in Edges \ bad : bad' = bad \union {e} /\ UNCHANGED <<uplink, mute>>
     \/ \E v \in Viewers \ mute : mute' = mute \union {v} /\ UNCHANGED <<uplink, bad>>
  /\ UNCHANGED <<machine, root, due>>

Better ==
  /\ \/ \E n \in Nodes : uplink[n] # "clear" /\ uplink' = [uplink EXCEPT ![n] = "clear"] /\ UNCHANGED <<bad, mute>>
     \/ \E e \in bad : bad' = bad \ {e} /\ UNCHANGED <<uplink, mute>>
     \/ \E v \in mute : mute' = mute \ {v} /\ UNCHANGED <<uplink, bad>>
  /\ UNCHANGED <<machine, root, due, upsets>>

-----------------------------------------------------------------------------
Next ==
  \/ Second \/ Reapply \/ Worse \/ Better
  \/ \E v \in Viewers : Report(v) \/ Orphan(v)
  \/ \E n \in Nodes, r \in Reasons : SignalOn(n, r) \/ SignalOff(n, r)

Spec == Init /\ [][Next]_vars

\* Seconds pass, and the reports of those that are not mute arrive within each.
Clock == Second \/ \E v \in Viewers : Report(v)
FairSpec == Spec /\ WF_vars(Clock)

-----------------------------------------------------------------------------
(* Properties.                                                               *)

\* Whoever said that it offers nothing feeds nobody from that moment on ("at
\* once"), and a relay whose reports stopped nobody two seconds after it is missed.
SparedFeedNobody ==
  \A v \in Viewers : cap[v].declared = 0 \/ view[v].quiet > Silent + 1 => Kids(plan, v) = {}

\* Estimates grow back: whoever stays calm, heard and clear is at last believed
\* to carry all it offers, whatever happened to it and to the others before.
Fine(n) == uplink[n] = "clear" /\ ~Busy(n) /\ n \notin mute
GrowsBack == \A n \in Nodes : <>[]Fine(n) => <>[](cap[n].est = Full[n])

\* Nobody stays for good on a bad path from a parent that gets and sends well
\* without a verdict: either it gets another parent, or it is believed to be limited
\* by its own connection, so that no plan relies on it while that belief lasts.
\* (A plan made earlier may: with no other parent to try, none is asked for.)
BadPath(p, v) ==
  /\ plan[v] = p /\ <<p, v>> \in bad /\ v \notin mute /\ view[v].weak = 0
  /\ uplink[p] = "clear" /\ (p \in Viewers => ~Low(p))
BadPathLeft == \A v \in Viewers : []<>~(\E p \in Nodes : BadPath(p, v))
=============================================================================

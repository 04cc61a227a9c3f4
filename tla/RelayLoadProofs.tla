--------------------------- MODULE RelayLoadProofs ---------------------------
(***************************************************************************)
(* Who said that it offers nothing, and who is silent, feeds nobody, and all *)
(* numbers stay in their ranges: for any viewers, capacities, times and      *)
(* trees that the planner may choose.                                        *)
(***************************************************************************)
EXTENDS RelayLoad, TLAPS

(* Nobody is fed by a viewer that is believed to carry nothing, which is so  *)
(* of one that withdrew; nor, once a plan was made in this second, by one    *)
(* that is missed now, or by one that was missed a second ago.               *)
Feeds(v) == Kids(plan, v) # {}
FedInv ==
  \A v \in Viewers :
    /\ cap[v].est = 0 => ~Feeds(v)
    /\ planned /\ view[v].quiet > Silent => ~Feeds(v)
    /\ view[v].quiet > Silent + 1 => ~Feeds(v)

(* The fields of what is believed; times matter for the types only.           *)
Fields == {"declared", "est", "cuts", "since", "settle"}
Believed(c) ==
  /\ DOMAIN c = Nodes /\ c = [n \in Nodes |-> c[n]]
  /\ \A n \in Nodes : DOMAIN c[n] = Fields /\ c[n] = [x \in Fields |-> c[n][x]]
  /\ \A n \in Nodes : c[n].declared \in Nat /\ c[n].est \in 0..c[n].declared

ViewInv == view \in [Viewers -> ViewerState]

LoadInv == Believed(cap) /\ cap[Root].declared = Full[Root] /\ ViewInv /\ FedInv

-----------------------------------------------------------------------------
(* An estimate of nothing leaves no slot.                                    *)
LEMMA NoSlots ==
  ASSUME NEW x, x = 0 PROVE SlotsFor(x) = 0
<1>1. Bitrate \in Nat /\ Bitrate > 0
  BY ConstantsAssumption
<1>2. ASSUME NEW b \in Nat, b > 0 PROVE (4 * 0) \div (5 * b) = 0
  <2>1. 5 * b > 0 /\ 5 * b \in Nat
    BY <1>2
  <2>2. ASSUME NEW d \in Nat, d > 0 PROVE 0 \div d = 0
    BY <2>2
  <2> QED BY <2>1, <2>2
<1> QED BY <1>1, <1>2 DEF SlotsFor

(* Whatever the planner returns, a viewer without a slot has no children.    *)
LEMMA PlansSpare ==
  ASSUME NEW c, NEW vw, NEW bans, NEW busy, NEW f \in Trees(c, vw, bans, busy), NEW v \in Viewers,
         vw[v].quiet > Silent \/ c[v].est = 0
  PROVE  Kids(f, v) = {}
<1> DEFINE slots == [n \in Nodes |-> Slots(c, vw, busy, n)]
<1>1. v \in Nodes /\ v # Root /\ v # None
  BY ConstantsAssumption DEF Nodes
<1>2. slots[v] = 0
  BY <1>1, NoSlots DEF Slots
<1>3. f \in Shapes[Live(vw)] /\ \A w \in Live(vw) : slots[f[w]] > 0
  BY DEF Trees
<1>4. Live(vw) \in SUBSET Viewers
  BY DEF Live
<1>5. \A w \in Viewers : f[w] \in IF w \in Live(vw) THEN Live(vw) \union {Root} ELSE {None}
  BY <1>3, <1>4 DEF Shapes
<1> HIDE DEF slots
<1>6. ASSUME NEW w \in Viewers, f[w] = v PROVE FALSE
  <2>1. w \in Live(vw)
    BY <1>1, <1>5, <1>6
  <2> QED BY <1>2, <1>3, <1>6, <2>1
<1> QED BY <1>6 DEF Kids

(* The pause after other children leaves what is believed as it is.          *)
LEMMA Resettling ==
  ASSUME NEW c, Believed(c), NEW old, NEW new
  PROVE  /\ Believed(Resettled(c, old, new))
         /\ \A n \in Nodes : /\ Resettled(c, old, new)[n].est = c[n].est
                            /\ Resettled(c, old, new)[n].declared = c[n].declared
<1> DEFINE r == Resettled(c, old, new)
<1>1. \A n \in Nodes : r[n] = c[n] \/ r[n] = [c[n] EXCEPT !.settle = Settle]
  BY DEF Resettled
<1>2. r = [n \in Nodes |-> r[n]] /\ DOMAIN r = Nodes
  BY DEF Resettled
<1> HIDE DEF r
<1>3. ASSUME NEW n \in Nodes
      PROVE  /\ DOMAIN r[n] = Fields /\ r[n] = [x \in Fields |-> r[n][x]]
             /\ r[n].est = c[n].est /\ r[n].declared = c[n].declared
  <2>1. DOMAIN c[n] = Fields /\ c[n] = [x \in Fields |-> c[n][x]]
    BY DEF Believed
  <2>2. CASE r[n] = c[n]
    BY <2>1, <2>2
  <2>3. CASE r[n] = [c[n] EXCEPT !.settle = Settle]
    BY <2>1, <2>3 DEF Fields
  <2> QED BY <1>1, <2>2, <2>3
<1>4. Believed(r)
  BY <1>2, <1>3 DEF Believed
<1> QED BY <1>3, <1>4 DEF r

(* An offer is what is declared, or nothing.                                 *)
LEMMA Offers ==
  ASSUME NEW n \in Nodes PROVE Offer(n) \in Nat /\ Full[n] \in Nat
BY ConstantsAssumption DEF Offer

(* What the check of a second makes of a belief: it changes no declaration,  *)
(* goes beyond none, and never takes away the last of an estimate.           *)
LEMMA Checking ==
  ASSUME LoadInv, NEW n \in Nodes, NEW c \in Checked(n)
  PROVE  /\ DOMAIN c = Fields /\ c = [x \in Fields |-> c[x]]
         /\ c.declared = cap[n].declared /\ c.est \in 0..c.declared
         /\ c.est = 0 => cap[n].est = 0
<1> DEFINE b == cap[n]
<1>1. /\ DOMAIN b = Fields /\ b = [x \in Fields |-> b[x]]
      /\ b.declared \in Nat /\ b.est \in 0..b.declared
  BY DEF LoadInv, Believed
<1>2. Bitrate \in Nat /\ Bitrate > 0
  BY ConstantsAssumption
<1>3. c = b \/ c = Recover(b) \/ \E to \in (b.est + 1) \div 2 .. b.est - 1 : c = Cut(b, to)
  BY DEF Checked, CutTo
<1> HIDE DEF b
<1>4. CASE c = b
  BY <1>1, <1>4 DEF b
<1>5. ASSUME NEW e \in 1..b.declared, NEW k, NEW t,
             c = [b EXCEPT !.est = e, !.cuts = k, !.since = t] \/ c = [b EXCEPT !.est = e, !.since = t]
      PROVE  /\ DOMAIN c = Fields /\ c = [x \in Fields |-> c[x]]
             /\ c.declared = cap[n].declared /\ c.est \in 0..c.declared /\ c.est # 0
  <2>1. DOMAIN c = Fields /\ c = [x \in Fields |-> c[x]]
    BY <1>1, <1>5
  <2>2. c.declared = b.declared /\ c.est = e
    BY <1>1, <1>5 DEF Fields
  <2>3. e \in 0..b.declared /\ e # 0
    BY <1>1
  <2> QED BY <2>1, <2>2, <2>3 DEF b
<1>6. CASE c = Recover(b)
  <2>1. CASE c = b
    BY <1>4, <2>1
  <2>2. CASE /\ b.est < b.declared
             /\ c = [b EXCEPT !.est = Smaller(b.declared, b.est + Bitrate), !.since = QuietOf(b) - Regrow]
    <3>1. Smaller(b.declared, b.est + Bitrate) \in 1..b.declared
      BY <1>1, <1>2, <2>2 DEF Smaller
    <3> QED BY <1>5, <2>2, <3>1
  <2>3. \/ c = b
        \/ ~(b.est >= b.declared) /\ c = [b EXCEPT !.est = Smaller(b.declared, b.est + Bitrate), !.since = QuietOf(b) - Regrow]
    BY <1>6 DEF Recover
  <2>4. ~(b.est >= b.declared) => b.est < b.declared
    BY <1>1
  <2> QED BY <2>1, <2>2, <2>3, <2>4
<1>7. CASE \E to \in (b.est + 1) \div 2 .. b.est - 1 : c = Cut(b, to)
  <2>1. PICK to \in (b.est + 1) \div 2 .. b.est - 1 : c = Cut(b, to)
    BY <1>7
  <2>2. to \in 1..b.declared
    BY <1>1, <2>1
  <2>3. c = [b EXCEPT !.est = to, !.cuts = Up(b.cuts, MaxDoublings + 1), !.since = 0]
    BY <2>1 DEF Cut
  <2> QED BY <1>5, <2>2, <2>3
<1> QED BY <1>3, <1>4, <1>6, <1>7

(* Ageing by a second leaves what slots depend on as it is.                  *)
LEMMA Ageing ==
  ASSUME NEW c, Believed(c)
  PROVE  /\ Believed([n \in Nodes |-> Aged(c[n])])
         /\ \A n \in Nodes : Aged(c[n]).est = c[n].est /\ Aged(c[n]).declared = c[n].declared
<1> DEFINE r == [n \in Nodes |-> Aged(c[n])]
<1>1. ASSUME NEW n \in Nodes
      PROVE  /\ DOMAIN r[n] = Fields /\ r[n] = [x \in Fields |-> r[n][x]]
             /\ r[n].est = c[n].est /\ r[n].declared = c[n].declared
  <2>1. DOMAIN c[n] = Fields /\ c[n] = [x \in Fields |-> c[n][x]]
    BY DEF Believed
  <2>2. r[n] = [c[n] EXCEPT !.since = Up(c[n].since, QuietMost), !.settle = Down(c[n].settle)]
    BY DEF Aged
  <2> HIDE DEF r
  <2> QED BY <2>1, <2>2 DEF Fields
<1>2. r = [n \in Nodes |-> r[n]] /\ DOMAIN r = Nodes
  OBVIOUS
<1>3. \A n \in Nodes : r[n] = Aged(c[n])
  OBVIOUS
<1> HIDE DEF r
<1>4. Believed(r)
  BY <1>1, <1>2 DEF Believed
<1> QED BY <1>1, <1>3, <1>4 DEF r

LEMMA AgeingViews ==
  ASSUME ViewInv
  PROVE  /\ [v \in Viewers |-> AgedView(view[v])] \in [Viewers -> ViewerState]
         /\ \A v \in Viewers : AgedView(view[v]).quiet = Up(view[v].quiet, Dead)
<1> SUFFICES ASSUME NEW v \in Viewers
             PROVE  AgedView(view[v]) \in ViewerState /\ AgedView(view[v]).quiet = Up(view[v].quiet, Dead)
  OBVIOUS
<1>1. view[v] \in ViewerState
  BY DEF ViewInv
<1>2. Dead \in Nat /\ Judge \in Nat /\ Long \in Nat /\ WeakFor \in Nat
  BY ConstantsAssumption DEF Long
<1>3. /\ view[v].quiet \in 0..Dead /\ view[v].poor \in -1..Judge
      /\ view[v].moved \in 0..Long /\ view[v].weak \in 0..WeakFor
  BY <1>1 DEF ViewerState
<1>4. /\ Up(view[v].quiet, Dead) \in 0..Dead /\ Up(view[v].moved, Long) \in 0..Long
      /\ Down(view[v].weak) \in 0..WeakFor
      /\ (IF view[v].poor < 0 THEN view[v].poor ELSE Up(view[v].poor, Judge)) \in -1..Judge
  BY <1>2, <1>3 DEF Up, Down, Smaller, Larger
<1> QED BY <1>1, <1>4 DEF AgedView, ViewerState
-----------------------------------------------------------------------------
(* The steps.                                                                *)

LEMMA InitLoad == Init => LoadInv
<1> SUFFICES ASSUME Init PROVE LoadInv
  OBVIOUS
<1>1. cap = [n \in Nodes |-> [declared |-> Full[n], est |-> Full[n], cuts |-> 0,
                             since |-> QuietMost, settle |-> 0]]
  BY DEF Init
<1>2. \A n \in Nodes : Full[n] \in Nat /\ Full[n] > 0
  BY ConstantsAssumption
<1>3. Believed(cap) /\ cap[Root].declared = Full[Root]
  <2>1. \A n \in Nodes : cap[n] = [declared |-> Full[n], est |-> Full[n], cuts |-> 0,
                                 since |-> QuietMost, settle |-> 0]
    BY <1>1
  <2>2. ASSUME NEW a, NEW t, NEW b,
               b = [declared |-> a, est |-> a, cuts |-> 0, since |-> t, settle |-> 0]
        PROVE  DOMAIN b = Fields /\ b = [x \in Fields |-> b[x]] /\ b.declared = a /\ b.est = a
    BY <2>2 DEF Fields
  <2>3. ASSUME NEW n \in Nodes
        PROVE  /\ DOMAIN cap[n] = Fields /\ cap[n] = [x \in Fields |-> cap[n][x]]
               /\ cap[n].declared = Full[n] /\ cap[n].est = Full[n]
    <3>1. cap[n] = [declared |-> Full[n], est |-> Full[n], cuts |-> 0, since |-> QuietMost, settle |-> 0]
      BY <2>1
    <3> QED BY <2>2, <3>1
  <2>5. \A n \in Nodes : cap[n].declared \in Nat /\ cap[n].est \in 0..cap[n].declared
    <3>1. ASSUME NEW x, x \in Nat PROVE x \in 0..x
      BY <3>1
    <3>2. ASSUME NEW n \in Nodes PROVE cap[n].declared \in Nat /\ cap[n].declared = cap[n].est
      BY <1>2, <2>3
    <3> QED BY <3>1, <3>2
  <2>4. DOMAIN cap = Nodes /\ cap = [n \in Nodes |-> cap[n]]
    BY <1>1
  <2> QED BY <2>3, <2>4, <2>5 DEF Believed, Nodes
<1>4. ViewInv
  BY ConstantsAssumption DEF Init, ViewInv, ViewerState, Long
<1>5. FedInv
  <2> SUFFICES ASSUME NEW v \in Viewers
               PROVE  cap[v].est # 0 /\ ~planned /\ ~(view[v].quiet > Silent + 1)
    BY DEF FedInv
  <2>1. cap[v].est = Full[v] /\ v \in Nodes
    BY <1>1 DEF Nodes
  <2>2. view[v].quiet = 0 /\ ~planned
    BY DEF Init
  <2> QED BY <1>2, <2>1, <2>2, ConstantsAssumption
<1> QED BY <1>3, <1>4, <1>5 DEF LoadInv

(* A second cuts and grows estimates, and plans again when a relay is missed *)
(* unless that was done in this second already.                              *)
LEMMA SecondLoad == ASSUME LoadInv, Second PROVE LoadInv'
<1>1. PICK c \in {d \in [Nodes -> UNION {Checked(n) : n \in Nodes}] : \A n \in Nodes : d[n] \in Checked(n)} :
        LET want == wanted \/ Stopped \/ (\E n \in Nodes : c[n].est # cap[n].est)
            replan == (want /\ ~planned) \/ (Busy(Root) /\ ~Busy(Root)')
        IN \E f \in IF replan THEN Trees(c, view, ban, Busy(Root)') ELSE {plan} :
             /\ plan' = f /\ wanted' = (want /\ ~replan)
             /\ cap' = [n \in Nodes |-> Aged(Resettled(c, plan, f)[n])]
  BY DEF Second
<1> DEFINE want == wanted \/ Stopped \/ (\E n \in Nodes : c[n].est # cap[n].est)
           replan == (want /\ ~planned) \/ (Busy(Root) /\ ~Busy(Root)')
<1>2. PICK f \in IF replan THEN Trees(c, view, ban, Busy(Root)') ELSE {plan} :
        plan' = f /\ cap' = [n \in Nodes |-> Aged(Resettled(c, plan, f)[n])]
  BY <1>1
<1>3. planned' = FALSE /\ view' = [v \in Viewers |-> AgedView(view[v])]
  BY DEF Second
<1>4. /\ Believed(c)
      /\ \A n \in Nodes : c[n].declared = cap[n].declared /\ (c[n].est = 0 => cap[n].est = 0)
  <2>1. \A n \in Nodes : c[n] \in Checked(n)
    BY <1>1
  <2>2. DOMAIN c = Nodes /\ c = [n \in Nodes |-> c[n]]
    BY <1>1
  <2>3. ASSUME NEW n \in Nodes
        PROVE  /\ DOMAIN c[n] = Fields /\ c[n] = [x \in Fields |-> c[n][x]]
               /\ c[n].declared = cap[n].declared /\ c[n].est \in 0..c[n].declared
               /\ c[n].est = 0 => cap[n].est = 0
    BY <2>1, Checking
  <2>4. \A n \in Nodes : cap[n].declared \in Nat
    BY DEF LoadInv, Believed
  <2> QED BY <2>2, <2>3, <2>4 DEF Believed
<1> DEFINE r == Resettled(c, plan, f)
<1>5. Believed(r) /\ \A n \in Nodes : r[n].est = c[n].est /\ r[n].declared = c[n].declared
  BY <1>4, Resettling
<1> HIDE DEF r
<1>6. Believed(cap') /\ \A n \in Nodes : cap'[n].est = c[n].est /\ cap'[n].declared = c[n].declared
  <2>1. /\ Believed([n \in Nodes |-> Aged(r[n])])
        /\ \A n \in Nodes : Aged(r[n]).est = r[n].est /\ Aged(r[n]).declared = r[n].declared
    BY <1>5, Ageing
  <2>2. cap' = [n \in Nodes |-> Aged(r[n])]
    BY <1>2 DEF r
  <2> QED BY <1>5, <2>1, <2>2
<1>7. cap'[Root].declared = Full[Root]
  BY <1>4, <1>6 DEF LoadInv, Nodes
<1>8. ViewInv' /\ \A v \in Viewers : view'[v].quiet = Up(view[v].quiet, Dead) /\ view[v].quiet \in 0..Dead
  <2>1. ViewInv
    BY DEF LoadInv
  <2>2. \A v \in Viewers : view[v].quiet \in 0..Dead
    BY <2>1 DEF ViewInv, ViewerState
  <2>3. ViewInv'
    BY <1>3, <2>1, AgeingViews DEF ViewInv
  <2>4. \A v \in Viewers : view'[v].quiet = Up(view[v].quiet, Dead)
    BY <1>3, <2>1, AgeingViews
  <2> QED BY <2>2, <2>3, <2>4
<1>9. ASSUME NEW v \in Viewers, c[v].est = 0 \/ view[v].quiet > Silent PROVE Kids(f, v) = {}
  <2>1. CASE replan
    <3>1. f \in Trees(c, view, ban, Busy(Root)')
      BY <1>2, <2>1
    <3> HIDE DEF replan
    <3> QED BY <1>9, <3>1, PlansSpare
  <2>2. CASE ~replan
    <3>1. f = plan
      BY <1>2, <2>2
    <3>2. CASE Kids(plan, v) = {}
      BY <3>1, <3>2
    <3>3. CASE Kids(plan, v) # {}
      <4>1. c[v].est # 0
        BY <1>4, <3>3 DEF LoadInv, FedInv, Feeds, Nodes
      <4>2. view[v].quiet > Silent /\ Stopped
        BY <1>9, <3>3, <4>1 DEF Stopped
      <4>3. ~planned
        BY <3>3, <4>2 DEF LoadInv, FedInv, Feeds
      <4> QED BY <2>2, <4>2, <4>3
    <3> QED BY <3>2, <3>3
  <2> QED BY <2>1, <2>2
<1>10. FedInv'
  <2> SUFFICES ASSUME NEW v \in Viewers
               PROVE  /\ cap'[v].est = 0 => Kids(f, v) = {}
                      /\ view'[v].quiet > Silent + 1 => Kids(f, v) = {}
    BY <1>2, <1>3 DEF FedInv, Feeds, Kids
  <2>1. cap'[v].est = c[v].est
    BY <1>6 DEF Nodes
  <2>2. view'[v].quiet > Silent + 1 => view[v].quiet > Silent
    BY <1>8, ConstantsAssumption DEF Up, Smaller
  <2> QED BY <1>9, <2>1, <2>2
<1> QED BY <1>6, <1>7, <1>8, <1>10 DEF LoadInv, Believed

(* A report declares what the machine offers; a relay that offers less than  *)
(* it carries, or a viewer that is moved, makes a new plan at once.          *)
LEMMA ReportLoad == ASSUME LoadInv, NEW v \in Viewers, Report(v) PROVE LoadInv'
<1> DEFINE told == cap[v].declared # Offer(v)
           back == view[v].quiet > Silent
           before == IF told THEN Offer(v) ELSE cap[v].est
           after == IF back THEN Larger(before, Smaller(Offer(v), Bitrate)) ELSE before
           told1 == [cap EXCEPT ![v].declared = Offer(v), ![v].est = before]
           verdict == Verdict([told1 EXCEPT ![v].est = after], v, plan[v])
           heard == [view EXCEPT
                       ![v].quiet = 0,
                       ![v].poor = IF ~Low(v) \/ verdict = "move" THEN -1 ELSE Larger(@, 0),
                       ![v].moved = IF verdict = "move" THEN 0 ELSE @,
                       ![v].weak = IF verdict \in {"spare", "leaf"} THEN WeakFor ELSE @]
           bans == IF verdict = "move" THEN [ban EXCEPT ![<<plan[v], v>>] = BanFor] ELSE ban
           fresh == [view EXCEPT ![v].quiet = 0]
<1>1. PICK f \in IF Withdrawn(v) THEN Trees(told1, fresh, ban, Busy(Root)) ELSE {plan} :
        LET told2 == [Resettled(told1, plan, f) EXCEPT ![v].est = after]
        IN \E g \in IF verdict = "move" THEN Trees(told2, heard, bans, Busy(Root)) ELSE {f} :
             plan' = g /\ cap' = Resettled(told2, f, g)
  BY DEF Report
<1> DEFINE told2 == [Resettled(told1, plan, f) EXCEPT ![v].est = after]
<1>2. PICK g \in IF verdict = "move" THEN Trees(told2, heard, bans, Busy(Root)) ELSE {f} :
        plan' = g /\ cap' = Resettled(told2, f, g)
  BY <1>1
<1>3. view' = heard /\ planned' = (planned \/ Withdrawn(v) \/ verdict = "move")
  BY DEF Report
<1>4. v \in Nodes /\ v # Root
  BY ConstantsAssumption DEF Nodes
<1>5. /\ Offer(v) \in Nat /\ Bitrate \in Nat /\ Silent \in Nat
      /\ cap[v].declared \in Nat /\ cap[v].est \in 0..cap[v].declared
  BY <1>4, Offers, ConstantsAssumption DEF LoadInv, Believed
<1>6. before \in 0..Offer(v) /\ after \in 0..Offer(v) /\ (after = 0 => before = 0)
  BY <1>5 DEF Larger, Smaller
<1>7. view \in [Viewers -> ViewerState]
  BY DEF LoadInv, ViewInv
<1>8. ASSUME NEW w \in Viewers \ {v}
      PROVE  heard[w] = view[w] /\ fresh[w] = view[w]
  BY <1>7
<1>9. heard \in [Viewers -> ViewerState] /\ heard[v].quiet = 0 /\ fresh[v].quiet = 0
  <2>1. /\ view[v].quiet \in 0..Dead /\ view[v].poor \in -1..Judge
        /\ view[v].moved \in 0..Long /\ view[v].weak \in 0..WeakFor
    BY <1>7 DEF ViewerState
  <2>2. /\ Dead \in Nat /\ Judge \in Nat /\ Long \in Nat /\ WeakFor \in Nat
    BY ConstantsAssumption DEF Long
  <2> DEFINE poor == IF ~Low(v) \/ verdict = "move" THEN -1 ELSE Larger(view[v].poor, 0)
             moved == IF verdict = "move" THEN 0 ELSE view[v].moved
             weak == IF verdict \in {"spare", "leaf"} THEN WeakFor ELSE view[v].weak
  <2>3. poor \in -1..Judge /\ moved \in 0..Long /\ weak \in 0..WeakFor /\ 0 \in 0..Dead
    BY <2>1, <2>2 DEF Larger
  <2>4. heard = [view EXCEPT ![v].quiet = 0, ![v].poor = poor, ![v].moved = moved, ![v].weak = weak]
    OBVIOUS
  <2> HIDE DEF heard, poor, moved, weak, verdict
  <2> QED BY <1>7, <2>3, <2>4 DEF ViewerState
<1> HIDE DEF told, back, before, after, verdict, heard, bans, fresh
<1>10. /\ Believed(told1) /\ told1[v].declared = Offer(v) /\ told1[v].est = before
       /\ \A n \in Nodes \ {v} : told1[n] = cap[n]
  <2>1. Believed(cap)
    BY DEF LoadInv
  <2>2. told1 = [n \in Nodes |-> IF n = v THEN [cap[v] EXCEPT !.declared = Offer(v), !.est = before] ELSE cap[n]]
    BY <1>4, <2>1 DEF Believed
  <2> HIDE DEF told1
  <2>3. DOMAIN told1 = Nodes /\ told1 = [n \in Nodes |-> told1[n]] /\ \A n \in Nodes \ {v} : told1[n] = cap[n]
    BY <2>2
  <2>4. told1[v] = [cap[v] EXCEPT !.declared = Offer(v), !.est = before]
    BY <1>4, <2>2
  <2>5. DOMAIN cap[v] = Fields /\ cap[v] = [x \in Fields |-> cap[v][x]]
    BY <1>4, <2>1 DEF Believed
  <2>6. DOMAIN told1[v] = Fields /\ told1[v] = [x \in Fields |-> told1[v][x]]
    BY <2>4, <2>5
  <2>7. told1[v].declared = Offer(v) /\ told1[v].est = before
    BY <2>4, <2>5 DEF Fields
  <2> QED BY <1>5, <1>6, <2>1, <2>3, <2>6, <2>7 DEF Believed
<1> HIDE DEF told1
<1> DEFINE rest == Resettled(told1, plan, f)
<1>11. Believed(rest) /\ \A n \in Nodes : rest[n].est = told1[n].est /\ rest[n].declared = told1[n].declared
  BY <1>10, Resettling
<1>12. /\ Believed(told2) /\ told2[v].declared = Offer(v) /\ told2[v].est = after
       /\ \A n \in Nodes \ {v} : told2[n].est = cap[n].est /\ told2[n].declared = cap[n].declared
  <2> HIDE DEF rest
  <2>1. told2 = [n \in Nodes |-> IF n = v THEN [rest[v] EXCEPT !.est = after] ELSE rest[n]]
    BY <1>4, <1>11 DEF Believed, rest
  <2> HIDE DEF told2
  <2>2. DOMAIN told2 = Nodes /\ told2 = [n \in Nodes |-> told2[n]] /\ \A n \in Nodes \ {v} : told2[n] = rest[n]
    BY <2>1
  <2>3. told2[v] = [rest[v] EXCEPT !.est = after]
    BY <1>4, <2>1
  <2>4. DOMAIN rest[v] = Fields /\ rest[v] = [x \in Fields |-> rest[v][x]]
    BY <1>4, <1>11 DEF Believed
  <2>5. DOMAIN told2[v] = Fields /\ told2[v] = [x \in Fields |-> told2[v][x]]
    BY <2>3, <2>4
  <2>6. told2[v].declared = Offer(v) /\ told2[v].est = after
    BY <1>4, <1>10, <1>11, <2>3, <2>4 DEF Fields
  <2> QED BY <1>5, <1>6, <1>10, <1>11, <2>2, <2>5, <2>6 DEF Believed
<1>13. /\ Believed(cap') /\ cap'[v].declared = Offer(v) /\ cap'[v].est = after
       /\ \A n \in Nodes \ {v} : cap'[n].est = cap[n].est /\ cap'[n].declared = cap[n].declared
  <2> HIDE DEF told2
  <2>1. Believed(cap') /\ \A n \in Nodes : cap'[n].est = told2[n].est /\ cap'[n].declared = told2[n].declared
    BY <1>2, <1>12, Resettling
  <2> QED BY <1>4, <1>12, <2>1
<1> HIDE DEF told2, rest
<1>14. cap'[Root].declared = Full[Root]
  BY <1>4, <1>13 DEF LoadInv, Nodes
<1>15. ASSUME NEW w \in Viewers, Kids(f, w) = {}, told2[w].est = 0 \/ heard[w].quiet > Silent
       PROVE  Kids(g, w) = {}
  BY <1>2, <1>15, PlansSpare
<1>16. ASSUME NEW w \in Viewers, told1[w].est = 0 \/ fresh[w].quiet > Silent, Kids(plan, w) = {} \/ Withdrawn(v)
       PROVE  Kids(f, w) = {}
  BY <1>1, <1>16, PlansSpare
<1>17. after = 0 => Kids(g, v) = {}
  <2> SUFFICES ASSUME after = 0 PROVE Kids(g, v) = {}
    OBVIOUS
  <2>1. before = 0
    BY <1>6
  <2>2. ~Withdrawn(v) => Kids(plan, v) = {}
    <3>1. CASE told
      BY <1>4, <1>5, <2>1, <3>1 DEF told, before, Withdrawn, LoadInv, FedInv, Feeds
    <3>2. CASE ~told
      BY <2>1, <3>2 DEF before, LoadInv, FedInv, Feeds
    <3> QED BY <3>1, <3>2
  <2> QED BY <1>10, <1>12, <1>15, <1>16, <2>1, <2>2
<1>18. ASSUME NEW w \in Viewers \ {v}, cap[w].est = 0 \/ (view[w].quiet > Silent /\ (Kids(plan, w) = {} \/ planned'))
       PROVE  Kids(g, w) = {}
  <2>1. told1[w].est = 0 \/ fresh[w].quiet > Silent
    BY <1>8, <1>10, <1>18 DEF Nodes
  <2>2. told2[w].est = 0 \/ heard[w].quiet > Silent
    BY <1>8, <1>12, <1>18 DEF Nodes
  <2>3. CASE Kids(plan, w) = {} \/ Withdrawn(v)
    BY <1>15, <1>16, <2>1, <2>2, <2>3
  <2>4. CASE Kids(plan, w) # {} /\ verdict = "move"
    <3>1. view[w].quiet > Silent
      BY <1>18, <2>4 DEF LoadInv, FedInv, Feeds
    <3> QED BY <1>2, <1>8, <2>4, <3>1, PlansSpare
  <2>5. CASE Kids(plan, w) # {} /\ planned
    BY <1>18, <2>5 DEF LoadInv, FedInv, Feeds
  <2>6. CASE Kids(plan, w) # {} /\ ~planned'
    BY <1>18, <2>6 DEF LoadInv, FedInv, Feeds
  <2> QED BY <1>3, <2>3, <2>4, <2>5, <2>6
<1>19. FedInv'
  <2> SUFFICES ASSUME NEW w \in Viewers
               PROVE  /\ cap'[w].est = 0 => Kids(g, w) = {}
                      /\ planned' /\ view'[w].quiet > Silent => Kids(g, w) = {}
                      /\ view'[w].quiet > Silent + 1 => Kids(g, w) = {}
    BY <1>2 DEF FedInv, Feeds, Kids
  <2>1. CASE w = v
    BY <1>3, <1>5, <1>9, <1>13, <1>17, <2>1
  <2>2. CASE w # v
    <3>1. view'[w] = view[w] /\ cap'[w].est = cap[w].est
      BY <1>3, <1>8, <1>13, <2>2 DEF Nodes
    <3>2. view[w].quiet \in Nat
      BY <1>7 DEF ViewerState
    <3>3. view[w].quiet > Silent + 1 => view[w].quiet > Silent /\ Kids(plan, w) = {}
      BY <1>5, <3>2 DEF LoadInv, FedInv, Feeds
    <3> QED BY <1>18, <2>2, <3>1, <3>3
  <2> QED BY <2>1, <2>2
<1> QED BY <1>3, <1>9, <1>13, <1>14, <1>19 DEF LoadInv, ViewInv

(* An orphan bans its parent; one that was not heard of in the last report   *)
(* is believed to carry nothing, and the new plan spares it.                 *)
LEMMA OrphanLoad == ASSUME LoadInv, NEW v \in Viewers, Orphan(v) PROVE LoadInv'
<1> DEFINE p == plan[v]
           c == IF p \in Viewers /\ view[p].quiet > 1 THEN [cap EXCEPT ![p].est = 0] ELSE cap
           bans == IF p \in Viewers THEN [ban EXCEPT ![<<p, v>>] = OrphanBan] ELSE ban
<1>1. PICK f \in Trees(c, view, bans, Busy(Root)) : plan' = f /\ cap' = Resettled(c, plan, f)
  BY DEF Orphan
<1>2. view' = view
  BY DEF Orphan
<1>3. Believed(c) /\ c[Root].declared = Full[Root]
  <2>1. Believed(cap) /\ cap[Root].declared = Full[Root]
    BY DEF LoadInv
  <2>2. CASE c = cap
    BY <2>1, <2>2
  <2>3. CASE p \in Viewers /\ c = [cap EXCEPT ![p].est = 0]
    <3> HIDE DEF p, c
    <3>1. p \in Nodes /\ p # Root
      BY <2>3, ConstantsAssumption DEF Nodes
    <3>2. c = [n \in Nodes |-> IF n = p THEN [cap[p] EXCEPT !.est = 0] ELSE cap[n]]
      BY <2>1, <2>3, <3>1 DEF Believed
    <3>3. DOMAIN c = Nodes /\ c = [n \in Nodes |-> c[n]] /\ \A n \in Nodes \ {p} : c[n] = cap[n]
      BY <3>2
    <3>4. c[p] = [cap[p] EXCEPT !.est = 0]
      BY <3>1, <3>2
    <3>5. DOMAIN cap[p] = Fields /\ cap[p] = [x \in Fields |-> cap[p][x]] /\ cap[p].declared \in Nat
      BY <2>1, <3>1 DEF Believed
    <3>6. /\ DOMAIN c[p] = Fields /\ c[p] = [x \in Fields |-> c[p][x]]
          /\ c[p].est = 0 /\ c[p].declared = cap[p].declared
      BY <3>4, <3>5 DEF Fields
    <3>7. c[p].declared \in Nat /\ c[p].est \in 0..c[p].declared
      BY <3>5, <3>6
    <3>8. Root \in Nodes \ {p}
      BY <3>1 DEF Nodes
    <3> QED BY <2>1, <3>3, <3>6, <3>7, <3>8 DEF Believed
  <2> QED BY <2>2, <2>3
<1> HIDE DEF c, bans
<1>4. /\ Believed(cap') /\ cap'[Root].declared = Full[Root]
      /\ \A n \in Nodes : cap'[n].est = c[n].est
  BY <1>1, <1>3, Resettling DEF Nodes
<1>5. FedInv'
  <2> SUFFICES ASSUME NEW w \in Viewers
               PROVE  /\ c[w].est = 0 \/ view[w].quiet > Silent => Kids(plan', w) = {}
                      /\ view[w].quiet > Silent + 1 => view[w].quiet > Silent
    BY <1>2, <1>4 DEF FedInv, Feeds, Kids, Nodes
  <2>1. c[w].est = 0 \/ view[w].quiet > Silent => Kids(plan', w) = {}
    BY <1>1, PlansSpare
  <2>2. view[w].quiet \in Nat /\ Silent \in Nat
    BY ConstantsAssumption DEF LoadInv, ViewInv, ViewerState
  <2> QED BY <2>1, <2>2
<1> QED BY <1>2, <1>4, <1>5 DEF LoadInv, ViewInv

(* A fresh start of the broadcaster's own estimate.                          *)
LEMMA ReapplyLoad == ASSUME LoadInv, Reapply PROVE LoadInv'
<1>1. cap' = [cap EXCEPT ![Root].est = Full[Root]] /\ UNCHANGED <<view, plan, planned>>
  BY DEF Reapply
<1>2. Believed(cap) /\ cap[Root].declared = Full[Root] /\ Root \in Nodes
  BY DEF LoadInv, Nodes
<1>3. cap' = [n \in Nodes |-> IF n = Root THEN [cap[Root] EXCEPT !.est = Full[Root]] ELSE cap[n]]
  BY <1>1, <1>2 DEF Believed
<1>4. DOMAIN cap' = Nodes /\ cap' = [n \in Nodes |-> cap'[n]] /\ \A n \in Nodes \ {Root} : cap'[n] = cap[n]
  BY <1>3
<1>5. cap'[Root] = [cap[Root] EXCEPT !.est = Full[Root]]
  BY <1>2, <1>3
<1>6. DOMAIN cap[Root] = Fields /\ cap[Root] = [x \in Fields |-> cap[Root][x]]
  BY <1>2 DEF Believed
<1>7. /\ DOMAIN cap'[Root] = Fields /\ cap'[Root] = [x \in Fields |-> cap'[Root][x]]
      /\ cap'[Root].est = Full[Root] /\ cap'[Root].declared = Full[Root]
  BY <1>2, <1>5, <1>6 DEF Fields
<1>8. Full[Root] \in Nat
  BY <1>2, Offers
<1>9. Believed(cap')
  BY <1>2, <1>4, <1>7, <1>8 DEF Believed
<1>10. \A v \in Viewers : cap'[v] = cap[v]
  BY <1>4, ConstantsAssumption DEF Nodes
<1>11. FedInv'
  BY <1>1, <1>10 DEF LoadInv, FedInv, Feeds, Kids
<1> QED BY <1>1, <1>7, <1>9, <1>11 DEF LoadInv, ViewInv

(* A broadcaster that becomes busy plans at once; any other reason leaves the*)
(* plan as it is.                                                            *)
LEMMA SignalOnLoad ==
  ASSUME LoadInv, NEW n \in Nodes, NEW r \in Reasons, SignalOn(n, r) PROVE LoadInv'
<1>1. CASE UNCHANGED root
  BY <1>1 DEF root, LoadInv, ViewInv, FedInv, Feeds, Kids
<1>2. CASE view' = view /\ \E f \in Trees(cap, view, ban, TRUE) : plan' = f /\ cap' = Resettled(cap, plan, f)
  <2>1. PICK f \in Trees(cap, view, ban, TRUE) : plan' = f /\ cap' = Resettled(cap, plan, f)
    BY <1>2
  <2>2. /\ Believed(cap') /\ cap'[Root].declared = Full[Root]
        /\ \A m \in Nodes : cap'[m].est = cap[m].est
    BY <2>1, Resettling DEF LoadInv, Nodes
  <2>3. FedInv'
    <3> SUFFICES ASSUME NEW w \in Viewers
                 PROVE  /\ cap[w].est = 0 \/ view[w].quiet > Silent => Kids(plan', w) = {}
                        /\ view[w].quiet > Silent + 1 => view[w].quiet > Silent
      BY <1>2, <2>2 DEF FedInv, Feeds, Kids, Nodes
    <3>1. cap[w].est = 0 \/ view[w].quiet > Silent => Kids(plan', w) = {}
      BY <2>1, PlansSpare
    <3>2. view[w].quiet \in Nat /\ Silent \in Nat
      BY ConstantsAssumption DEF LoadInv, ViewInv, ViewerState
    <3> QED BY <3>1, <3>2
  <2> QED BY <1>2, <2>2, <2>3 DEF LoadInv, ViewInv
<1> QED BY <1>1, <1>2 DEF SignalOn

LEMMA LoadStep == LoadInv /\ [Next]_vars => LoadInv'
<1> SUFFICES ASSUME LoadInv, [Next]_vars PROVE LoadInv'
  OBVIOUS
<1>1. CASE Second
  BY <1>1, SecondLoad
<1>2. CASE Reapply
  BY <1>2, ReapplyLoad
<1>3. ASSUME NEW v \in Viewers, Report(v) PROVE LoadInv'
  BY <1>3, ReportLoad
<1>4. ASSUME NEW v \in Viewers, Orphan(v) PROVE LoadInv'
  BY <1>4, OrphanLoad
<1>5. ASSUME UNCHANGED <<cap, view, plan>>, planned' => planned PROVE LoadInv'
  BY <1>5 DEF LoadInv, ViewInv, FedInv, Feeds, Kids
<1>6. CASE Worse \/ Better
  BY <1>5, <1>6 DEF Worse, Better, root
<1>7. ASSUME NEW n \in Nodes, NEW r \in Reasons, SignalOn(n, r) \/ SignalOff(n, r) PROVE LoadInv'
  BY <1>5, <1>7, SignalOnLoad DEF SignalOff, root
<1>8. CASE UNCHANGED vars
  BY <1>5, <1>8 DEF vars, root
<1> QED BY <1>1, <1>2, <1>3, <1>4, <1>6, <1>7, <1>8 DEF Next

-----------------------------------------------------------------------------
(* Whoever said that it offers nothing feeds nobody from that moment on, and *)
(* a relay whose reports stopped nobody two seconds after it is missed       *)
(* (onReport, everySecond and planTree's slots).                             *)
THEOREM SparedFeedNobodyHolds == Spec => []SparedFeedNobody
<1>1. LoadInv => SparedFeedNobody
  <2> SUFFICES ASSUME LoadInv, NEW v \in Viewers, cap[v].declared = 0 \/ view[v].quiet > Silent + 1
               PROVE  Kids(plan, v) = {}
    BY DEF SparedFeedNobody
  <2>1. cap[v].est \in 0..cap[v].declared
    BY DEF LoadInv, Believed, Nodes
  <2>2. cap[v].declared = 0 => cap[v].est = 0
    BY <2>1
  <2> QED BY <2>2 DEF LoadInv, FedInv, Feeds
<1> QED BY <1>1, InitLoad, LoadStep, PTL DEF Spec

-----------------------------------------------------------------------------
(* The variables keep their types.                                           *)

CapTyped(c) == c \in [Nodes -> CapState]

LEMMA NumbersAre ==
  /\ {Calm, Silent, Dead, Settle, CutGap, Quiet, Regrow, MaxDoublings} \subseteq Nat
  /\ {Judge, Again, MoveGap, BanFor, WeakFor, OrphanBan, MaxUpsets, Long} \subseteq Nat
  /\ OrphanBan <= BanFor /\ Regrow <= Quiet /\ MaxDoublings \in 0..4
  /\ Bitrate \in Nat /\ \A n \in Nodes : Full[n] \in Nat /\ Offer(n) \in Nat
BY ConstantsAssumption, Offers DEF Long

(* Quiet periods get no shorter with more cuts.                              *)
LEMMA DoubledTypes ==
  /\ \A n \in 0..4 : Doubled(n) \in Nat /\ Quiet <= Doubled(n)
  /\ \A m, n \in 0..4 : m <= n => Doubled(m) <= Doubled(n)
<1>1. Quiet \in Nat
  BY NumbersAre
<1>2. /\ Doubled(0) = Quiet * 1 /\ Doubled(1) = Quiet * 2 /\ Doubled(2) = Quiet * 4
      /\ Doubled(3) = Quiet * 8 /\ Doubled(4) = Quiet * 16
  BY DEF Doubled
<1>3. \A n \in 0..4 : n \in {0, 1, 2, 3, 4}
  OBVIOUS
<1>4. \A n \in {0, 1, 2, 3, 4} : Doubled(n) \in Nat /\ Quiet <= Doubled(n)
  BY <1>1, <1>2
<1>5. \A m, n \in {0, 1, 2, 3, 4} : m <= n => Doubled(m) <= Doubled(n)
  BY <1>1, <1>2
<1> QED BY <1>3, <1>4, <1>5

LEMMA QuietTypes ==
  /\ QuietMost \in Nat
  /\ \A c \in CapState : QuietOf(c) \in Nat /\ Quiet <= QuietOf(c) /\ QuietOf(c) <= QuietMost
<1>1. MaxDoublings \in 0..4
  BY NumbersAre
<1>2. ASSUME NEW c \in CapState
      PROVE  QuietOf(c) \in Nat /\ Quiet <= QuietOf(c) /\ QuietOf(c) <= QuietMost
  <2> DEFINE k == Smaller(MaxDoublings, Larger(0, c.cuts - 1))
  <2>1. c.cuts \in 0..MaxDoublings + 1
    BY DEF CapState
  <2>2. k \in 0..4 /\ k <= MaxDoublings
    BY <1>1, <2>1 DEF Smaller, Larger
  <2>3. QuietOf(c) = Doubled(k)
    BY DEF QuietOf
  <2> HIDE DEF k
  <2> QED BY <1>1, <2>2, <2>3, DoubledTypes DEF QuietMost
<1> QED BY <1>1, <1>2, DoubledTypes DEF QuietMost

LEMMA UpTypes ==
  ASSUME NEW most \in Nat, NEW x \in 0..most
  PROVE  Up(x, most) \in 0..most /\ Down(x) \in 0..most
BY DEF Up, Down, Smaller, Larger

LEMMA BanTyped ==
  ASSUME TypeOK, NEW e, NEW x \in 0..BanFor
  PROVE  [ban EXCEPT ![e] = x] \in [Edges -> 0..BanFor]
BY DEF TypeOK

LEMMA TreesTyped ==
  ASSUME NEW c, NEW vw, NEW bans, NEW busy, NEW f \in Trees(c, vw, bans, busy)
  PROVE  f \in [Viewers -> Nodes \union {None}]
<1>1. f \in Shapes[Live(vw)] /\ Live(vw) \in SUBSET Viewers
  BY DEF Trees, Live
<1> QED BY <1>1 DEF Shapes

LEMMA ResettledTyped ==
  ASSUME NEW c, CapTyped(c), NEW old, NEW new
  PROVE  CapTyped(Resettled(c, old, new))
<1>1. \A n \in Nodes : c[n] \in CapState /\ [c[n] EXCEPT !.settle = Settle] \in CapState
  BY NumbersAre DEF CapTyped, CapState
<1> QED BY <1>1 DEF CapTyped, Resettled

LEMMA AgedTyped ==
  ASSUME NEW c, CapTyped(c)
  PROVE  CapTyped([n \in Nodes |-> Aged(c[n])])
<1> SUFFICES ASSUME NEW n \in Nodes PROVE Aged(c[n]) \in CapState
  BY DEF CapTyped
<1>1. c[n] \in CapState /\ c[n].since \in 0..QuietMost /\ c[n].settle \in 0..Settle
  BY DEF CapTyped, CapState
<1>2. Up(c[n].since, QuietMost) \in 0..QuietMost /\ Down(c[n].settle) \in 0..Settle
  BY <1>1, QuietTypes, NumbersAre, UpTypes
<1> QED BY <1>1, <1>2 DEF Aged, CapState

LEMMA CheckedTyped ==
  ASSUME TypeOK, LoadInv, NEW n \in Nodes, NEW c \in Checked(n)
  PROVE  c \in CapState
<1> DEFINE b == cap[n]
<1>1. b \in CapState /\ b.declared \in Nat /\ b.est \in 0..b.declared /\ b.cuts \in 0..MaxDoublings + 1
  BY DEF TypeOK, LoadInv, Believed, CapState
<1>2. c = b \/ c = Recover(b) \/ \E to \in (b.est + 1) \div 2 .. b.est - 1 : c = Cut(b, to)
  BY DEF Checked, CutTo
<1> HIDE DEF b
<1>3. CASE c = b
  BY <1>1, <1>3
<1>4. CASE c = Recover(b)
  <2>1. CASE c = [b EXCEPT !.est = Smaller(b.declared, b.est + Bitrate), !.since = QuietOf(b) - Regrow]
    <3>1. Smaller(b.declared, b.est + Bitrate) \in Nat
      BY <1>1, NumbersAre DEF Smaller
    <3>2. QuietOf(b) - Regrow \in 0..QuietMost
      BY <1>1, QuietTypes, NumbersAre
    <3> QED BY <1>1, <2>1, <3>1, <3>2 DEF CapState
  <2> QED BY <1>3, <1>4, <2>1 DEF Recover
<1>5. CASE \E to \in (b.est + 1) \div 2 .. b.est - 1 : c = Cut(b, to)
  <2>1. PICK to \in (b.est + 1) \div 2 .. b.est - 1 : c = Cut(b, to)
    BY <1>5
  <2>2. to \in Nat
    BY <1>1, <2>1
  <2>3. Up(b.cuts, MaxDoublings + 1) \in 0..MaxDoublings + 1 /\ 0 \in 0..QuietMost
    <3>1. MaxDoublings \in Nat /\ b.cuts \in 0..MaxDoublings + 1
      BY <1>1, NumbersAre
    <3>2. Up(b.cuts, MaxDoublings + 1) \in 0..MaxDoublings + 1
      BY <3>1 DEF Up, Smaller
    <3> QED BY <3>2, QuietTypes
  <2>4. c = [b EXCEPT !.est = to, !.cuts = Up(b.cuts, MaxDoublings + 1), !.since = 0]
    BY <2>1 DEF Cut
  <2> QED BY <1>1, <2>2, <2>3, <2>4 DEF CapState
<1> QED BY <1>2, <1>3, <1>4, <1>5

LEMMA InitTypes == Init => TypeOK
<1> SUFFICES ASSUME Init PROVE TypeOK
  OBVIOUS
<1>1. cap \in [Nodes -> CapState]
  <2>1. \A n \in Nodes : [declared |-> Full[n], est |-> Full[n], cuts |-> 0,
                          since |-> QuietMost, settle |-> 0] \in CapState
    BY NumbersAre, QuietTypes DEF CapState
  <2> QED BY <2>1 DEF Init
<1>2. view \in [Viewers -> ViewerState]
  BY InitLoad DEF LoadInv, ViewInv
<1>3. \A n \in Nodes : calm[n] \in [Reasons -> 0..Calm]
  BY NumbersAre DEF Init
<1>4. /\ signals \in [Nodes -> SUBSET Reasons] /\ calm \in [Nodes -> [Reasons -> 0..Calm]]
      /\ ban \in [Edges -> 0..BanFor] /\ plan \in [Viewers -> Nodes \union {None}]
  BY <1>3, NumbersAre DEF Init, Nodes
<1>5. /\ {wanted, planned} \subseteq BOOLEAN /\ due \subseteq Viewers
      /\ uplink \in [Nodes -> Queues] /\ bad \subseteq Edges
      /\ mute \subseteq Viewers /\ upsets \in 0..MaxUpsets
  <2>1. MaxUpsets \in Nat
    BY NumbersAre
  <2>2. "clear" \in Queues
    BY DEF Queues
  <2>3. uplink \in [Nodes -> Queues]
    BY <2>2 DEF Init
  <2>4. {wanted, planned} \subseteq BOOLEAN /\ due \subseteq Viewers /\ bad \subseteq Edges /\ mute \subseteq Viewers
    BY DEF Init
  <2>5. upsets \in 0..MaxUpsets
    BY <2>1 DEF Init
  <2> QED BY <2>3, <2>4, <2>5
<1> QED BY <1>1, <1>2, <1>4, <1>5 DEF TypeOK

LEMMA SecondTypes == ASSUME TypeOK, LoadInv, Second PROVE TypeOK'
<1>1. PICK c \in {d \in [Nodes -> UNION {Checked(n) : n \in Nodes}] : \A n \in Nodes : d[n] \in Checked(n)} :
        \E f : /\ f = plan \/ f \in Trees(c, view, ban, Busy(Root)')
               /\ plan' = f /\ wanted' \in BOOLEAN
               /\ cap' = [n \in Nodes |-> Aged(Resettled(c, plan, f)[n])]
  <2>1. PICK c \in {d \in [Nodes -> UNION {Checked(n) : n \in Nodes}] : \A n \in Nodes : d[n] \in Checked(n)} :
          LET want == wanted \/ Stopped \/ (\E n \in Nodes : c[n].est # cap[n].est)
              replan == (want /\ ~planned) \/ (Busy(Root) /\ ~Busy(Root)')
          IN \E f \in IF replan THEN Trees(c, view, ban, Busy(Root)') ELSE {plan} :
               /\ plan' = f /\ wanted' = (want /\ ~replan)
               /\ cap' = [n \in Nodes |-> Aged(Resettled(c, plan, f)[n])]
    BY DEF Second
  <2> DEFINE want == wanted \/ Stopped \/ (\E n \in Nodes : c[n].est # cap[n].est)
             replan == (want /\ ~planned) \/ (Busy(Root) /\ ~Busy(Root)')
  <2>2. PICK f \in IF replan THEN Trees(c, view, ban, Busy(Root)') ELSE {plan} :
               /\ plan' = f /\ wanted' = (want /\ ~replan)
               /\ cap' = [n \in Nodes |-> Aged(Resettled(c, plan, f)[n])]
    BY <2>1
  <2>3. wanted' \in BOOLEAN
    BY <2>2
  <2>4. f = plan \/ f \in Trees(c, view, ban, Busy(Root)')
    BY <2>2
  <2> QED BY <2>2, <2>3, <2>4
<1>2. PICK f : /\ f = plan \/ f \in Trees(c, view, ban, Busy(Root)')
               /\ plan' = f /\ wanted' \in BOOLEAN
               /\ cap' = [n \in Nodes |-> Aged(Resettled(c, plan, f)[n])]
  BY <1>1
<1>3. CapTyped(c)
  BY <1>1, CheckedTyped DEF CapTyped
<1>4. cap' \in [Nodes -> CapState]
  <2> DEFINE r == Resettled(c, plan, f)
  <2>1. CapTyped(r)
    BY <1>3, ResettledTyped
  <2> HIDE DEF r
  <2>2. CapTyped([n \in Nodes |-> Aged(r[n])])
    BY <2>1, AgedTyped
  <2> QED BY <1>2, <2>2 DEF CapTyped, r
<1>5. plan' \in [Viewers -> Nodes \union {None}]
  BY <1>2, TreesTyped DEF TypeOK
<1>6. view' \in [Viewers -> ViewerState]
  BY SecondLoad DEF LoadInv, ViewInv
<1>7. ban' \in [Edges -> 0..BanFor]
  <2>1. ban' = [e \in Edges |-> Down(ban[e])] /\ \A e \in Edges : ban[e] \in 0..BanFor
    BY DEF Second, TypeOK
  <2> QED BY <2>1, NumbersAre, UpTypes
<1>8. calm' \in [Nodes -> [Reasons -> 0..Calm]]
  <2>1. calm' = [n \in Nodes |-> AgedCalm(n)]
    BY DEF Second
  <2>2. \A n \in Nodes, r \in Reasons : calm[n][r] \in 0..Calm
    BY DEF TypeOK
  <2>3. \A n \in Nodes : AgedCalm(n) \in [Reasons -> 0..Calm]
    BY <2>2, NumbersAre, UpTypes DEF AgedCalm
  <2> QED BY <2>1, <2>3
<1>9. planned' = FALSE /\ due' = Viewers /\ UNCHANGED <<signals, world, upsets>>
  BY DEF Second
<1> QED BY <1>2, <1>4, <1>5, <1>6, <1>7, <1>8, <1>9 DEF TypeOK, world

LEMMA ReportTypes == ASSUME TypeOK, LoadInv, NEW v \in Viewers, Report(v) PROVE TypeOK'
<1> DEFINE told == cap[v].declared # Offer(v)
           back == view[v].quiet > Silent
           before == IF told THEN Offer(v) ELSE cap[v].est
           after == IF back THEN Larger(before, Smaller(Offer(v), Bitrate)) ELSE before
           told1 == [cap EXCEPT ![v].declared = Offer(v), ![v].est = before]
           verdict == Verdict([told1 EXCEPT ![v].est = after], v, plan[v])
           heard == [view EXCEPT
                       ![v].quiet = 0,
                       ![v].poor = IF ~Low(v) \/ verdict = "move" THEN -1 ELSE Larger(@, 0),
                       ![v].moved = IF verdict = "move" THEN 0 ELSE @,
                       ![v].weak = IF verdict \in {"spare", "leaf"} THEN WeakFor ELSE @]
           bans == IF verdict = "move" THEN [ban EXCEPT ![<<plan[v], v>>] = BanFor] ELSE ban
           fresh == [view EXCEPT ![v].quiet = 0]
<1>1. PICK f \in IF Withdrawn(v) THEN Trees(told1, fresh, ban, Busy(Root)) ELSE {plan} :
        LET told2 == [Resettled(told1, plan, f) EXCEPT ![v].est = after]
        IN \E g \in IF verdict = "move" THEN Trees(told2, heard, bans, Busy(Root)) ELSE {f} :
             plan' = g /\ cap' = Resettled(told2, f, g)
  BY DEF Report
<1> DEFINE told2 == [Resettled(told1, plan, f) EXCEPT ![v].est = after]
<1>2. PICK g \in IF verdict = "move" THEN Trees(told2, heard, bans, Busy(Root)) ELSE {f} :
        plan' = g /\ cap' = Resettled(told2, f, g)
  BY <1>1
<1>3. /\ ban' = bans /\ due' = due \ {v} /\ UNCHANGED <<machine, world, upsets>>
      /\ planned' \in BOOLEAN /\ wanted' \in BOOLEAN
  <2>1. /\ planned' = (planned \/ Withdrawn(v) \/ verdict = "move")
        /\ wanted' = IF verdict = "move" THEN FALSE
                     ELSE back \/ verdict = "leaf" \/ (wanted /\ ~Withdrawn(v)) \/ (told /\ ~Withdrawn(v))
    BY DEF Report
  <2> QED BY <2>1 DEF Report
<1>4. v \in Nodes /\ cap \in [Nodes -> CapState] /\ cap[v].est \in Nat /\ Offer(v) \in Nat /\ Bitrate \in Nat
  BY NumbersAre DEF TypeOK, Nodes, CapState
<1>5. before \in Nat /\ after \in Nat
  BY <1>4 DEF Larger, Smaller
<1>6. ban' \in [Edges -> 0..BanFor]
  <2>1. BanFor \in 0..BanFor
    BY NumbersAre
  <2> QED BY <1>3, <2>1, BanTyped DEF TypeOK
<1>7. f \in [Viewers -> Nodes \union {None}] /\ g \in [Viewers -> Nodes \union {None}]
  <2>1. f = plan \/ f \in Trees(told1, fresh, ban, Busy(Root))
    BY <1>1
  <2>2. g = f \/ g \in Trees(told2, heard, bans, Busy(Root))
    BY <1>2
  <2> QED BY <2>1, <2>2, TreesTyped DEF TypeOK
<1> HIDE DEF before, after, verdict, heard, bans, fresh
<1>8. CapTyped(told1)
  BY <1>4, <1>5 DEF CapTyped, CapState
<1> HIDE DEF told1
<1>9. CapTyped(told2)
  <2> DEFINE rest == Resettled(told1, plan, f)
  <2>1. rest \in [Nodes -> CapState]
    BY <1>8, ResettledTyped DEF CapTyped
  <2> HIDE DEF rest
  <2>2. told2 = [rest EXCEPT ![v].est = after]
    BY DEF rest
  <2>3. [rest[v] EXCEPT !.est = after] \in CapState
    BY <1>4, <1>5, <2>1 DEF CapState
  <2> QED BY <1>4, <2>1, <2>2, <2>3 DEF CapTyped
<1> HIDE DEF told2
<1>10. cap' \in [Nodes -> CapState]
  BY <1>2, <1>9, ResettledTyped DEF CapTyped
<1>11. view' \in [Viewers -> ViewerState]
  BY ReportLoad DEF LoadInv, ViewInv
<1> QED BY <1>2, <1>3, <1>6, <1>7, <1>10, <1>11 DEF TypeOK, machine, world

LEMMA OrphanTypes == ASSUME TypeOK, LoadInv, NEW v \in Viewers, Orphan(v) PROVE TypeOK'
<1> DEFINE p == plan[v]
           c == IF p \in Viewers /\ view[p].quiet > 1 THEN [cap EXCEPT ![p].est = 0] ELSE cap
           bans == IF p \in Viewers THEN [ban EXCEPT ![<<p, v>>] = OrphanBan] ELSE ban
<1>1. PICK f \in Trees(c, view, bans, Busy(Root)) : plan' = f /\ cap' = Resettled(c, plan, f)
  BY DEF Orphan
<1>2. /\ ban' = bans /\ planned' = TRUE /\ wanted' = FALSE /\ Upset
      /\ UNCHANGED <<machine, view, due, world>>
  BY DEF Orphan
<1>3. CapTyped(c)
  BY DEF CapTyped, CapState, TypeOK
<1>4. bans \in [Edges -> 0..BanFor]
  <2>1. OrphanBan \in 0..BanFor
    BY NumbersAre
  <2> QED BY <2>1, BanTyped DEF TypeOK
<1> HIDE DEF c, bans
<1>5. cap' \in [Nodes -> CapState] /\ plan' \in [Viewers -> Nodes \union {None}]
  BY <1>1, <1>3, ResettledTyped, TreesTyped DEF CapTyped
<1>6. upsets' \in 0..MaxUpsets
  BY <1>2, NumbersAre DEF Upset, TypeOK
<1> QED BY <1>2, <1>4, <1>5, <1>6 DEF TypeOK, machine, world

LEMMA WorldTypes ==
  ASSUME TypeOK, \/ Reapply \/ Worse \/ Better \/ UNCHANGED vars
                 \/ \E n \in Nodes, r \in Reasons : SignalOn(n, r) \/ SignalOff(n, r)
  PROVE  TypeOK'
<1>1. Upset => upsets' \in 0..MaxUpsets
  BY NumbersAre DEF Upset, TypeOK
<1>2. CASE Reapply
  <2>1. cap' \in [Nodes -> CapState]
    BY <1>2, NumbersAre DEF Reapply, TypeOK, CapState, Nodes
  <2> QED BY <1>1, <1>2, <2>1 DEF Reapply, TypeOK, machine, world
<1>3. CASE Worse
  BY <1>1, <1>3 DEF Worse, TypeOK, machine, root
<1>4. CASE Better
  BY <1>4 DEF Better, TypeOK, machine, root, Queues
<1>5. ASSUME NEW n \in Nodes, NEW r \in Reasons, SignalOn(n, r) \/ SignalOff(n, r) PROVE TypeOK'
  <2>1. signals' \in [Nodes -> SUBSET Reasons] /\ calm' \in [Nodes -> [Reasons -> 0..Calm]]
    <3>1. signals' \in {[signals EXCEPT ![n] = @ \union {r}], [signals EXCEPT ![n] = @ \ {r}]}
      BY <1>5 DEF SignalOn, SignalOff
    <3>2. signals' \in [Nodes -> SUBSET Reasons]
      BY <3>1 DEF TypeOK
    <3>3. calm' = [calm EXCEPT ![n][r] = 0]
      BY <1>5 DEF SignalOn, SignalOff
    <3>4. 0 \in 0..Calm
      BY NumbersAre
    <3>5. calm' \in [Nodes -> [Reasons -> 0..Calm]]
      BY <3>3, <3>4 DEF TypeOK
    <3> QED BY <3>2, <3>5
  <2>2. CASE SignalOff(n, r)
    BY <2>1, <2>2 DEF SignalOff, TypeOK, root, world
  <2>3. CASE SignalOn(n, r)
    <3>1. UNCHANGED <<view, ban, world>> /\ upsets' \in 0..MaxUpsets
      BY <1>1, <2>3 DEF SignalOn, root
    <3>2. {wanted', planned'} \subseteq BOOLEAN /\ due' \subseteq Viewers
      BY <2>3 DEF SignalOn, TypeOK, root, Nodes
    <3>3. cap' \in [Nodes -> CapState] /\ plan' \in [Viewers -> Nodes \union {None}]
      <4>1. CASE UNCHANGED root
        BY <4>1 DEF root, TypeOK
      <4>2. ASSUME NEW f \in Trees(cap, view, ban, TRUE), plan' = f, cap' = Resettled(cap, plan, f)
            PROVE  cap' \in [Nodes -> CapState] /\ plan' \in [Viewers -> Nodes \union {None}]
        BY <4>2, ResettledTyped, TreesTyped DEF CapTyped, TypeOK
      <4> QED BY <2>3, <4>1, <4>2 DEF SignalOn
    <3> QED BY <2>1, <3>1, <3>2, <3>3 DEF TypeOK, world
  <2> QED BY <1>5, <2>2, <2>3
<1>6. CASE UNCHANGED vars
  BY <1>6 DEF vars, TypeOK, machine, root, world
<1> QED BY <1>2, <1>3, <1>4, <1>5, <1>6

(* The variables keep their types: in particular no estimate is negative, the*)
(* quiet period stops doubling, and every viewer planned for has a place.    *)
THEOREM LoadTypeCorrect == Spec => []TypeOK
<1> DEFINE Inv == TypeOK /\ LoadInv
<1>1. Init => Inv
  BY InitTypes, InitLoad
<1>2. Inv /\ [Next]_vars => Inv'
  <2>1. ASSUME Inv, [Next]_vars PROVE TypeOK'
    BY <2>1, SecondTypes, ReportTypes, OrphanTypes, WorldTypes DEF Next
  <2> QED BY <2>1, LoadStep
<1> QED BY <1>1, <1>2, PTL DEF Spec
=============================================================================

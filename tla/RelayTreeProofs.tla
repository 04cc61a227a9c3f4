------------------------- MODULE RelayTreeProofs ----------------------------
(***************************************************************************)
(* Whatever viewers, broadcasts, re-plans, departures and failures there are,*)
(* all ends of a relayed broadcast agree once everything has arrived.        *)
(*                                                                           *)
(* The broadcaster and a viewer tell each other only what changes, so the    *)
(* inductive invariant says of every viewer's two channels that what one end *)
(* believes, followed by what is on its way to it, ends at what the other    *)
(* believes: Hearsay of the stream there is, Toggled of who watches, Synced  *)
(* of a viewer's place in the tree.                                          *)
(***************************************************************************)
EXTENDS RelayTree, SequenceTheorems, TLAPS

\* The i-th message of the queue q is a t about stream n.
Says(q, t, i, n) == i \in DOMAIN q /\ q[i].t = t /\ q[i].stream = n

\* Streams are numbered as they begin, so a new one is not spoken of yet.
Numbered ==
  /\ stream <= spent.streams
  /\ \A v \in Viewers :
       /\ heard[v] <= spent.streams
       /\ \A t, i, n : Says(toRoot[v], t, i, n) => n <= spent.streams
       /\ \A t, i, n : Says(toViewer[v], t, i, n) =>
            n <= spent.streams /\ (t \in {"announce", "end"} => n # 0)

\* Viewers watch what they hear of if they chose to; before its channel opens a
\* viewer hears of nothing.
Choosing ==
  \A v \in Viewers :
    /\ v \in watching <=> v \in wants /\ heard[v] # 0
    /\ v \notin open => heard[v] = 0 /\ \A t, i, n : Says(toViewer[v], t, i, n) => t = "assign"

Told(v, t, i, n) == Says(toViewer[v], t, i, n)

\* v hears of stream n at i; it has heard what stands at 0.
Hearing(v, i, n) == (i = 0 /\ heard[v] = n) \/ Told(v, "announce", i, n)

\* v hears of the stream there is, of no other after it and not of its end; of
\* the end of every other it hears.
Hearsay(v) ==
  /\ stream # 0 => \E i \in Nat : Hearing(v, i, stream)
  /\ stream # 0 => \A i, j, n \in Nat : Hearing(v, i, stream) /\ i < j /\ Told(v, "announce", j, n) => n = stream
  /\ stream # 0 => \A i \in Nat : ~Told(v, "end", i, stream)
  /\ \A i, n \in Nat : n \notin {0, stream} /\ Hearing(v, i, n) => \E j \in Nat : i < j /\ Told(v, "end", j, n)

Toggle(v, t, i) == stream # 0 /\ Says(toRoot[v], t, i, stream)
Watches(v) == v \in watching /\ heard[v] = stream /\ stream # 0

\* The broadcaster counts v as a viewer at i; what it has counted stands at 0.
On(v, i) == (i = 0 /\ v \in known) \/ Toggle(v, "watch", i)
Off(v, i) == Toggle(v, "unwatch", i)

\* v is counted in the end if it watches, and never twice without a break.
Toggled(v) ==
  /\ ~Watches(v) => \A i \in Nat : On(v, i) => \E j \in Nat : i < j /\ Off(v, j)
  /\ Watches(v) => \E i \in Nat : On(v, i) /\ \A j \in Nat : i < j => ~Off(v, j)
  /\ \A i, k \in Nat : i < k /\ On(v, i) /\ On(v, k) => \E j \in Nat : i < j /\ j < k /\ Off(v, j)

Assigned(v, i) == stream # 0 /\ Told(v, "assign", i, stream)

\* Places are sent in the order of their epochs, none older than the last seen.
Dated(v) ==
  /\ stream # 0 /\ heard[v] = stream => seen[v] <= epoch
  /\ \A i \in Nat : Assigned(v, i) =>
       /\ toViewer[v][i].epoch <= epoch
       /\ heard[v] = stream => seen[v] <= toViewer[v][i].epoch
       /\ \A j \in Nat : i < j /\ Assigned(v, j) => toViewer[v][i].epoch <= toViewer[v][j].epoch

\* The plan is over the viewers the broadcaster counts and has a link to.
Planned ==
  /\ known # {} => stream # 0
  /\ \A v \in Viewers : plan[v] # None => v \in known
  /\ known \subseteq links[Root]
  /\ \A v \in known \ apart : plan[v] # None
  /\ \A v \in Viewers : plan[v] \in Viewers => plan[plan[v]] # None /\ plan[v] # v
  /\ active[Root] = Kids(plan, Root)

Linked ==
  /\ gone \subseteq apart /\ Viewers \ apart \subseteq links[Root]
  /\ \A v, w \in Viewers : v # w /\ ~Dead(v, w) => w \in links[v]
  /\ \A v \in Viewers : active[v] \union draining[v] \subseteq links[v]

\* Without the connection to the broadcaster a viewer hears of no stream.
Parted == \A v \in Viewers : Root \notin links[v] => heard[v] = 0

\* v has the place the plan gives it, as far as links are not dead.
Applied(v) ==
  /\ parent[v] = plan[v] \/ (parent[v] = None /\ plan[v] \in Viewers /\ Dead(v, plan[v]))
  /\ \A w \in Kids(plan, v) : w \in active[v] \/ Dead(v, w)
  /\ active[v] \subseteq Kids(plan, v)

\* Nothing about v's watching is on its way.
Settled(v) == v \in known /\ Watches(v) /\ \A i \in Nat : i > 0 => ~On(v, i)

\* The last place sent to v is the one in the plan; v has it if none is on its way.
Latest(v, i) == Assigned(v, i) /\ \A j \in Nat : i < j => ~Assigned(v, j)
Reached(v) ==
  /\ (\A i \in Nat : ~Assigned(v, i)) => Applied(v)
  /\ \A i \in Nat : Latest(v, i) => toViewer[v][i].parent = plan[v] /\ toViewer[v][i].kids = Kids(plan, v)
Synced(v) == Settled(v) => Reached(v)

Talking == \A v \in Viewers \ apart : (v \in open => Hearsay(v)) /\ Toggled(v)
Placing == \A v \in Viewers \ apart : Dated(v) /\ Synced(v)

TreeInv == TypeOK /\ Numbered /\ Choosing /\ Planned /\ Linked /\ Parted /\ Talking /\ Placing

-----------------------------------------------------------------------------
(* Queues.                                                                   *)

LEMMA TakenOff ==
  ASSUME NEW S, NEW q \in Seq(S), q # <<>>
  PROVE  /\ Tail(q) \in Seq(S) /\ Head(q) = q[1] /\ Head(q) \in S /\ 1 \in DOMAIN q
         /\ \A i \in Nat \ {0} : (i \in DOMAIN Tail(q) <=> i + 1 \in DOMAIN q)
         /\ \A i \in Nat \ {0} : i \in DOMAIN Tail(q) => Tail(q)[i] = q[i + 1]
         /\ 0 \notin DOMAIN Tail(q)
  BY HeadTailProperties

LEMMA PutOn ==
  ASSUME NEW S, NEW q \in Seq(S), NEW m \in S
  PROVE  /\ Append(q, m) \in Seq(S) /\ q \o <<m>> = Append(q, m)
         /\ Len(q) + 1 \in Nat \ {0} /\ Len(q) + 1 \notin DOMAIN q
         /\ \A i : (i \in DOMAIN Append(q, m) <=> i \in DOMAIN q \/ i = Len(q) + 1)
         /\ \A i \in DOMAIN q : i \in Nat \ {0} /\ i < Len(q) + 1 /\ Append(q, m)[i] = q[i]
         /\ Append(q, m)[Len(q) + 1] = m
<1>1. DOMAIN q = 1..Len(q) /\ Len(q) \in Nat
  OBVIOUS
<1>2. Append(q, m) \in Seq(S) /\ Len(Append(q, m)) = Len(q) + 1 /\ Append(q, m)[Len(q) + 1] = m
      /\ \A i \in 1..Len(q) : Append(q, m)[i] = q[i]
  BY AppendProperties
<1>3. q \o <<m>> = Append(q, m)
  BY AppendIsConcat
<1>4. DOMAIN Append(q, m) = 1..(Len(q) + 1)
  BY <1>2
<1> QED BY <1>1, <1>2, <1>3, <1>4

LEMMA SaysTail ==
  ASSUME NEW S, NEW q \in Seq(S), q # <<>>, NEW i \in Nat \ {0}, NEW t, NEW n
  PROVE  Says(Tail(q), t, i, n) <=> Says(q, t, i + 1, n)
  BY TakenOff DEF Says

LEMMA SaysAppend ==
  ASSUME NEW S, NEW q \in Seq(S), NEW m \in S, NEW i, NEW t, NEW n
  PROVE  Says(Append(q, m), t, i, n) <=>
           Says(q, t, i, n) \/ (i = Len(q) + 1 /\ m.t = t /\ m.stream = n)
  BY PutOn DEF Says

\* Places in a queue are counted from 1.
LEMMA SaysWhere ==
  ASSUME NEW S, NEW q \in Seq(S), NEW i, NEW t, NEW n, Says(q, t, i, n)
  PROVE  i \in Nat \ {0} /\ i < Len(q) + 1 /\ Len(q) + 1 \in Nat
<1>1. DOMAIN q = 1..Len(q) /\ Len(q) \in Nat
  OBVIOUS
<1> QED BY <1>1 DEF Says

LEMMA SaysEmpty ==
  ASSUME NEW i, NEW t, NEW n
  PROVE  ~Says(<<>>, t, i, n)
<1>1. DOMAIN <<>> = {}
  OBVIOUS
<1> QED BY <1>1 DEF Says

-----------------------------------------------------------------------------
(* Types.                                                                    *)

LEMMA Places == Root \in Nodes /\ None \notin Nodes /\ Root \notin Viewers /\ Viewers \subseteq Nodes
                /\ Nodes = Viewers \union {Root} /\ None \notin Viewers /\ None # Root
  BY ConstantsAssumption DEF Nodes

Place(v) == [t |-> "assign", stream |-> stream, epoch |-> epoch + 1, parent |-> plan'[v], kids |-> Kids(plan', v)]

\* v has been sent its place in the new plan, after what the queue q held.
SentPlace(v, q) == toViewer'[v] = Append(q, Place(v))

\* A re-plan: a tree over the viewers in live, and a place sent to every viewer
\* whose place is another.
Regrown(live, watcher, act, drain, queue) ==
  /\ plan' \in [Viewers -> Nodes \union {None}] /\ epoch' = epoch + 1 /\ epoch' \in Nat
  /\ banned' \subseteq Nodes \X Viewers
  /\ active' \in [Nodes -> SUBSET Viewers] /\ draining' \in [Nodes -> SUBSET Viewers]
  /\ toViewer' \in [Viewers -> Seq(ToViewer)]
  /\ \A v \in Viewers : plan'[v] = None <=> v \notin live
  /\ \A v \in live : plan'[v] \in live \union {Root} /\ plan'[v] # v
  /\ active'[Root] = {w \in Kids(plan', Root) : w \in act[Root] \union drain[Root] \union links[Root]}
  /\ \A v \in Viewers : active'[v] = act[v] /\ draining'[v] = drain[v]
  /\ \A v \in Viewers : toViewer'[v] = queue[v] \/ SentPlace(v, queue[v])
  /\ \A v \in live : v \in links[Root] =>
       \/ SentPlace(v, queue[v])
       \/ /\ toViewer'[v] = queue[v] /\ v # watcher
          /\ plan'[v] = plan[v] /\ Kids(plan', v) = Kids(plan, v)
  /\ \A v \in Viewers : Place(v) \in ToViewer

LEMMA Replanned ==
  ASSUME TypeOK, NEW live \in SUBSET Viewers, NEW bans \in SUBSET (Nodes \X Viewers), NEW watcher,
         NEW act \in [Nodes -> SUBSET Viewers], NEW drain \in [Nodes -> SUBSET Viewers],
         NEW queue \in [Viewers -> Seq(ToViewer)], Replan(live, bans, watcher, act, drain, queue)
  PROVE  Regrown(live, watcher, act, drain, queue)
<1>1. PICK f \in Trees(live, bans) :
        /\ plan' = f /\ epoch' = epoch + 1 /\ banned' = bans
        /\ SetKids(Root, Kids(f, Root), act, drain)
        /\ toViewer' = [v \in Viewers |->
             IF Sent(f, v, watcher) THEN Append(queue[v], Assign(epoch + 1, f, v)) ELSE queue[v]]
  BY DEF Replan
<1>2. f \in [Viewers -> Nodes \union {None}] /\ (\A v \in Viewers : f[v] = None <=> v \notin live)
      /\ \A v \in live : f[v] \in live \union {Root}
  BY DEF Trees
<1>3. \A v \in live : f[v] # v
  <2>1. PICK d \in [live -> 1..Cardinality(live)] : \A v \in live : f[v] \in live => d[f[v]] < d[v]
    BY DEF Trees
  <2> QED BY <2>1
<1>4. epoch \in Nat /\ stream \in Nat /\ epoch + 1 \in Nat
  BY DEF TypeOK
<1>5. \A v \in Viewers : Kids(f, v) \subseteq Viewers /\ f[v] \in Nodes \union {None}
  BY <1>2 DEF Kids
<1>6. \A v \in Viewers : Place(v) = Assign(epoch + 1, f, v) /\ Place(v) \in ToViewer
  BY <1>1, <1>4, <1>5 DEF Place, Assign, ToViewer
<1>7. /\ active' \in [Nodes -> SUBSET Viewers] /\ draining' \in [Nodes -> SUBSET Viewers]
      /\ active'[Root] = {w \in Kids(f, Root) : w \in act[Root] \union drain[Root] \union links[Root]}
      /\ \A v \in Viewers : active'[v] = act[v] /\ draining'[v] = drain[v]
  <2>1. Kids(f, Root) \subseteq Viewers
    BY DEF Kids
  <2>2. {w \in Kids(f, Root) : w \in act[Root] \union drain[Root] \union links[Root]} \in SUBSET Viewers
    BY <2>1
  <2>3. (drain[Root] \union act[Root]) \ Kids(f, Root) \in SUBSET Viewers
    BY Places
  <2> QED BY <1>1, <2>2, <2>3, Places DEF SetKids
<1>8. \A v \in Viewers : toViewer'[v] = queue[v] \/ SentPlace(v, queue[v])
  BY <1>1, <1>6 DEF SentPlace
<1>9. toViewer' \in [Viewers -> Seq(ToViewer)]
  <2>1. \A v \in Viewers : Append(queue[v], Assign(epoch + 1, f, v)) \in Seq(ToViewer)
    BY <1>6, AppendProperties
  <2> QED BY <1>1, <2>1
<1>10. \A v \in live : v \in links[Root] =>
         \/ SentPlace(v, queue[v])
         \/ /\ toViewer'[v] = queue[v] /\ v # watcher
            /\ plan'[v] = plan[v] /\ Kids(plan', v) = Kids(plan, v)
  <2>1. SUFFICES ASSUME NEW v \in live, v \in links[Root], ~SentPlace(v, queue[v])
                 PROVE  toViewer'[v] = queue[v] /\ v # watcher /\ f[v] = plan[v] /\ Kids(f, v) = Kids(plan, v)
    BY <1>1
  <2>2. ~Sent(f, v, watcher)
    BY <1>1, <1>6, <2>1 DEF SentPlace
  <2>3. f[v] # None
    BY <1>2, <2>1
  <2> QED BY <1>1, <2>1, <2>2, <2>3 DEF Sent, Changed
<1> QED BY <1>1, <1>2, <1>3, <1>4, <1>6, <1>7, <1>8, <1>9, <1>10 DEF Regrown

LEMMA LiveAre ==
  ASSUME NEW viewers \in SUBSET Viewers, NEW live \in Lives(viewers)
  PROVE  live \in SUBSET Viewers /\ live \subseteq viewers /\ viewers \ apart \subseteq live
  BY DEF Lives

\* What Announced does to a queue.
LEMMA AnnouncedOne ==
  ASSUME TypeOK, NEW m \in ToViewer
  PROVE  /\ Announced(<<m>>) \in [Viewers -> Seq(ToViewer)]
         /\ \A v \in Viewers : Announced(<<m>>)[v] =
              IF v \in open \intersect links[Root] THEN Append(toViewer[v], m) ELSE toViewer[v]
<1>1. \A v \in Viewers : toViewer[v] \in Seq(ToViewer)
  BY DEF TypeOK
<1>2. \A v \in Viewers : toViewer[v] \o <<m>> = Append(toViewer[v], m) /\ Append(toViewer[v], m) \in Seq(ToViewer)
  BY <1>1, PutOn
<1> QED BY <1>1, <1>2 DEF Announced

LEMMA TwoOn ==
  ASSUME NEW S, NEW q \in Seq(S), NEW m \in S, NEW k \in S
  PROVE  q \o (<<m>> \o <<k>>) = Append(Append(q, m), k)
  OBVIOUS

LEMMA Messages ==
  ASSUME NEW n \in Nat, NEW p \in Nodes \union {None}
  PROVE  /\ Tell("announce", n) \in ToViewer /\ Tell("end", n) \in ToViewer
         /\ Tell("announce", n).t = "announce" /\ Tell("announce", n).stream = n
         /\ Tell("end", n).t = "end" /\ Tell("end", n).stream = n
         /\ \A t \in {"watch", "unwatch", "orphan"} : Msg(t, n, p) \in ToRoot /\ Msg(t, n, p).t = t
                                                      /\ Msg(t, n, p).stream = n
  BY DEF Tell, Msg, ToViewer, ToRoot

\* The end of the stream there is, then what ms says.
LEMMA AnnouncedEnd ==
  ASSUME TypeOK, NEW n \in Nat
  PROVE  /\ Announced(Ending) \in [Viewers -> Seq(ToViewer)]
         /\ Announced(Ending \o <<Tell("announce", n)>>) \in [Viewers -> Seq(ToViewer)]
         /\ \A v \in Viewers :
              LET q == IF stream # 0 THEN Append(toViewer[v], Tell("end", stream)) ELSE toViewer[v]
              IN IF v \in open \intersect links[Root]
                   THEN /\ Announced(Ending)[v] = q /\ q \in Seq(ToViewer)
                        /\ Announced(Ending \o <<Tell("announce", n)>>)[v] = Append(q, Tell("announce", n))
                   ELSE /\ Announced(Ending)[v] = toViewer[v]
                        /\ Announced(Ending \o <<Tell("announce", n)>>)[v] = toViewer[v]
<1>1. \A v \in Viewers : toViewer[v] \in Seq(ToViewer)
  BY DEF TypeOK
<1>2. stream \in Nat /\ Tell("announce", n) \in ToViewer /\ Tell("end", stream) \in ToViewer
  BY Messages, Places DEF TypeOK
<1>3. CASE stream = 0
  <2>1. Ending = <<>> /\ Ending \o <<Tell("announce", n)>> = <<Tell("announce", n)>>
    BY <1>2, <1>3 DEF Ending
  <2>2. \A v \in Viewers : toViewer[v] \o <<>> = toViewer[v]
    BY <1>1, ConcatEmptySeq
  <2>3. \A v \in Viewers : toViewer[v] \o <<Tell("announce", n)>> = Append(toViewer[v], Tell("announce", n))
                           /\ Append(toViewer[v], Tell("announce", n)) \in Seq(ToViewer)
    BY <1>1, <1>2, PutOn
  <2> QED BY <1>1, <1>3, <2>1, <2>2, <2>3 DEF Announced
<1>4. CASE stream # 0
  <2>1. Ending = <<Tell("end", stream)>>
    BY <1>4 DEF Ending
  <2>2. \A v \in Viewers : /\ toViewer[v] \o Ending = Append(toViewer[v], Tell("end", stream))
                           /\ Append(toViewer[v], Tell("end", stream)) \in Seq(ToViewer)
    BY <1>1, <1>2, <2>1, PutOn
  <2>3. \A v \in Viewers :
          /\ toViewer[v] \o (Ending \o <<Tell("announce", n)>>) =
               Append(Append(toViewer[v], Tell("end", stream)), Tell("announce", n))
          /\ Append(Append(toViewer[v], Tell("end", stream)), Tell("announce", n)) \in Seq(ToViewer)
    <3>1. SUFFICES ASSUME NEW v \in Viewers
                   PROVE  /\ toViewer[v] \o (Ending \o <<Tell("announce", n)>>) =
                               Append(Append(toViewer[v], Tell("end", stream)), Tell("announce", n))
                          /\ Append(Append(toViewer[v], Tell("end", stream)), Tell("announce", n)) \in Seq(ToViewer)
      OBVIOUS
    <3>2. toViewer[v] \o (Ending \o <<Tell("announce", n)>>)
            = Append(Append(toViewer[v], Tell("end", stream)), Tell("announce", n))
      BY <1>1, <1>2, <2>1, TwoOn
    <3>3. Append(toViewer[v], Tell("end", stream)) \in Seq(ToViewer)
      BY <2>2
    <3> QED BY <1>2, <3>2, <3>3, AppendProperties
  <2> QED BY <1>1, <1>4, <2>2, <2>3 DEF Announced
<1> QED BY <1>3, <1>4

\* What a re-plan does, the queues of the viewers having been queue.
Moves(watcher, queue) ==
  /\ plan' \in [Viewers -> Nodes \union {None}] /\ epoch' = epoch + 1 /\ epoch' \in Nat
  /\ banned' \subseteq Nodes \X Viewers
  /\ active' \in [Nodes -> SUBSET Viewers] /\ draining' \in [Nodes -> SUBSET Viewers]
  /\ toViewer' \in [Viewers -> Seq(ToViewer)]
  /\ \A v \in Viewers : plan'[v] # None => v \in known'
  /\ \A v \in known' \ apart : plan'[v] # None
  /\ \A v \in Viewers : plan'[v] \in Viewers => plan'[plan'[v]] # None /\ plan'[v] # v
  /\ active'[Root] = Kids(plan', Root)
  /\ \A v \in Viewers : active'[v] = active[v] /\ draining'[v] = draining[v]
  /\ \A v \in Viewers : toViewer'[v] = queue[v] \/ SentPlace(v, queue[v])
  /\ \A v \in known' : plan'[v] # None =>
       \/ SentPlace(v, queue[v])
       \/ toViewer'[v] = queue[v] /\ v # watcher /\ plan'[v] = plan[v] /\ Kids(plan', v) = Kids(plan, v)
  /\ \A v \in Viewers : Place(v) \in ToViewer

LEMMA ReplanMoves ==
  ASSUME TypeOK, known' \in SUBSET Viewers, known' \subseteq links[Root], NEW live \in Lives(known'),
         NEW bans \in SUBSET (Nodes \X Viewers), NEW watcher,
         NEW act \in [Nodes -> SUBSET Viewers], NEW drain \in [Nodes -> SUBSET Viewers],
         \A v \in Viewers : act[v] = active[v] /\ drain[v] = draining[v],
         NEW queue \in [Viewers -> Seq(ToViewer)], Replan(live, bans, watcher, act, drain, queue)
  PROVE  Moves(watcher, queue)
<1>1. live \in SUBSET Viewers /\ live \subseteq known' /\ known' \ apart \subseteq live
  BY LiveAre
<1>0. Regrown(live, watcher, act, drain, queue)
  BY <1>1, Replanned
<1>2. /\ plan' \in [Viewers -> Nodes \union {None}] /\ epoch' = epoch + 1 /\ epoch' \in Nat
      /\ banned' \subseteq Nodes \X Viewers
      /\ active' \in [Nodes -> SUBSET Viewers] /\ draining' \in [Nodes -> SUBSET Viewers]
      /\ toViewer' \in [Viewers -> Seq(ToViewer)]
      /\ \A v \in Viewers : active'[v] = act[v] /\ draining'[v] = drain[v]
      /\ \A v \in Viewers : toViewer'[v] = queue[v] \/ SentPlace(v, queue[v])
      /\ \A v \in Viewers : Place(v) \in ToViewer
  BY <1>0 DEF Regrown
<1>3. /\ \A v \in Viewers : plan'[v] = None <=> v \notin live
      /\ \A v \in live : plan'[v] \in live \union {Root} /\ plan'[v] # v
      /\ active'[Root] = {w \in Kids(plan', Root) : w \in act[Root] \union drain[Root] \union links[Root]}
      /\ \A v \in live : v \in links[Root] =>
           \/ SentPlace(v, queue[v])
           \/ /\ toViewer'[v] = queue[v] /\ v # watcher
              /\ plan'[v] = plan[v] /\ Kids(plan', v) = Kids(plan, v)
  BY <1>0 DEF Regrown
<1>4. active'[Root] = Kids(plan', Root)
  <2>1. \A w \in Kids(plan', Root) : w \in links[Root]
    BY <1>1, <1>3, Places DEF Kids
  <2> QED BY <1>3, <2>1
<1>5. \A v \in Viewers : plan'[v] \in Viewers => plan'[plan'[v]] # None /\ plan'[v] # v
  BY <1>1, <1>3, Places
<1> QED BY <1>1, <1>2, <1>3, <1>4, <1>5 DEF Moves

\* The steps that make the broadcaster plan again.
LEMMA ReplanSteps ==
  ASSUME TypeOK, Planned
  PROVE  /\ Evidence => Moves(None, toViewer)
         /\ SetBroadcastBitrate => Moves(None, Announced(<<Tell("announce", stream)>>))
         /\ \A v \in Viewers :
              /\ RecvWatch(v) /\ v \notin known => Moves(v, toViewer)
              /\ RecvUnwatch(v) /\ v \in known => Moves(None, toViewer)
              /\ RecvOrphan(v) /\ v \in known => Moves(None, toViewer)
              /\ DetachRoot(v) /\ v \in known => Moves(None, toViewer)
<1>1. /\ active \in [Nodes -> SUBSET Viewers] /\ draining \in [Nodes -> SUBSET Viewers]
      /\ toViewer \in [Viewers -> Seq(ToViewer)] /\ known \in SUBSET Viewers
      /\ banned \in SUBSET (Nodes \X Viewers) /\ known \subseteq links[Root] /\ stream \in Nat
  BY DEF TypeOK, Planned
<1>2. \A v \in Viewers :
        /\ Without(active, Root, v) \in [Nodes -> SUBSET Viewers]
        /\ Without(draining, Root, v) \in [Nodes -> SUBSET Viewers]
        /\ \A w \in Viewers : Without(active, Root, v)[w] = active[w] /\ Without(draining, Root, v)[w] = draining[w]
  BY <1>1, Places DEF Without
<1>3. ASSUME Evidence PROVE Moves(None, toViewer)
  <2>1. PICK live \in Lives(known), old \in {banned, {e \in banned : cooling[e[2]] # None}},
             moved \in {{}} \union {{<<parent[v], v>>} : v \in {w \in known : parent[w] \in Viewers}} :
          Replan(live, old \union moved, None, active, draining, toViewer)
    BY <1>3 DEF Evidence
  <2>2. old \union moved \in SUBSET (Nodes \X Viewers)
    <3>1. old \subseteq Nodes \X Viewers
      BY <1>1, <2>1
    <3>2. moved \subseteq Nodes \X Viewers
      BY <1>1, <2>1, Places
    <3> QED BY <3>1, <3>2
  <2>3. known' = known
    BY <1>3 DEF Evidence
  <2> QED BY <1>1, <2>1, <2>2, <2>3, ReplanMoves
<1>4. ASSUME SetBroadcastBitrate PROVE Moves(None, Announced(<<Tell("announce", stream)>>))
  <2>1. PICK live \in Lives(known) :
          Replan(live, banned, None, active, draining, Announced(<<Tell("announce", stream)>>))
    BY <1>4 DEF SetBroadcastBitrate
  <2>2. Announced(<<Tell("announce", stream)>>) \in [Viewers -> Seq(ToViewer)]
    BY <1>1, AnnouncedOne, Messages, Places
  <2>3. known' = known
    BY <1>4 DEF SetBroadcastBitrate
  <2> QED BY <1>1, <2>1, <2>2, <2>3, ReplanMoves
<1>5. ASSUME NEW v \in Viewers, RecvWatch(v), v \notin known PROVE Moves(v, toViewer)
  <2>1. known' = known \union {v} /\ v \in links[Root]
    BY <1>5 DEF RecvWatch, Hears, Arrives
  <2>2. PICK live \in Lives(known') : Replan(live, banned, v, active, draining, toViewer)
    BY <1>5 DEF RecvWatch
  <2> QED BY <1>1, <2>1, <2>2, ReplanMoves
<1>6. ASSUME NEW v \in Viewers, RecvUnwatch(v), v \in known PROVE Moves(None, toViewer)
  <2>1. known' = known \ {v}
    BY <1>6 DEF RecvUnwatch
  <2>2. PICK live \in Lives(known') :
          Replan(live, banned, None, Without(active, Root, v), Without(draining, Root, v), toViewer)
    BY <1>6 DEF RecvUnwatch
  <2> QED BY <1>1, <1>2, <2>1, <2>2, ReplanMoves
<1>7. ASSUME NEW v \in Viewers, RecvOrphan(v), v \in known PROVE Moves(None, toViewer)
  <2> DEFINE bans == banned \union ({<<Head(toRoot[v]).parent, v>>} \intersect (Viewers \X Viewers))
  <2>1. known' = known
    BY <1>7 DEF RecvOrphan
  <2>2. PICK live \in Lives(known) : Replan(live, bans, None, active, draining, toViewer)
    BY <1>7 DEF RecvOrphan
  <2>3. bans \in SUBSET (Nodes \X Viewers)
    BY <1>1, Places
  <2> HIDE DEF bans
  <2> QED BY <1>1, <2>1, <2>2, <2>3, ReplanMoves
<1>8. ASSUME NEW v \in Viewers, DetachRoot(v), v \in known PROVE Moves(None, toViewer)
  <2>1. known' = known \ {v}
    BY <1>8 DEF DetachRoot
  <2>2. PICK live \in Lives(known') :
          Replan(live, banned, None, Without(active, Root, v), Without(draining, Root, v), toViewer)
    BY <1>8 DEF DetachRoot
  <2> QED BY <1>1, <1>2, <2>1, <2>2, ReplanMoves
<1> QED BY <1>3, <1>4, <1>5, <1>6, <1>7, <1>8

\* The parts of TypeOK that steps of the broadcaster leave to others.
LEMMA TookTyped ==
  ASSUME TypeOK, NEW v \in Viewers, toRoot[v] # <<>>, Took(v)
  PROVE  toRoot' \in [Viewers -> Seq(ToRoot)] /\ Head(toRoot[v]) \in ToRoot
<1>1. toRoot[v] \in Seq(ToRoot) /\ toRoot \in [Viewers -> Seq(ToRoot)]
  BY DEF TypeOK
<1>2. Tail(toRoot[v]) \in Seq(ToRoot) /\ Head(toRoot[v]) \in ToRoot
  BY <1>1, TakenOff
<1> QED BY <1>1, <1>2 DEF Took

LEMMA SendTyped ==
  ASSUME TypeOK, NEW v \in Viewers, NEW m \in ToRoot, Send(v, <<m>>)
  PROVE  /\ toRoot' \in [Viewers -> Seq(ToRoot)]
         /\ v \in apart => toRoot' = toRoot
         /\ v \notin apart => toRoot' = [toRoot EXCEPT ![v] = Append(@, m)]
<1>1. toRoot[v] \in Seq(ToRoot) /\ toRoot \in [Viewers -> Seq(ToRoot)]
  BY DEF TypeOK
<1>2. toRoot[v] \o <<m>> = Append(toRoot[v], m) /\ Append(toRoot[v], m) \in Seq(ToRoot)
  BY <1>1, PutOn
<1> QED BY <1>1, <1>2 DEF Send

LEMMA ReceivesTyped ==
  ASSUME TypeOK, NEW v \in Viewers, NEW ts, Receives(v, ts)
  PROVE  /\ toViewer' \in [Viewers -> Seq(ToViewer)] /\ Head(toViewer[v]) \in ToViewer
         /\ toViewer' = [toViewer EXCEPT ![v] = Tail(@)] /\ toViewer[v] # <<>>
<1>1. toViewer[v] \in Seq(ToViewer) /\ toViewer \in [Viewers -> Seq(ToViewer)]
  BY DEF TypeOK
<1>2. toViewer[v] # <<>> /\ toViewer' = [toViewer EXCEPT ![v] = Tail(@)]
  BY DEF Receives
<1>3. Tail(toViewer[v]) \in Seq(ToViewer) /\ Head(toViewer[v]) \in ToViewer
  BY <1>1, <1>2, TakenOff
<1> QED BY <1>1, <1>2, <1>3

LEMMA WithoutTyped ==
  ASSUME NEW f \in [Nodes -> SUBSET Viewers], NEW n \in Nodes, NEW w
  PROVE  /\ Without(f, n, w) \in [Nodes -> SUBSET Viewers]
         /\ Without(f, n, w)[n] = f[n] \ {w} /\ \A o \in Nodes \ {n} : Without(f, n, w)[o] = f[o]
  BY DEF Without

LEMMA SetKidsTyped ==
  ASSUME TypeOK, NEW n \in Nodes, NEW want \in SUBSET Viewers, SetKids(n, want, active, draining)
  PROVE  /\ active' \in [Nodes -> SUBSET Viewers] /\ draining' \in [Nodes -> SUBSET Viewers]
         /\ active'[n] = {w \in want : w \in active[n] \union draining[n] \union links[n]}
         /\ draining'[n] = (draining[n] \union active[n]) \ want
         /\ \A o \in Nodes \ {n} : active'[o] = active[o] /\ draining'[o] = draining[o]
<1>1. active \in [Nodes -> SUBSET Viewers] /\ draining \in [Nodes -> SUBSET Viewers]
  BY DEF TypeOK
<1>2. {w \in want : w \in active[n] \union draining[n] \union links[n]} \in SUBSET Viewers
      /\ (draining[n] \union active[n]) \ want \in SUBSET Viewers
  BY <1>1
<1> QED BY <1>1, <1>2 DEF SetKids

LEMMA ReportTyped ==
  ASSUME TypeOK, NEW v \in Viewers, NEW p \in Nodes \union {None}, Report(v, p)
  PROVE  /\ toRoot' \in [Viewers -> Seq(ToRoot)] /\ cooling' \in [Viewers -> Nodes \union {None}]
         /\ v \in apart => toRoot' = toRoot
         /\ toRoot' = toRoot \/ toRoot' = [toRoot EXCEPT ![v] = Append(@, Msg("orphan", heard[v], p))]
<1>1. Msg("orphan", heard[v], p) \in ToRoot
  BY Messages DEF TypeOK
<1>2. CASE cooling[v] # None
  BY <1>2 DEF Report, TypeOK
<1>3. CASE cooling[v] = None
  <2>1. cooling' = [cooling EXCEPT ![v] = p] /\ Send(v, <<Msg("orphan", heard[v], p)>>)
    BY <1>3 DEF Report
  <2>2. cooling' \in [Viewers -> Nodes \union {None}]
    BY <2>1 DEF TypeOK
  <2> QED BY <1>1, <2>1, <2>2, SendTyped
<1> QED BY <1>2, <1>3

\* What making a viewer's entry anew does.
LEMMA IncomingTyped ==
  ASSUME TypeOK, NEW v \in Viewers, NEW n \in Nat, NEW watch \in SUBSET {v}, NewIncoming(v, n, watch)
  PROVE  /\ heard' \in [Viewers -> Nat] /\ watching' \subseteq Viewers
         /\ parent' \in [Viewers -> Nodes \union {None}] /\ seen' \in [Viewers -> Nat \union {-1}]
         /\ cooling' \in [Viewers -> Nodes \union {None}]
         /\ active' \in [Nodes -> SUBSET Viewers] /\ draining' \in [Nodes -> SUBSET Viewers]
         /\ toRoot' \in [Viewers -> Seq(ToRoot)]
         /\ watch = {} => toRoot' = toRoot
         /\ v \in apart => toRoot' = toRoot
         /\ watch = {v} /\ v \notin apart => toRoot' = [toRoot EXCEPT ![v] = Append(@, Msg("watch", n, None))]
<1>1. v \in Nodes
  BY Places
<1>2. Msg("watch", n, None) \in ToRoot
  BY Messages
<1>3. watch # {} => /\ toRoot' \in [Viewers -> Seq(ToRoot)] /\ (v \in apart => toRoot' = toRoot)
                    /\ v \notin apart => toRoot' = [toRoot EXCEPT ![v] = Append(@, Msg("watch", n, None))]
  BY <1>2, SendTyped DEF NewIncoming
<1> QED BY <1>1, <1>3 DEF NewIncoming, TypeOK

LEMMA UnwatchedTyped ==
  ASSUME TypeOK, NEW v \in Viewers, Unwatched(v)
  PROVE  /\ wants' \subseteq Viewers /\ watching' \subseteq Viewers
         /\ parent' \in [Viewers -> Nodes \union {None}]
         /\ active' \in [Nodes -> SUBSET Viewers] /\ draining' \in [Nodes -> SUBSET Viewers]
         /\ toRoot' \in [Viewers -> Seq(ToRoot)]
         /\ v \notin watching \/ v \in apart => toRoot' = toRoot
         /\ v \in watching /\ v \notin apart => toRoot' = [toRoot EXCEPT ![v] = Append(@, Msg("unwatch", heard[v], None))]
<1>1. v \in Nodes /\ heard[v] \in Nat
  BY Places DEF TypeOK
<1>2. Msg("unwatch", heard[v], None) \in ToRoot
  BY <1>1, Messages
<1>3. v \in watching => /\ toRoot' \in [Viewers -> Seq(ToRoot)] /\ (v \in apart => toRoot' = toRoot)
                        /\ v \notin apart => toRoot' = [toRoot EXCEPT ![v] = Append(@, Msg("unwatch", heard[v], None))]
  BY <1>2, SendTyped DEF Unwatched
<1> QED BY <1>1, <1>3 DEF Unwatched, TypeOK

\* Steps of the broadcaster on a message, its first about the stream there is.
LEMMA HearsIs ==
  ASSUME TypeOK, NEW v \in Viewers, NEW t, Hears(v, t)
  PROVE  /\ v \in links[Root] /\ toRoot[v] # <<>> /\ stream # 0
         /\ Says(toRoot[v], t, 1, stream)
<1>1. toRoot[v] \in Seq(ToRoot) /\ toRoot[v] # <<>>
  BY DEF TypeOK, Hears, Arrives
<1>2. Head(toRoot[v]) = toRoot[v][1] /\ 1 \in DOMAIN toRoot[v]
  BY <1>1, TakenOff
<1> QED BY <1>1, <1>2 DEF Hears, Arrives, Current, Says

LEMMA SpentTyped ==
  ASSUME TypeOK
  PROVE  /\ Upset => spent' \in [toggles : Nat, streams : Nat, upsets : Nat, cuts : Nat] /\ spent'.streams = spent.streams
         /\ spent' = [spent EXCEPT !.toggles = @ + 1] =>
              spent' \in [toggles : Nat, streams : Nat, upsets : Nat, cuts : Nat] /\ spent'.streams = spent.streams
         /\ spent' = [spent EXCEPT !.cuts = @ + 1] =>
              spent' \in [toggles : Nat, streams : Nat, upsets : Nat, cuts : Nat] /\ spent'.streams = spent.streams
         /\ \A n \in Nat : spent' = [spent EXCEPT !.streams = n] =>
              spent' \in [toggles : Nat, streams : Nat, upsets : Nat, cuts : Nat] /\ spent'.streams = n
<1>1. spent \in [toggles : Nat, streams : Nat, upsets : Nat, cuts : Nat]
  BY DEF TypeOK
<1> QED BY <1>1 DEF Upset

\* The steps of the broadcaster.
RootActs(v) ==
  \/ Evidence \/ SetBroadcastBitrate \/ StartBroadcast \/ StopBroadcast
  \/ /\ v \in Viewers
     /\ RecvOld(v) \/ RecvWatch(v) \/ RecvUnwatch(v) \/ RecvOrphan(v) \/ DetachRoot(v)

LEMMA RootStepsTyped ==
  ASSUME TypeOK, Planned, NEW v, RootActs(v)
  PROVE  TypeOK'
<1> USE DEF root, viewer, inc, kids, net
<1>1. CASE Evidence
  <2>1. Moves(None, toViewer)
    BY <1>1, ReplanSteps
  <2>2. spent' \in [toggles : Nat, streams : Nat, upsets : Nat, cuts : Nat]
    BY <1>1, SpentTyped DEF Evidence
  <2> QED BY <1>1, <2>1, <2>2 DEF Evidence, Moves, TypeOK
<1>2. CASE SetBroadcastBitrate
  <2>1. Moves(None, Announced(<<Tell("announce", stream)>>))
    BY <1>2, ReplanSteps
  <2>2. spent' \in [toggles : Nat, streams : Nat, upsets : Nat, cuts : Nat]
    BY <1>2, SpentTyped DEF SetBroadcastBitrate
  <2> QED BY <1>2, <2>1, <2>2 DEF SetBroadcastBitrate, Moves, TypeOK
<1>3. CASE StartBroadcast
  <2>1. spent.streams + 1 \in Nat /\ Root \in Nodes
    BY Places DEF TypeOK
  <2>2. toViewer' \in [Viewers -> Seq(ToViewer)]
    BY <1>3, <2>1, AnnouncedEnd DEF StartBroadcast
  <2> QED BY <1>3, <2>1, <2>2 DEF StartBroadcast, Afresh, NoOne, TypeOK
<1>4. CASE StopBroadcast
  <2>1. toViewer' \in [Viewers -> Seq(ToViewer)] /\ Root \in Nodes
    BY <1>4, AnnouncedEnd, Places DEF StopBroadcast
  <2> QED BY <1>4, <2>1 DEF StopBroadcast, Afresh, NoOne, TypeOK
<1>5. CASE v \in Viewers /\ RecvOld(v)
  <2>1. toRoot' \in [Viewers -> Seq(ToRoot)]
    BY <1>5, TookTyped DEF RecvOld, Arrives
  <2> QED BY <1>5, <2>1 DEF RecvOld, TypeOK
<1>6. CASE v \in Viewers /\ RecvWatch(v)
  <2>1. toRoot' \in [Viewers -> Seq(ToRoot)]
    BY <1>6, TookTyped DEF RecvWatch, Hears, Arrives
  <2>2. CASE v \in known
    BY <1>6, <2>1, <2>2 DEF RecvWatch, TypeOK
  <2>3. CASE v \notin known
    <3>1. Moves(v, toViewer)
      BY <1>6, <2>3, ReplanSteps
    <3> QED BY <1>6, <2>1, <3>1 DEF RecvWatch, Moves, TypeOK
  <2> QED BY <2>2, <2>3
<1>7. CASE v \in Viewers /\ RecvUnwatch(v)
  <2>1. toRoot' \in [Viewers -> Seq(ToRoot)]
    BY <1>7, TookTyped DEF RecvUnwatch, Hears, Arrives
  <2>2. CASE v \notin known
    BY <1>7, <2>1, <2>2 DEF RecvUnwatch, TypeOK
  <2>3. CASE v \in known
    <3>1. Moves(None, toViewer)
      BY <1>7, <2>3, ReplanSteps
    <3> QED BY <1>7, <2>1, <3>1 DEF RecvUnwatch, Moves, TypeOK
  <2> QED BY <2>2, <2>3
<1>8. CASE v \in Viewers /\ RecvOrphan(v)
  <2>1. toRoot' \in [Viewers -> Seq(ToRoot)]
    BY <1>8, TookTyped DEF RecvOrphan, Hears, Arrives
  <2>2. CASE v \notin known
    BY <1>8, <2>1, <2>2 DEF RecvOrphan, TypeOK
  <2>3. CASE v \in known
    <3>1. Moves(None, toViewer)
      BY <1>8, <2>3, ReplanSteps
    <3> QED BY <1>8, <2>1, <3>1 DEF RecvOrphan, Moves, TypeOK
  <2> QED BY <2>2, <2>3
<1>9. CASE v \in Viewers /\ DetachRoot(v)
  <2>1. links' \in [Nodes -> SUBSET Nodes] /\ toRoot' \in [Viewers -> Seq(ToRoot)]
    <3>1. links' = [links EXCEPT ![Root] = @ \ {v}] /\ toRoot' = [toRoot EXCEPT ![v] = <<>>]
      BY <1>9 DEF DetachRoot, Without
    <3>2. <<>> \in Seq(ToRoot) /\ links[Root] \ {v} \in SUBSET Nodes
      BY Places DEF TypeOK
    <3> QED BY <3>1, <3>2 DEF TypeOK
  <2>2. CASE v \notin known
    <3>1. active' \in [Nodes -> SUBSET Viewers] /\ draining' \in [Nodes -> SUBSET Viewers]
      <4>1. active' = Without(active, Root, v) /\ draining' = Without(draining, Root, v)
        BY <1>9, <2>2 DEF DetachRoot
      <4> QED BY <4>1, WithoutTyped, Places DEF TypeOK
    <3> QED BY <1>9, <2>1, <2>2, <3>1 DEF DetachRoot, TypeOK
  <2>3. CASE v \in known
    <3>1. Moves(None, toViewer)
      BY <1>9, <2>3, ReplanSteps
    <3> QED BY <1>9, <2>1, <3>1 DEF DetachRoot, Moves, TypeOK
  <2> QED BY <2>2, <2>3
<1> QED BY <1>1, <1>2, <1>3, <1>4, <1>5, <1>6, <1>7, <1>8, <1>9 DEF RootActs

\* The steps of a viewer.
ViewerActs(v) ==
  \/ RecvAssign(v) \/ RecvAnnounce(v) \/ RecvEnd(v) \/ OptOut(v) \/ Opens(v)
  \/ Silence(v) \/ CoolOff(v) \/ Watch(v) \/ Unwatch(v) \/ Leave(v) \/ CutRoot(v) \/ LoseRoot(v)
  \/ (\E n \in Nodes : Drained(n, v)) \/ \E w \in Viewers : DetachViewer(v, w) \/ Cut(v, w)

LEMMA ViewerStepsTyped ==
  ASSUME TypeOK, NEW v \in Viewers, ViewerActs(v)
  PROVE  TypeOK'
<1> USE DEF root, viewer, inc, kids, net
<1>0. v \in Nodes /\ heard[v] \in Nat /\ stream \in Nat /\ parent[v] \in Nodes \union {None}
  BY Places DEF TypeOK
<1>1. CASE RecvAssign(v)
  <2> DEFINE m == Head(toViewer[v])
  <2>1. toViewer' \in [Viewers -> Seq(ToViewer)] /\ m \in ToViewer
    BY <1>1, ReceivesTyped DEF RecvAssign
  <2>2. m.epoch \in Nat /\ m.parent \in Nodes \union {None} /\ m.kids \in SUBSET Viewers
    BY <2>1 DEF ToViewer
  <2>3. UNCHANGED <<root, wants, ending, heard, watching, cooling, twice, net, toRoot, spent>>
    BY <1>1 DEF RecvAssign
  <2>4. CASE m.stream = heard[v] /\ m.epoch >= seen[v] /\ v \in watching
    <3>1. seen' = [seen EXCEPT ![v] = m.epoch] /\ parent' = [parent EXCEPT ![v] = m.parent]
          /\ SetKids(v, m.kids, active, draining)
      BY <1>1, <2>4 DEF RecvAssign
    <3>2. active' \in [Nodes -> SUBSET Viewers] /\ draining' \in [Nodes -> SUBSET Viewers]
      BY <1>0, <2>2, <3>1, SetKidsTyped
    <3> HIDE DEF m
    <3> QED BY <2>1, <2>2, <2>3, <3>1, <3>2 DEF TypeOK
  <2>5. CASE ~(m.stream = heard[v] /\ m.epoch >= seen[v] /\ v \in watching)
    <3>1. UNCHANGED <<seen, parent, kids>>
      BY <1>1, <2>5 DEF RecvAssign
    <3> QED BY <2>1, <2>3, <3>1 DEF TypeOK
  <2> QED BY <2>4, <2>5
<1>2. CASE RecvAnnounce(v)
  <2> DEFINE n == Head(toViewer[v]).stream
  <2>1. toViewer' \in [Viewers -> Seq(ToViewer)] /\ n \in Nat
    BY <1>2, ReceivesTyped DEF RecvAnnounce, ToViewer
  <2>2. UNCHANGED <<root, wants, ending, twice, net, spent>>
    BY <1>2 DEF RecvAnnounce
  <2>3. CASE heard[v] = n
    BY <1>2, <2>1, <2>2, <2>3 DEF RecvAnnounce, TypeOK
  <2>4. CASE heard[v] # n
    <3>1. NewIncoming(v, n, Chosen(v)) /\ Chosen(v) \in SUBSET {v}
      BY <1>2, <2>4 DEF RecvAnnounce, Chosen
    <3> HIDE DEF n
    <3> QED BY <2>1, <2>2, <3>1, IncomingTyped DEF TypeOK
  <2> QED BY <2>3, <2>4
<1>3. CASE RecvEnd(v)
  <2>1. toViewer' \in [Viewers -> Seq(ToViewer)]
    BY <1>3, ReceivesTyped DEF RecvEnd
  <2>2. UNCHANGED <<root, wants, ending, twice, net, spent>>
    BY <1>3 DEF RecvEnd
  <2>3. CASE UNCHANGED <<inc, kids, toRoot>>
    BY <2>1, <2>2, <2>3 DEF TypeOK
  <2>4. CASE NewIncoming(v, 0, {})
    BY <2>1, <2>2, <2>4, IncomingTyped DEF TypeOK
  <2> QED BY <1>3, <2>3, <2>4 DEF RecvEnd
<1>4. CASE OptOut(v)
  <2>1. CASE v \in wants
    <3>1. Unwatched(v) /\ ending' \subseteq Viewers /\ UNCHANGED spent
      BY <1>4, <2>1 DEF OptOut, TypeOK
    <3>2. UNCHANGED <<root, heard, seen, cooling, twice, net, toViewer>>
      BY <3>1 DEF Unwatched
    <3>3. /\ wants' \subseteq Viewers /\ watching' \subseteq Viewers
         /\ parent' \in [Viewers -> Nodes \union {None}]
         /\ active' \in [Nodes -> SUBSET Viewers] /\ draining' \in [Nodes -> SUBSET Viewers]
         /\ toRoot' \in [Viewers -> Seq(ToRoot)]
      BY <3>1, UnwatchedTyped
    <3> QED BY <3>1, <3>2, <3>3 DEF TypeOK
  <2>2. CASE v \notin wants
    BY <1>4, <2>2 DEF OptOut, TypeOK
  <2> QED BY <2>1, <2>2
<1>5. CASE Opens(v)
  <2>1. Append(toViewer[v], Tell("announce", stream)) \in Seq(ToViewer)
    BY <1>0, Messages, PutOn DEF TypeOK
  <2>2. toViewer' \in [Viewers -> Seq(ToViewer)]
    BY <1>5, <2>1 DEF Opens, TypeOK
  <2> QED BY <1>5, <2>2 DEF Opens, TypeOK
<1>6. CASE Silence(v)
  BY <1>0, <1>6, ReportTyped DEF Silence, TypeOK
<1>7. CASE CoolOff(v)
  BY <1>7 DEF CoolOff, TypeOK
<1>8. CASE Watch(v)
  <2>1. toRoot' \in [Viewers -> Seq(ToRoot)]
    <3>1. CASE heard[v] = 0
      BY <1>8, <3>1 DEF Watch, TypeOK
    <3>2. CASE heard[v] # 0
      BY <1>0, <1>8, <3>2, Messages, SendTyped DEF Watch
    <3> QED BY <3>1, <3>2
  <2>2. watching' \subseteq Viewers
    BY <1>8 DEF Watch, TypeOK
  <2>3. spent' \in [toggles : Nat, streams : Nat, upsets : Nat, cuts : Nat]
    BY <1>8, SpentTyped DEF Watch
  <2>4. wants' = wants \union {v}
        /\ UNCHANGED <<root, ending, heard, parent, seen, cooling, twice, kids, net, toViewer>>
    BY <1>8 DEF Watch
  <2>5. wants' \subseteq Viewers
    BY <2>4 DEF TypeOK
  <2> QED BY SMTT(30), <2>1, <2>2, <2>3, <2>4, <2>5 DEF TypeOK
<1>9. CASE Unwatch(v)
  <2>1. Unwatched(v) /\ UNCHANGED ending /\ spent' = [spent EXCEPT !.toggles = @ + 1]
    BY <1>9 DEF Unwatch
  <2>2. UNCHANGED <<root, heard, seen, cooling, twice, net, toViewer>>
    BY <2>1 DEF Unwatched
  <2>3. spent' \in [toggles : Nat, streams : Nat, upsets : Nat, cuts : Nat]
    BY <2>1, SpentTyped
  <2>4. /\ wants' \subseteq Viewers /\ watching' \subseteq Viewers
       /\ parent' \in [Viewers -> Nodes \union {None}]
       /\ active' \in [Nodes -> SUBSET Viewers] /\ draining' \in [Nodes -> SUBSET Viewers]
       /\ toRoot' \in [Viewers -> Seq(ToRoot)]
    BY <2>1, UnwatchedTyped
  <2>5. ending' = ending
    BY <2>1
  <2> QED BY <2>2, <2>3, <2>4, <2>5 DEF TypeOK
<1>10. CASE Leave(v)
  <2>1. spent' \in [toggles : Nat, streams : Nat, upsets : Nat, cuts : Nat]
    BY <1>10, SpentTyped DEF Leave
  <2> QED BY <1>10, <2>1 DEF Leave, TypeOK
<1>11. ASSUME NEW n \in Nodes, Drained(n, v) PROVE TypeOK'
  <2>1. draining' \in [Nodes -> SUBSET Viewers]
    BY <1>11, WithoutTyped DEF Drained, TypeOK
  <2> QED BY <1>11, <2>1 DEF Drained, TypeOK
<1>12. ASSUME NEW w \in Viewers, DetachViewer(v, w) PROVE TypeOK'
  <2>1. /\ active' \in [Nodes -> SUBSET Viewers] /\ draining' \in [Nodes -> SUBSET Viewers]
        /\ links' \in [Nodes -> SUBSET Nodes]
    BY <1>0, <1>12, WithoutTyped DEF DetachViewer, Without, TypeOK
  <2>2. UNCHANGED <<root, wants, ending, heard, watching, seen, gone, apart, severed, open, toViewer, spent>>
    BY <1>12 DEF DetachViewer
  <2>5. twice' \subseteq Viewers
    BY <1>12 DEF DetachViewer, TypeOK
  <2>3. CASE parent[v] = w
    <3>1. Report(v, w) /\ parent' = [parent EXCEPT ![v] = None] /\ w \in Nodes \union {None}
      BY <1>12, <2>3, Places DEF DetachViewer
    <3>2. toRoot' \in [Viewers -> Seq(ToRoot)] /\ cooling' \in [Viewers -> Nodes \union {None}]
      BY <3>1, ReportTyped
    <3> QED BY <2>1, <2>2, <2>5, <3>1, <3>2 DEF TypeOK
  <2>4. CASE parent[v] # w
    BY <1>12, <2>1, <2>2, <2>4, <2>5 DEF DetachViewer, TypeOK
  <2> QED BY <2>3, <2>4
<1>13. ASSUME NEW w \in Viewers, Cut(v, w) PROVE TypeOK'
  <2>1. severed' \subseteq SUBSET Viewers
    BY <1>13 DEF Cut, TypeOK
  <2>2. spent' \in [toggles : Nat, streams : Nat, upsets : Nat, cuts : Nat]
    BY <1>13, SpentTyped DEF Cut
  <2> QED BY <1>13, <2>1, <2>2 DEF Cut, TypeOK
<1>14. CASE CutRoot(v)
  <2>1. spent' \in [toggles : Nat, streams : Nat, upsets : Nat, cuts : Nat]
    BY <1>14, SpentTyped DEF CutRoot
  <2> QED BY <1>14, <2>1 DEF CutRoot, TypeOK
<1>15. CASE LoseRoot(v)
  <2>1. NewIncoming(v, 0, {}) /\ UNCHANGED <<root, wants, ending, twice, gone, apart, severed, open, spent>>
    BY <1>15 DEF LoseRoot
  <2>2. links' \in [Nodes -> SUBSET Nodes] /\ toViewer' \in [Viewers -> Seq(ToViewer)]
    BY <1>0, <1>15 DEF LoseRoot, Without, TypeOK
  <2> QED BY <2>1, <2>2, IncomingTyped DEF TypeOK
<1> QED BY <1>1, <1>2, <1>3, <1>4, <1>5, <1>6, <1>7, <1>8, <1>9, <1>10, <1>11, <1>12, <1>13, <1>14, <1>15
  DEF ViewerActs

LEMMA StepsAre ==
  ASSUME Next
  PROVE  (\E v : RootActs(v)) \/ \E v \in Viewers : ViewerActs(v)
  BY DEF Next, Happens, RootActs, ViewerActs

-----------------------------------------------------------------------------
(* What is said.                                                             *)

LEMMA TailSays ==
  ASSUME NEW S, NEW q \in Seq(S), q # <<>>, NEW i, NEW t, NEW n, Says(Tail(q), t, i, n)
  PROVE  i \in Nat \ {0} /\ i + 1 \in Nat /\ Says(q, t, i + 1, n)
<1>1. Tail(q) \in Seq(S)
  BY TakenOff
<1>2. i \in Nat \ {0}
  BY <1>1, SaysWhere
<1> QED BY <1>2, SaysTail

\* Streams are numbers.
LEMMA SaysTyped ==
  ASSUME TypeOK, NEW v \in Viewers, NEW t, NEW i, NEW n
  PROVE  /\ toRoot[v] \in Seq(ToRoot) /\ toViewer[v] \in Seq(ToViewer)
         /\ Says(toRoot[v], t, i, n) => n \in Nat /\ i \in Nat \ {0}
         /\ Says(toViewer[v], t, i, n) => n \in Nat /\ i \in Nat \ {0}
<1>1. toRoot[v] \in Seq(ToRoot) /\ toViewer[v] \in Seq(ToViewer)
  BY DEF TypeOK
<1>2. Says(toRoot[v], t, i, n) => i \in Nat \ {0}
  BY <1>1, SaysWhere
<1>3. Says(toViewer[v], t, i, n) => i \in Nat \ {0}
  BY <1>1, SaysWhere
<1>4. Says(toRoot[v], t, i, n) => n \in Nat
  <2>1. \A m \in ToRoot : m.stream \in Nat
    BY DEF ToRoot
  <2>2. i \in DOMAIN toRoot[v] => toRoot[v][i] \in ToRoot
    BY <1>1
  <2> QED BY <2>1, <2>2 DEF Says
<1>5. Says(toViewer[v], t, i, n) => n \in Nat
  <2>1. \A m \in ToViewer : m.stream \in Nat
    BY DEF ToViewer
  <2>2. i \in DOMAIN toViewer[v] => toViewer[v][i] \in ToViewer
    BY <1>1
  <2> QED BY <2>1, <2>2 DEF Says
<1> QED BY <1>1, <1>2, <1>3, <1>4, <1>5

\* A re-plan tells viewers nothing but places.
LEMMA MovesSays ==
  ASSUME NEW w, NEW queue \in [Viewers -> Seq(ToViewer)], Moves(w, queue), NEW u \in Viewers,
         NEW t, NEW i, NEW n
  PROVE  Says(toViewer'[u], t, i, n) <=>
           \/ Says(queue[u], t, i, n)
           \/ toViewer'[u] # queue[u] /\ t = "assign" /\ n = stream /\ i = Len(queue[u]) + 1
<1>1. CASE toViewer'[u] = queue[u]
  BY <1>1
<1>2. CASE toViewer'[u] # queue[u]
  <2>1. toViewer'[u] = Append(queue[u], Place(u)) /\ Place(u) \in ToViewer
    BY <1>2 DEF Moves, SentPlace
  <2>2. Place(u).t = "assign" /\ Place(u).stream = stream
    BY DEF Place
  <2>3. Says(toViewer'[u], t, i, n) <=>
          Says(queue[u], t, i, n) \/ (i = Len(queue[u]) + 1 /\ Place(u).t = t /\ Place(u).stream = n)
    BY <2>1, SaysAppend
  <2> QED BY <1>2, <2>2, <2>3
<1> QED BY <1>1, <1>2

\* The steps of the broadcaster that announce nothing.
Unannounced(v) ==
  \/ Evidence
  \/ v \in Viewers /\ (RecvOld(v) \/ RecvWatch(v) \/ RecvUnwatch(v) \/ RecvOrphan(v) \/ DetachRoot(v))

\* What the root's steps say to viewer u.
Bitrate(u, t, i, n) == u \in open \intersect links[Root] /\ t = "announce" /\ n = stream /\ i = Len(toViewer[u]) + 1

LEMMA RootSays ==
  ASSUME TypeOK, Planned, NEW v, NEW u \in Viewers, NEW t, NEW i, NEW n
  PROVE  /\ Unannounced(v) => (Says(toViewer'[u], t, i, n) <=>
                  \/ Told(u, t, i, n)
                  \/ toViewer'[u] # toViewer[u] /\ t = "assign" /\ n = stream /\ i = Len(toViewer[u]) + 1)
         /\ SetBroadcastBitrate => (Says(toViewer'[u], t, i, n) =>
                                      Told(u, t, i, n) \/ Bitrate(u, t, i, n) \/ (t = "assign" /\ n = stream))
         /\ SetBroadcastBitrate /\ t # "assign" =>
              (Says(toViewer'[u], t, i, n) <=> Told(u, t, i, n) \/ Bitrate(u, t, i, n))
<1>0. toViewer \in [Viewers -> Seq(ToViewer)] /\ stream \in Nat
  BY DEF TypeOK
<1>1. ASSUME NEW w, Moves(w, toViewer)
      PROVE  Says(toViewer'[u], t, i, n) <=>
               \/ Told(u, t, i, n)
               \/ toViewer'[u] # toViewer[u] /\ t = "assign" /\ n = stream /\ i = Len(toViewer[u]) + 1
  BY <1>0, <1>1, MovesSays DEF Told
<1>2. ASSUME UNCHANGED toViewer
      PROVE  Says(toViewer'[u], t, i, n) <=>
               \/ Told(u, t, i, n)
               \/ toViewer'[u] # toViewer[u] /\ t = "assign" /\ n = stream /\ i = Len(toViewer[u]) + 1
  BY <1>2 DEF Told
<1>3. Unannounced(v) => UNCHANGED toViewer \/ \E w : Moves(w, toViewer)
  <2>1. CASE Evidence
    BY <2>1, ReplanSteps
  <2>2. CASE v \in Viewers /\ RecvOld(v)
    BY <2>2 DEF RecvOld
  <2>3. CASE v \in Viewers /\ RecvWatch(v)
    <3>1. CASE v \in known
      BY <2>3, <3>1 DEF RecvWatch
    <3>2. CASE v \notin known
      BY <2>3, <3>2, ReplanSteps
    <3> QED BY <3>1, <3>2
  <2>4. CASE v \in Viewers /\ RecvUnwatch(v)
    <3>1. CASE v \notin known
      BY <2>4, <3>1 DEF RecvUnwatch
    <3>2. CASE v \in known
      BY <2>4, <3>2, ReplanSteps
    <3> QED BY <3>1, <3>2
  <2>5. CASE v \in Viewers /\ RecvOrphan(v)
    <3>1. CASE v \notin known
      BY <2>5, <3>1 DEF RecvOrphan
    <3>2. CASE v \in known
      BY <2>5, <3>2, ReplanSteps
    <3> QED BY <3>1, <3>2
  <2>6. CASE v \in Viewers /\ DetachRoot(v)
    <3>1. CASE v \notin known
      BY <2>6, <3>1 DEF DetachRoot
    <3>2. CASE v \in known
      BY <2>6, <3>2, ReplanSteps
    <3> QED BY <3>1, <3>2
  <2> QED BY <2>1, <2>2, <2>3, <2>4, <2>5, <2>6 DEF Unannounced
<1>4. ASSUME SetBroadcastBitrate
      PROVE  /\ Says(toViewer'[u], t, i, n) =>
                  Told(u, t, i, n) \/ Bitrate(u, t, i, n) \/ (t = "assign" /\ n = stream)
             /\ t # "assign" =>
                  (Says(toViewer'[u], t, i, n) <=> Told(u, t, i, n) \/ Bitrate(u, t, i, n))
  <2> DEFINE m == Tell("announce", stream)
             queue == Announced(<<m>>)
  <2>1. m \in ToViewer /\ m.t = "announce" /\ m.stream = stream
    BY <1>0, Messages, Places
  <2>2. Moves(None, queue)
    BY <1>4, ReplanSteps
  <2> HIDE DEF m
  <2>3. queue \in [Viewers -> Seq(ToViewer)]
        /\ queue[u] = IF u \in open \intersect links[Root] THEN Append(toViewer[u], m) ELSE toViewer[u]
    BY <2>1, AnnouncedOne
  <2>4. Says(queue[u], t, i, n) <=> Told(u, t, i, n) \/ Bitrate(u, t, i, n)
    <3>1. CASE u \in open \intersect links[Root]
      <4>1. Says(Append(toViewer[u], m), t, i, n) <=>
              Says(toViewer[u], t, i, n) \/ (i = Len(toViewer[u]) + 1 /\ m.t = t /\ m.stream = n)
        BY <1>0, <2>1, SaysAppend
      <4> QED BY <2>1, <2>3, <3>1, <4>1 DEF Told, Bitrate
    <3>2. CASE u \notin open \intersect links[Root]
      BY <2>3, <3>2 DEF Told, Bitrate
    <3> QED BY <3>1, <3>2
  <2> HIDE DEF queue
  <2>5. Says(toViewer'[u], t, i, n) <=>
          \/ Says(queue[u], t, i, n)
          \/ toViewer'[u] # queue[u] /\ t = "assign" /\ n = stream /\ i = Len(queue[u]) + 1
    BY <2>2, <2>3, MovesSays
  <2> QED BY <2>4, <2>5
<1> QED BY <1>1, <1>2, <1>3, <1>4

\* What the beginning and the end of a broadcast say.
LEMMA TurnSays ==
  ASSUME TypeOK, NEW u \in Viewers, NEW t, NEW i, NEW n
  PROVE  LET told == u \in open \intersect links[Root]
             ends == told /\ stream # 0 /\ t = "end" /\ n = stream /\ i = Len(toViewer[u]) + 1
             next == IF stream = 0 THEN Len(toViewer[u]) + 1 ELSE Len(toViewer[u]) + 2
         IN /\ StopBroadcast => (Says(toViewer'[u], t, i, n) <=> Told(u, t, i, n) \/ ends)
            /\ StartBroadcast => (Says(toViewer'[u], t, i, n) <=>
                 Told(u, t, i, n) \/ ends \/ (told /\ t = "announce" /\ n = stream' /\ i = next))
<1> DEFINE n2 == spent.streams + 1
           e == Tell("end", stream)
           a == Tell("announce", n2)
           q == IF stream # 0 THEN Append(toViewer[u], e) ELSE toViewer[u]
<1>0. toViewer[u] \in Seq(ToViewer) /\ stream \in Nat /\ n2 \in Nat /\ Len(toViewer[u]) \in Nat
  BY DEF TypeOK
<1>1. /\ e \in ToViewer /\ e.t = "end" /\ e.stream = stream
      /\ a \in ToViewer /\ a.t = "announce" /\ a.stream = n2
  BY <1>0, Messages, Places
<1>2. IF u \in open \intersect links[Root]
        THEN Announced(Ending)[u] = q /\ q \in Seq(ToViewer) /\ Announced(Ending \o <<a>>)[u] = Append(q, a)
        ELSE Announced(Ending)[u] = toViewer[u] /\ Announced(Ending \o <<a>>)[u] = toViewer[u]
  BY <1>0, AnnouncedEnd
<1>3. (StopBroadcast => toViewer' = Announced(Ending))
      /\ (StartBroadcast => toViewer' = Announced(Ending \o <<a>>) /\ stream' = n2)
  BY DEF StopBroadcast, StartBroadcast
<1> HIDE DEF n2, e, a
<1>4. Says(q, t, i, n) <=> Told(u, t, i, n) \/ (stream # 0 /\ t = "end" /\ n = stream /\ i = Len(toViewer[u]) + 1)
  <2>1. CASE stream # 0
    <3>1. Says(Append(toViewer[u], e), t, i, n) <=>
            Says(toViewer[u], t, i, n) \/ (i = Len(toViewer[u]) + 1 /\ e.t = t /\ e.stream = n)
      BY <1>0, <1>1, SaysAppend
    <3> QED BY <1>1, <2>1, <3>1 DEF Told
  <2>2. CASE stream = 0
    BY <2>2 DEF Told
  <2> QED BY <2>1, <2>2
<1>5. Len(q) + 1 = IF stream = 0 THEN Len(toViewer[u]) + 1 ELSE Len(toViewer[u]) + 2
  BY <1>0, <1>1, AppendProperties
<1>6. q \in Seq(ToViewer)
  BY <1>0, <1>1, AppendProperties
<1> HIDE DEF q
<1>7. Says(Append(q, a), t, i, n) <=> Says(q, t, i, n) \/ (i = Len(q) + 1 /\ a.t = t /\ a.stream = n)
  BY <1>1, <1>6, SaysAppend
<1> QED BY <1>1, <1>2, <1>3, <1>4, <1>5, <1>7 DEF Told

\* A viewer's step leaves the broadcaster and the other viewers alone.
Others(v, u) ==
  /\ UNCHANGED root /\ active'[Root] = active[Root] /\ links'[Root] = links[Root]
  /\ spent'.streams = spent.streams /\ gone \subseteq gone' /\ apart \subseteq apart' /\ severed \subseteq severed'
  /\ u # v => /\ toRoot'[u] = toRoot[u] /\ toViewer'[u] = toViewer[u]
              /\ heard'[u] = heard[u] /\ seen'[u] = seen[u] /\ parent'[u] = parent[u]
              /\ active'[u] = active[u] /\ draining'[u] = draining[u] /\ links'[u] = links[u]
              /\ (u \in watching' <=> u \in watching) /\ (u \in wants' <=> u \in wants)
              /\ (u \in open' <=> u \in open) /\ (u \in apart' <=> u \in apart)

LEMMA OthersRest ==
  ASSUME TypeOK, NEW v \in Viewers, NEW u \in Viewers, ViewerActs(v),
         ~\E n \in Nodes : Drained(n, v)
  PROVE  Others(v, u)
<1> USE DEF viewer, inc, kids, net
<1>0. /\ v \in Nodes /\ v # Root /\ u # Root
      /\ toRoot \in [Viewers -> Seq(ToRoot)] /\ toViewer \in [Viewers -> Seq(ToViewer)]
      /\ heard \in [Viewers -> Nat] /\ seen \in [Viewers -> Nat \union {-1}]
      /\ parent \in [Viewers -> Nodes \union {None}] /\ spent.streams \in Nat
      /\ active \in [Nodes -> SUBSET Viewers] /\ draining \in [Nodes -> SUBSET Viewers]
      /\ links \in [Nodes -> SUBSET Nodes] /\ u \in Nodes /\ Root \in Nodes
  BY Places DEF TypeOK
<1>1. CASE RecvAssign(v)
  <2>1. UNCHANGED <<root, wants, ending, heard, watching, cooling, twice, net, toRoot, spent>>
        /\ toViewer' = [toViewer EXCEPT ![v] = Tail(@)]
    BY <1>1 DEF RecvAssign, Receives
  <2>2. CASE UNCHANGED <<seen, parent, kids>>
    BY <1>0, <2>1, <2>2 DEF Others
  <2>3. CASE /\ seen' = [seen EXCEPT ![v] = Head(toViewer[v]).epoch]
             /\ parent' = [parent EXCEPT ![v] = Head(toViewer[v]).parent]
             /\ SetKids(v, Head(toViewer[v]).kids, active, draining)
    BY <1>0, <2>1, <2>3 DEF Others, SetKids
  <2> QED BY <1>1, <2>2, <2>3 DEF RecvAssign
<1>2. ASSUME NEW n, NEW watch \in SUBSET {v}, NewIncoming(v, n, watch), UNCHANGED <<root, wants, ending, twice, net, spent>>,
             toViewer' = [toViewer EXCEPT ![v] = Tail(@)]
      PROVE  Others(v, u)
  <2>1. u # v => toRoot'[u] = toRoot[u]
    BY <1>0, <1>2 DEF NewIncoming, Send
  <2> QED BY <1>0, <1>2, <2>1 DEF NewIncoming, Others
<1>3. CASE RecvAnnounce(v)
  <2>1. UNCHANGED <<root, wants, ending, twice, net, spent>> /\ toViewer' = [toViewer EXCEPT ![v] = Tail(@)]
    BY <1>3 DEF RecvAnnounce, Receives
  <2>2. CASE UNCHANGED <<inc, kids, toRoot>>
    BY <1>0, <2>1, <2>2 DEF Others
  <2>3. CASE NewIncoming(v, Head(toViewer[v]).stream, Chosen(v))
    BY <1>2, <2>1, <2>3 DEF Chosen
  <2> QED BY <1>3, <2>2, <2>3 DEF RecvAnnounce
<1>4. CASE RecvEnd(v)
  <2>1. UNCHANGED <<root, wants, ending, twice, net, spent>> /\ toViewer' = [toViewer EXCEPT ![v] = Tail(@)]
    BY <1>4 DEF RecvEnd, Receives
  <2>2. CASE UNCHANGED <<inc, kids, toRoot>>
    BY <1>0, <2>1, <2>2 DEF Others
  <2>3. CASE NewIncoming(v, 0, {})
    BY <1>2, <2>1, <2>3
  <2> QED BY <1>4, <2>2, <2>3 DEF RecvEnd
<1>5. ASSUME Unwatched(v), spent'.streams = spent.streams PROVE Others(v, u)
  <2>1. u # v => toRoot'[u] = toRoot[u]
    BY <1>0, <1>5 DEF Unwatched, Send
  <2> QED BY <1>0, <1>5, <2>1 DEF Unwatched, Others
<1>6. CASE OptOut(v)
  BY <1>0, <1>5, <1>6 DEF OptOut, Others
<1>7. CASE Unwatch(v)
  BY <1>5, <1>7, SpentTyped DEF Unwatch
<1>8. CASE Opens(v)
  BY <1>0, <1>8 DEF Opens, Others
<1>9. ASSUME NEW p, Report(v, p) PROVE u # v => toRoot'[u] = toRoot[u]
  BY <1>0, <1>9 DEF Report, Send
<1>10. CASE Silence(v)
  BY <1>0, <1>9, <1>10 DEF Silence, Others
<1>11. CASE CoolOff(v)
  BY <1>0, <1>11 DEF CoolOff, Others
<1>12. CASE Watch(v)
  <2>1. spent'.streams = spent.streams
    BY <1>12, SpentTyped DEF Watch
  <2>2. u # v => toRoot'[u] = toRoot[u]
    BY <1>0, <1>12 DEF Watch, Send
  <2>3. u # v => (u \in watching' <=> u \in watching) /\ (u \in wants' <=> u \in wants)
    BY <1>12 DEF Watch
  <2> QED BY <1>0, <1>12, <2>1, <2>2, <2>3 DEF Watch, Others
<1>13. CASE Leave(v)
  BY <1>0, <1>13, SpentTyped DEF Leave, Others
<1>14. ASSUME NEW w \in Viewers, DetachViewer(v, w) PROVE Others(v, u)
  <2>1. UNCHANGED <<root, wants, ending, heard, watching, seen, gone, apart, severed, open, toViewer, spent>>
        /\ links' = Without(links, v, w) /\ active' = Without(active, v, w) /\ draining' = Without(draining, v, w)
    BY <1>14 DEF DetachViewer
  <2>2. u # v => toRoot'[u] = toRoot[u] /\ parent'[u] = parent[u]
    BY <1>0, <1>9, <1>14 DEF DetachViewer
  <2> QED BY <1>0, <2>1, <2>2 DEF Without, Others
<1>15. ASSUME NEW w \in Viewers, Cut(v, w) PROVE Others(v, u)
  BY <1>0, <1>15, SpentTyped DEF Cut, Others
<1>16. CASE CutRoot(v)
  BY <1>0, <1>16, SpentTyped DEF CutRoot, Others
<1>17. CASE LoseRoot(v)
  <2>1. UNCHANGED <<root, wants, ending, twice, gone, apart, severed, open, spent>> /\ NewIncoming(v, 0, {})
        /\ links' = Without(links, v, Root) /\ toViewer' = [toViewer EXCEPT ![v] = <<>>]
    BY <1>17 DEF LoseRoot
  <2> QED BY <1>0, <2>1 DEF NewIncoming, Without, Others
<1> QED BY <1>1, <1>3, <1>4, <1>6, <1>7, <1>8, <1>10, <1>11, <1>12, <1>13, <1>14, <1>15, <1>16, <1>17
  DEF ViewerActs

\* What v says in a step of its own, and why.
Speaks(v) ==
  \/ /\ heard'[v] = heard[v] /\ (v \in watching' <=> v \in watching)
     /\ \/ toRoot'[v] = toRoot[v]
        \/ \E p \in Nodes \union {None} : toRoot'[v] = Append(toRoot[v], Msg("orphan", heard[v], p))
  \/ /\ heard'[v] = heard[v] /\ v \in watching /\ v \notin watching'
     /\ toRoot'[v] = Append(toRoot[v], Msg("unwatch", heard[v], None))
  \/ /\ heard'[v] = heard[v] /\ heard[v] # 0 /\ v \notin watching /\ v \in watching'
     /\ toRoot'[v] = Append(toRoot[v], Msg("watch", heard[v], None))
  \/ /\ heard'[v] # heard[v] /\ Told(v, "announce", 1, heard'[v])
     /\ \/ v \notin watching' /\ toRoot'[v] = toRoot[v]
        \/ v \in watching' /\ toRoot'[v] = Append(toRoot[v], Msg("watch", heard'[v], None))
  \/ Told(v, "end", 1, heard[v]) /\ heard'[v] = 0 /\ v \notin watching' /\ toRoot'[v] = toRoot[v]
  \/ v \in apart /\ toRoot'[v] = toRoot[v] /\ (heard'[v] \in {heard[v], 0} \/ Told(v, "announce", 1, heard'[v]))

\* What v takes off its queue, and what it hears by that.
Listens(v) ==
  \/ heard'[v] = heard[v] /\ toViewer'[v] = toViewer[v] /\ (v \in open' <=> v \in open)
  \/ heard'[v] = heard[v] /\ v \notin open \union apart /\ v \in open' /\ v \in links[Root] /\
       toViewer'[v] = IF stream = 0 THEN toViewer[v] ELSE Append(toViewer[v], Tell("announce", stream))
  \/ /\ toViewer[v] # <<>> /\ toViewer'[v] = Tail(toViewer[v]) /\ v \notin gone /\ (v \in open' <=> v \in open)
     /\ \E n \in Nat :
          \/ Told(v, "assign", 1, n) /\ heard'[v] = heard[v]
          \/ Told(v, "announce", 1, n) /\ heard'[v] = n
          \/ Told(v, "end", 1, n) /\ heard'[v] = IF heard[v] = n THEN 0 ELSE heard[v]
  \/ v \in apart /\ heard'[v] = 0 /\ toViewer'[v] = <<>> /\ (v \in open' <=> v \in open)

\* The first message.
LEMMA FirstTold ==
  ASSUME TypeOK, NEW v \in Viewers, NEW ts, Receives(v, ts)
  PROVE  /\ toViewer[v] # <<>> /\ toViewer'[v] = Tail(toViewer[v]) /\ v \notin gone
         /\ Head(toViewer[v]).t \in ts /\ Head(toViewer[v]).stream \in Nat
         /\ Told(v, Head(toViewer[v]).t, 1, Head(toViewer[v]).stream)
         /\ Head(toViewer[v]) = toViewer[v][1] /\ 1 \in DOMAIN toViewer[v] /\ Head(toViewer[v]) \in ToViewer
<1>1. toViewer[v] \in Seq(ToViewer) /\ toViewer \in [Viewers -> Seq(ToViewer)] /\ toViewer[v] # <<>>
  BY DEF TypeOK, Receives
<1>2. Head(toViewer[v]) = toViewer[v][1] /\ Head(toViewer[v]) \in ToViewer /\ 1 \in DOMAIN toViewer[v]
  BY <1>1, TakenOff
<1>3. Head(toViewer[v]).stream \in Nat
  BY <1>2 DEF ToViewer
<1> QED BY <1>1, <1>2, <1>3 DEF Receives, Told, Says

LEMMA ListensStep ==
  ASSUME TypeOK, NEW v \in Viewers, ViewerActs(v)
  PROVE  Listens(v)
<1> USE DEF root, viewer, inc, kids, net
<1>0. heard \in [Viewers -> Nat] /\ toViewer \in [Viewers -> Seq(ToViewer)]
  BY DEF TypeOK
<1>1. ASSUME UNCHANGED <<heard, toViewer, open>> PROVE Listens(v)
  BY <1>1 DEF Listens
<1>2. CASE RecvAssign(v)
  <2>1. Told(v, "assign", 1, Head(toViewer[v]).stream) /\ Head(toViewer[v]).stream \in Nat /\ toViewer[v] # <<>>
        /\ toViewer'[v] = Tail(toViewer[v]) /\ v \notin gone /\ open' = open
    BY <1>2, FirstTold DEF RecvAssign
  <2> QED BY <1>2, <2>1 DEF RecvAssign, Listens
<1>3. CASE RecvAnnounce(v)
  <2> DEFINE n == Head(toViewer[v]).stream
  <2>1. Told(v, "announce", 1, n) /\ n \in Nat /\ toViewer[v] # <<>>
        /\ toViewer'[v] = Tail(toViewer[v]) /\ v \notin gone /\ open' = open
    BY <1>3, FirstTold DEF RecvAnnounce
  <2>2. heard'[v] = n
    BY <1>0, <1>3 DEF RecvAnnounce, NewIncoming
  <2> HIDE DEF n
  <2> QED BY <2>1, <2>2 DEF Listens
<1>4. CASE RecvEnd(v)
  <2> DEFINE n == Head(toViewer[v]).stream
  <2>1. Told(v, "end", 1, n) /\ n \in Nat /\ toViewer[v] # <<>>
        /\ toViewer'[v] = Tail(toViewer[v]) /\ v \notin gone /\ open' = open
    BY <1>4, FirstTold DEF RecvEnd
  <2>2. heard'[v] = IF heard[v] = n THEN 0 ELSE heard[v]
    BY <1>0, <1>4 DEF RecvEnd, NewIncoming
  <2> HIDE DEF n
  <2> QED BY <2>1, <2>2 DEF Listens
<1>5. CASE Opens(v)
  BY <1>0, <1>5 DEF Opens, Listens
<1>6. CASE OptOut(v) \/ Unwatch(v)
  BY <1>1, <1>6 DEF OptOut, Unwatch, Unwatched
<1>7. CASE Silence(v) \/ CoolOff(v) \/ Watch(v) \/ Leave(v)
  BY <1>1, <1>7 DEF Silence, CoolOff, Watch, Leave
<1>8. CASE (\E n \in Nodes : Drained(n, v)) \/ \E w \in Viewers : DetachViewer(v, w) \/ Cut(v, w)
  BY <1>1, <1>8 DEF Drained, DetachViewer, Cut
<1>9. CASE CutRoot(v)
  BY <1>1, <1>9 DEF CutRoot
<1>10. CASE LoseRoot(v)
  <2>1. heard'[v] = 0 /\ toViewer'[v] = <<>>
    BY <1>0, <1>10 DEF LoseRoot, NewIncoming
  <2> QED BY <1>10, <2>1 DEF LoseRoot, Listens
<1> QED BY <1>2, <1>3, <1>4, <1>5, <1>6, <1>7, <1>8, <1>9, <1>10 DEF ViewerActs

LEMMA SpeaksStep ==
  ASSUME TypeOK, Choosing, NEW v \in Viewers, ViewerActs(v)
  PROVE  Speaks(v)
<1> USE DEF root, viewer, inc, kids, net
<1>0. /\ toRoot \in [Viewers -> Seq(ToRoot)] /\ heard \in [Viewers -> Nat] /\ heard[v] \in Nat
      /\ parent[v] \in Nodes \union {None}
  BY DEF TypeOK
<1>17. ASSUME v \in apart PROVE Speaks(v)
  <2>1. toRoot' = toRoot
    <3>1. CASE RecvAssign(v) \/ Opens(v) \/ CoolOff(v) \/ Leave(v) \/ CutRoot(v)
               \/ (\E n \in Nodes : Drained(n, v)) \/ \E w \in Viewers : Cut(v, w)
      BY <3>1 DEF RecvAssign, Opens, CoolOff, Leave, CutRoot, Drained, Cut
    <3>2. CASE RecvAnnounce(v) \/ RecvEnd(v) \/ LoseRoot(v)
      BY <1>17, <3>2 DEF RecvAnnounce, RecvEnd, LoseRoot, NewIncoming, Send
    <3>3. CASE Watch(v) \/ Unwatch(v) \/ OptOut(v)
      BY <1>17, <3>3 DEF Watch, Unwatch, OptOut, Unwatched, Send
    <3>4. CASE Silence(v) \/ \E w \in Viewers : DetachViewer(v, w)
      BY <1>17, <3>4 DEF Silence, DetachViewer, Report, Send
    <3> QED BY <3>1, <3>2, <3>3, <3>4 DEF ViewerActs
  <2>2. heard'[v] \in {heard[v], 0} \/ Told(v, "announce", 1, heard'[v])
    BY ListensStep DEF Listens
  <2> QED BY <1>17, <2>1, <2>2 DEF Speaks
<1>18. SUFFICES ASSUME v \notin apart PROVE Speaks(v)
  BY <1>17
<1>1. ASSUME UNCHANGED <<heard, watching, toRoot>> PROVE Speaks(v)
  BY <1>1 DEF Speaks
<1>2. ASSUME NEW p \in Nodes \union {None}, Report(v, p), UNCHANGED <<heard, watching>> PROVE Speaks(v)
  <2>1. toRoot' = toRoot \/ toRoot' = [toRoot EXCEPT ![v] = Append(@, Msg("orphan", heard[v], p))]
    BY <1>2, ReportTyped
  <2> QED BY <1>0, <1>2, <2>1 DEF Speaks
<1>3. ASSUME Unwatched(v) PROVE Speaks(v)
  <2>1. heard' = heard /\ watching' = watching \ {v}
    BY <1>3 DEF Unwatched
  <2>2. CASE v \in watching
    <3>1. toRoot' = [toRoot EXCEPT ![v] = Append(@, Msg("unwatch", heard[v], None))]
      BY <1>3, <1>18, <2>2, UnwatchedTyped
    <3> QED BY <1>0, <2>1, <2>2, <3>1 DEF Speaks
  <2>3. CASE v \notin watching
    <3>1. toRoot' = toRoot
      BY <1>3, <2>3, UnwatchedTyped
    <3> QED BY <2>1, <2>3, <3>1 DEF Speaks
  <2> QED BY <2>2, <2>3
<1>4. CASE RecvAssign(v)
  BY <1>1, <1>4 DEF RecvAssign
<1>5. CASE RecvAnnounce(v)
  <2> DEFINE n == Head(toViewer[v]).stream
  <2>1. n \in Nat /\ Told(v, "announce", 1, n)
    BY <1>5, FirstTold DEF RecvAnnounce
  <2>2. CASE heard[v] = n
    BY <1>1, <1>5, <2>2 DEF RecvAnnounce
  <2>3. CASE heard[v] # n
    <3>1. NewIncoming(v, n, Chosen(v)) /\ Chosen(v) \in SUBSET {v}
      BY <1>5, <2>3 DEF RecvAnnounce, Chosen
    <3> HIDE DEF n
    <3>2. heard'[v] = n /\ watching' = (watching \ {v}) \union Chosen(v)
      BY <1>0, <3>1 DEF NewIncoming
    <3>3. (Chosen(v) = {} => toRoot' = toRoot)
          /\ (Chosen(v) = {v} => toRoot' = [toRoot EXCEPT ![v] = Append(@, Msg("watch", n, None))])
      BY <1>18, <2>1, <3>1, IncomingTyped
    <3> QED BY <1>0, <2>1, <2>3, <3>1, <3>2, <3>3 DEF Speaks
  <2> QED BY <2>2, <2>3
<1>6. CASE RecvEnd(v)
  <2> DEFINE n == Head(toViewer[v]).stream
  <2>1. n \in Nat /\ Told(v, "end", 1, n)
    BY <1>6, FirstTold DEF RecvEnd
  <2>2. CASE heard[v] # n
    BY <1>1, <1>6, <2>2 DEF RecvEnd
  <2>3. CASE heard[v] = n
    <3>1. NewIncoming(v, 0, {})
      BY <1>6, <2>3 DEF RecvEnd
    <3>2. heard'[v] = 0 /\ v \notin watching' /\ toRoot' = toRoot
      BY <1>0, <3>1 DEF NewIncoming
    <3> QED BY <2>1, <2>3, <3>2 DEF Speaks
  <2> QED BY <2>2, <2>3
<1>7. CASE OptOut(v)
  BY <1>1, <1>3, <1>7 DEF OptOut
<1>8. CASE Unwatch(v)
  BY <1>3, <1>8 DEF Unwatch
<1>9. CASE Opens(v)
  BY <1>1, <1>9 DEF Opens
<1>10. CASE Silence(v)
  BY <1>0, <1>2, <1>10 DEF Silence
<1>11. CASE CoolOff(v)
  BY <1>1, <1>11 DEF CoolOff
<1>12. CASE Watch(v)
  <2>1. CASE heard[v] = 0
    BY <1>1, <1>12, <2>1 DEF Watch
  <2>2. CASE heard[v] # 0
    <3>1. watching' = watching \union {v} /\ Send(v, <<Msg("watch", heard[v], None)>>) /\ heard' = heard /\ v \notin wants
      BY <1>12, <2>2 DEF Watch
    <3>2. toRoot' = [toRoot EXCEPT ![v] = Append(@, Msg("watch", heard[v], None))]
      BY <1>0, <1>18, <3>1, Messages, SendTyped
    <3>3. v \notin watching
      BY <3>1 DEF Choosing
    <3> QED BY <1>0, <2>2, <3>1, <3>2, <3>3 DEF Speaks
  <2> QED BY <2>1, <2>2
<1>13. CASE Leave(v)
  BY <1>1, <1>13 DEF Leave
<1>14. ASSUME NEW n \in Nodes, Drained(n, v) PROVE Speaks(v)
  BY <1>1, <1>14 DEF Drained
<1>15. ASSUME NEW w \in Viewers, DetachViewer(v, w) PROVE Speaks(v)
  <2>1. CASE parent[v] = w
    BY <1>2, <1>15, <2>1, Places DEF DetachViewer
  <2>2. CASE parent[v] # w
    BY <1>1, <1>15, <2>2 DEF DetachViewer
  <2> QED BY <2>1, <2>2
<1>16. ASSUME NEW w \in Viewers, Cut(v, w) PROVE Speaks(v)
  BY <1>1, <1>16 DEF Cut
<1>19. CASE CutRoot(v)
  BY <1>1, <1>19 DEF CutRoot
<1>20. ~LoseRoot(v)
  BY <1>18 DEF LoseRoot
<1> QED BY <1>4, <1>5, <1>6, <1>7, <1>8, <1>9, <1>10, <1>11, <1>12, <1>13, <1>14, <1>15, <1>16, <1>19, <1>20
  DEF ViewerActs

\* Of what Listens(v) took off or put on, in terms of what is said.
LEMMA ListensSays ==
  ASSUME TypeOK, NEW v \in Viewers, NEW t, NEW n,
         toViewer'[v] = Tail(toViewer[v]), toViewer[v] # <<>>
  PROVE  /\ \A i \in Nat \ {0} : Says(toViewer'[v], t, i, n) <=> Told(v, t, i + 1, n)
         /\ \A i : Says(toViewer'[v], t, i, n) => i \in Nat \ {0}
<1>1. toViewer[v] \in Seq(ToViewer)
  BY DEF TypeOK
<1> QED BY <1>1, SaysTail, TailSays DEF Told

LEMMA SpokenTo ==
  ASSUME TypeOK, NEW v \in Viewers, NEW m \in ToRoot, toRoot'[v] = Append(toRoot[v], m), NEW t, NEW i, NEW n
  PROVE  Says(toRoot'[v], t, i, n) <=>
           Says(toRoot[v], t, i, n) \/ (i = Len(toRoot[v]) + 1 /\ m.t = t /\ m.stream = n)
<1>1. toRoot[v] \in Seq(ToRoot)
  BY DEF TypeOK
<1> QED BY <1>1, SaysAppend

-----------------------------------------------------------------------------
(* The numbers of the streams; who watches.                                  *)

LEMMA NumberedFrom ==
  ASSUME TypeOK, TypeOK', Numbered, stream' <= spent'.streams, spent.streams <= spent'.streams,
         \A u \in Viewers : heard'[u] = heard[u] \/ heard'[u] <= spent'.streams,
         \A u \in Viewers : \A t, i, n : Says(toRoot'[u], t, i, n) =>
           (\E k : Says(toRoot[u], t, k, n)) \/ n <= spent'.streams,
         \A u \in Viewers : \A t, i, n : Says(toViewer'[u], t, i, n) =>
           (\E k : Told(u, t, k, n)) \/ (n <= spent'.streams /\ (t \in {"announce", "end"} => n # 0))
  PROVE  Numbered'
<1>1. spent.streams \in Nat /\ spent'.streams \in Nat
  BY DEF TypeOK
<1>2. ASSUME NEW u \in Viewers PROVE heard'[u] <= spent'.streams
  <2>1. heard[u] \in Nat /\ heard[u] <= spent.streams
    BY DEF TypeOK, Numbered
  <2> QED BY <1>1, <2>1
<1>3. ASSUME NEW u \in Viewers, NEW t, NEW i, NEW n, Says(toRoot'[u], t, i, n) PROVE n <= spent'.streams
  <2>1. ASSUME NEW k, Says(toRoot[u], t, k, n) PROVE n <= spent'.streams
    <3>1. n \in Nat /\ n <= spent.streams
      BY <2>1, SaysTyped DEF Numbered
    <3> QED BY <1>1, <3>1
  <2> QED BY <1>3, <2>1
<1>4. ASSUME NEW u \in Viewers, NEW t, NEW i, NEW n, Says(toViewer'[u], t, i, n)
      PROVE  n <= spent'.streams /\ (t \in {"announce", "end"} => n # 0)
  <2>1. ASSUME NEW k, Told(u, t, k, n) PROVE n <= spent'.streams /\ (t \in {"announce", "end"} => n # 0)
    <3>1. n \in Nat /\ n <= spent.streams /\ (t \in {"announce", "end"} => n # 0)
      BY <2>1, SaysTyped DEF Numbered, Told
    <3> QED BY <1>1, <3>1
  <2> QED BY <1>4, <2>1
<1> QED BY <1>2, <1>3, <1>4 DEF Numbered

LEMMA NumberedRoot ==
  ASSUME TypeOK, TypeOK', Planned, Numbered, NEW v, RootActs(v)
  PROVE  Numbered'
<1> USE DEF root, viewer, inc, kids, net
<1>1. spent.streams \in Nat /\ spent'.streams \in Nat /\ stream \in Nat /\ heard' = heard /\ stream <= spent.streams
  BY DEF TypeOK, Numbered, RootActs, Evidence, SetBroadcastBitrate, StartBroadcast, StopBroadcast,
         RecvOld, RecvWatch, RecvUnwatch, RecvOrphan, DetachRoot
<1>2. ASSUME NEW u \in Viewers, NEW t, NEW i, NEW n, Says(toRoot'[u], t, i, n)
      PROVE  \E k : Says(toRoot[u], t, k, n)
  <2>0. toRoot[u] \in Seq(ToRoot) /\ toRoot \in [Viewers -> Seq(ToRoot)]
    BY DEF TypeOK
  <2>1. CASE toRoot'[u] = toRoot[u]
    BY <1>2, <2>1
  <2>2. CASE toRoot'[u] = <<>>
    BY <1>2, <2>2, SaysEmpty
  <2>3. CASE toRoot[u] # <<>> /\ toRoot'[u] = Tail(toRoot[u])
    BY <1>2, <2>0, <2>3, TailSays
  <2>4. toRoot'[u] = toRoot[u] \/ toRoot'[u] = <<>> \/ (toRoot[u] # <<>> /\ toRoot'[u] = Tail(toRoot[u]))
    <3>1. CASE Evidence \/ SetBroadcastBitrate \/ StartBroadcast \/ StopBroadcast
      BY <3>1 DEF Evidence, SetBroadcastBitrate, StartBroadcast, StopBroadcast
    <3>2. CASE v \in Viewers /\ (RecvOld(v) \/ RecvWatch(v) \/ RecvUnwatch(v) \/ RecvOrphan(v))
      BY <2>0, <3>2 DEF RecvOld, RecvWatch, RecvUnwatch, RecvOrphan, Hears, Arrives, Took
    <3>3. CASE v \in Viewers /\ DetachRoot(v)
      BY <2>0, <3>3 DEF DetachRoot
    <3> QED BY <3>1, <3>2, <3>3 DEF RootActs
  <2> QED BY <2>1, <2>2, <2>3, <2>4
<1>3. CASE Unannounced(v)
  <2>1. stream' = stream /\ spent'.streams = spent.streams
    BY <1>3, SpentTyped DEF Unannounced, Evidence, RecvOld, RecvWatch, RecvUnwatch, RecvOrphan, DetachRoot
  <2>2. ASSUME NEW u \in Viewers, NEW t, NEW i, NEW n, Says(toViewer'[u], t, i, n)
        PROVE  (\E k : Told(u, t, k, n)) \/ (n <= spent'.streams /\ (t \in {"announce", "end"} => n # 0))
    <3>1. Told(u, t, i, n) \/ (t = "assign" /\ n = stream)
      BY <1>3, <2>2, RootSays
    <3> QED BY <1>1, <2>1, <3>1
  <2> QED BY <1>1, <1>2, <2>1, <2>2, NumberedFrom
<1>4. CASE SetBroadcastBitrate
  <2>1. stream' = stream /\ spent'.streams = spent.streams /\ stream # 0
    BY <1>4, SpentTyped DEF SetBroadcastBitrate, Planned
  <2>2. ASSUME NEW u \in Viewers, NEW t, NEW i, NEW n, Says(toViewer'[u], t, i, n)
        PROVE  (\E k : Told(u, t, k, n)) \/ (n <= spent'.streams /\ (t \in {"announce", "end"} => n # 0))
    BY <1>1, <1>4, <2>1, <2>2, RootSays DEF Bitrate
  <2> QED BY <1>1, <1>2, <2>1, <2>2, NumberedFrom
<1>5. CASE StartBroadcast
  <2>1. stream' = spent.streams + 1 /\ spent'.streams = spent.streams + 1
    BY <1>1, <1>5, SpentTyped DEF StartBroadcast
  <2>2. ASSUME NEW u \in Viewers, NEW t, NEW i, NEW n, Says(toViewer'[u], t, i, n)
        PROVE  (\E k : Told(u, t, k, n)) \/ (n <= spent'.streams /\ (t \in {"announce", "end"} => n # 0))
    <3>1. Told(u, t, i, n) \/ (stream # 0 /\ n = stream) \/ n = stream'
      BY <1>5, <2>2, TurnSays
    <3> QED BY <1>1, <2>1, <3>1
  <2> QED BY <1>1, <1>2, <2>1, <2>2, NumberedFrom
<1>6. CASE StopBroadcast
  <2>1. stream' = 0 /\ spent'.streams = spent.streams
    BY <1>6 DEF StopBroadcast
  <2>2. ASSUME NEW u \in Viewers, NEW t, NEW i, NEW n, Says(toViewer'[u], t, i, n)
        PROVE  (\E k : Told(u, t, k, n)) \/ (n <= spent'.streams /\ (t \in {"announce", "end"} => n # 0))
    <3>1. Told(u, t, i, n) \/ (stream # 0 /\ n = stream)
      BY <1>6, <2>2, TurnSays
    <3> QED BY <1>1, <2>1, <3>1
  <2> QED BY <1>1, <1>2, <2>1, <2>2, NumberedFrom
<1> QED BY <1>3, <1>4, <1>5, <1>6 DEF RootActs, Unannounced

\* Viewers in a Drained step keep everything but draining.
LEMMA DrainedRest ==
  ASSUME NEW n, NEW v, Drained(n, v)
  PROVE  UNCHANGED <<root, viewer, active, net, toRoot, toViewer, spent>>
  BY DEF Drained

LEMMA NumberedViewer ==
  ASSUME TypeOK, TypeOK', Choosing, Numbered, NEW v \in Viewers, ViewerActs(v)
  PROVE  Numbered'
<1>1. CASE \E n \in Nodes : Drained(n, v)
  BY <1>1, DrainedRest DEF Numbered, root, viewer, inc
<1>2. CASE ~\E n \in Nodes : Drained(n, v)
  <2>0. \A u \in Viewers : Others(v, u)
    BY <1>2, OthersRest
  <2>1. /\ stream' = stream /\ spent'.streams = spent.streams /\ spent.streams \in Nat /\ stream \in Nat
        /\ stream <= spent.streams /\ heard[v] \in Nat /\ heard'[v] \in Nat /\ heard[v] <= spent.streams
    BY <2>0 DEF Others, root, TypeOK, Numbered
  <2>2. Speaks(v) /\ Listens(v)
    BY SpeaksStep, ListensStep
  <2>3. heard'[v] <= spent.streams
    <3>1. heard'[v] = heard[v] \/ heard'[v] = 0 \/ Told(v, "announce", 1, heard'[v])
      BY <2>2 DEF Speaks
    <3>2. Told(v, "announce", 1, heard'[v]) => heard'[v] <= spent.streams
      BY DEF Numbered, Told
    <3> QED BY <2>1, <3>1, <3>2
  <2>4. ASSUME NEW u \in Viewers, NEW t, NEW i, NEW n, Says(toRoot'[u], t, i, n)
        PROVE  (\E k : Says(toRoot[u], t, k, n)) \/ n <= spent'.streams
    <3>1. CASE toRoot'[u] = toRoot[u]
      BY <2>4, <3>1
    <3>2. ASSUME u = v, NEW m \in ToRoot, toRoot'[v] = Append(toRoot[v], m), m.stream <= spent.streams
          PROVE  (\E k : Says(toRoot[u], t, k, n)) \/ n <= spent'.streams
      BY <2>1, <2>4, <3>2, SpokenTo
    <3>3. ASSUME NEW p \in Nodes \union {None}
          PROVE  /\ Msg("orphan", heard[v], p) \in ToRoot /\ Msg("orphan", heard[v], p).stream = heard[v]
                 /\ Msg("watch", heard[v], p) \in ToRoot /\ Msg("watch", heard[v], p).stream = heard[v]
                 /\ Msg("unwatch", heard[v], p) \in ToRoot /\ Msg("unwatch", heard[v], p).stream = heard[v]
                 /\ Msg("watch", heard'[v], p) \in ToRoot /\ Msg("watch", heard'[v], p).stream = heard'[v]
      BY <2>1, Messages
    <3>4. \/ toRoot'[v] = toRoot[v]
          \/ \E m \in ToRoot : toRoot'[v] = Append(toRoot[v], m) /\ m.stream <= spent.streams
      BY <2>1, <2>2, <2>3, <3>3 DEF Speaks
    <3>5. u # v => toRoot'[u] = toRoot[u]
      BY <2>0 DEF Others
    <3> QED BY <3>1, <3>2, <3>4, <3>5
  <2>5. ASSUME NEW u \in Viewers, NEW t, NEW i, NEW n, Says(toViewer'[u], t, i, n)
        PROVE  (\E k : Told(u, t, k, n)) \/ (n <= spent'.streams /\ (t \in {"announce", "end"} => n # 0))
    <3>1. CASE toViewer'[u] = toViewer[u]
      BY <2>5, <3>1 DEF Told
    <3>2. CASE u = v /\ toViewer[v] # <<>> /\ toViewer'[v] = Tail(toViewer[v])
      <4>1. i \in Nat \ {0}
        BY <2>5, <3>2, ListensSays
      <4>2. Told(v, t, i + 1, n)
        BY <2>5, <3>2, <4>1, ListensSays
      <4> QED BY <3>2, <4>2
    <3>3. CASE u = v /\ stream # 0 /\ toViewer'[v] = Append(toViewer[v], Tell("announce", stream))
      <4>1. toViewer[v] \in Seq(ToViewer) /\ Tell("announce", stream) \in ToViewer
            /\ Tell("announce", stream).stream = stream
        BY <2>1, Messages, Places DEF TypeOK
      <4>2. Says(toViewer[v], t, i, n) \/ n = stream
        BY <2>5, <3>3, <4>1, SaysAppend
      <4> QED BY <2>1, <3>3, <4>2 DEF Told
    <3>4. u # v => toViewer'[u] = toViewer[u]
      BY <2>0 DEF Others
    <3>5. toViewer'[u] # <<>>
      BY <2>5, SaysEmpty
    <3> QED BY <2>2, <3>1, <3>2, <3>3, <3>4, <3>5 DEF Listens
  <2>6. \A u \in Viewers : heard'[u] = heard[u] \/ heard'[u] <= spent'.streams
    BY <2>0, <2>1, <2>3 DEF Others
  <2> QED BY <2>1, <2>4, <2>5, <2>6, NumberedFrom
<1> QED BY <1>1, <1>2

LEMMA ChoosingRoot ==
  ASSUME TypeOK, Planned, Choosing, NEW v, RootActs(v)
  PROVE  Choosing'
<1>1. UNCHANGED <<watching, wants, heard, open>>
  BY DEF viewer, inc, net, RootActs, Evidence, SetBroadcastBitrate, StartBroadcast, StopBroadcast,
         RecvOld, RecvWatch, RecvUnwatch, RecvOrphan, DetachRoot
<1>2. ASSUME NEW u \in Viewers, u \notin open, NEW t, NEW i, NEW n, Says(toViewer'[u], t, i, n)
      PROVE  t = "assign"
  <2>1. Told(u, t, i, n) => t = "assign"
    BY <1>2 DEF Choosing, Told
  <2>2. CASE Unannounced(v)
    <3>1. Told(u, t, i, n) \/ t = "assign"
      BY <1>2, <2>2, RootSays
    <3> QED BY <2>1, <3>1
  <2>3. CASE SetBroadcastBitrate
    BY <1>2, <2>1, <2>3, RootSays DEF Bitrate
  <2>4. CASE StartBroadcast \/ StopBroadcast
    BY <1>2, <2>1, <2>4, TurnSays
  <2> QED BY <2>2, <2>3, <2>4 DEF RootActs, Unannounced
<1> QED BY <1>1, <1>2 DEF Choosing

LEMMA ChoosingViewer ==
  ASSUME TypeOK, TypeOK', Numbered, Choosing, NEW v \in Viewers, ViewerActs(v)
  PROVE  Choosing'
<1>1. CASE \E n \in Nodes : Drained(n, v)
  BY <1>1, DrainedRest DEF Choosing, viewer, inc, net
<1>2. CASE ~\E n \in Nodes : Drained(n, v)
  <2> USE DEF root, viewer, inc, kids, net
  <2>0. \A u \in Viewers : Others(v, u)
    BY <1>2, OthersRest
  <2>1. Listens(v)
    BY ListensStep
  <2>2. v \in watching <=> v \in wants /\ heard[v] # 0
    BY DEF Choosing
  <2>3. v \in watching' <=> v \in wants' /\ heard'[v] # 0
    <3>0. heard \in [Viewers -> Nat]
      BY DEF TypeOK
    <3>1. ASSUME UNCHANGED <<watching, wants, heard>> PROVE v \in watching' <=> v \in wants' /\ heard'[v] # 0
      BY <2>2, <3>1
    <3>2. CASE RecvAnnounce(v)
      <4> DEFINE n == Head(toViewer[v]).stream
      <4>1. Told(v, "announce", 1, n)
        BY <3>2, FirstTold DEF RecvAnnounce
      <4>2. n # 0
        BY <4>1 DEF Numbered, Told
      <4>3. CASE heard[v] = n
        BY <3>1, <3>2, <4>3 DEF RecvAnnounce
      <4>4. CASE heard[v] # n
        <5>1. heard'[v] = n /\ watching' = (watching \ {v}) \union ({v} \intersect wants) /\ wants' = wants
          BY <3>0, <3>2, <4>4 DEF RecvAnnounce, NewIncoming, Chosen
        <5> QED BY <4>2, <5>1
      <4> QED BY <4>3, <4>4
    <3>3. CASE RecvEnd(v)
      <4>1. CASE NewIncoming(v, 0, {})
        <5>1. heard'[v] = 0 /\ v \notin watching'
          BY <3>0, <4>1 DEF NewIncoming
        <5> QED BY <5>1
      <4>2. CASE UNCHANGED <<inc, kids, toRoot>>
        BY <3>1, <3>3, <4>2 DEF RecvEnd
      <4> QED BY <3>3, <4>1, <4>2 DEF RecvEnd
    <3>4. ASSUME Unwatched(v) PROVE v \in watching' <=> v \in wants' /\ heard'[v] # 0
      BY <3>4 DEF Unwatched
    <3>5. CASE OptOut(v) \/ Unwatch(v)
      BY <3>1, <3>4, <3>5 DEF OptOut, Unwatch
    <3>6. CASE Watch(v)
      <4>1. wants' = wants \union {v} /\ heard' = heard
            /\ IF heard[v] = 0 THEN watching' = watching ELSE watching' = watching \union {v}
        BY <3>6 DEF Watch
      <4> QED BY <2>2, <4>1
    <3>7. CASE RecvAssign(v) \/ Opens(v) \/ Silence(v) \/ CoolOff(v) \/ Leave(v)
      BY <3>1, <3>7 DEF RecvAssign, Opens, Silence, CoolOff, Leave
    <3>8. CASE \E w \in Viewers : DetachViewer(v, w) \/ Cut(v, w)
      BY <3>1, <3>8 DEF DetachViewer, Cut
    <3>9. CASE CutRoot(v)
      BY <3>1, <3>9 DEF CutRoot
    <3>10. CASE LoseRoot(v)
      BY <3>0, <3>10 DEF LoseRoot, NewIncoming
    <3> QED BY <1>2, <3>2, <3>3, <3>5, <3>6, <3>7, <3>8, <3>9, <3>10 DEF ViewerActs
  <2>4. open \subseteq open'
    BY <1>2 DEF ViewerActs, RecvAssign, RecvAnnounce, RecvEnd, OptOut, Opens, Silence, CoolOff, Watch, Unwatch,
           Unwatched, Leave, CutRoot, LoseRoot, DetachViewer, Cut
  <2>5. ASSUME v \notin open'
        PROVE  heard'[v] = 0 /\ \A t, i, n : Says(toViewer'[v], t, i, n) => t = "assign"
    <3>1. heard[v] = 0 /\ \A t, i, n : Told(v, t, i, n) => t = "assign"
      BY <2>4, <2>5 DEF Choosing, Told
    <3>2. CASE heard'[v] = heard[v] /\ toViewer'[v] = toViewer[v]
      BY <3>1, <3>2 DEF Told
    <3>3. CASE toViewer[v] # <<>> /\ toViewer'[v] = Tail(toViewer[v])
      <4>1. heard'[v] = heard[v]
        BY <2>1, <2>5, <3>1, <3>3 DEF Listens
      <4>2. ASSUME NEW t, NEW i, NEW n, Says(toViewer'[v], t, i, n) PROVE t = "assign"
        <5>1. i \in Nat \ {0}
          BY <3>3, <4>2, ListensSays
        <5>2. Told(v, t, i + 1, n)
          BY <3>3, <4>2, <5>1, ListensSays
        <5> QED BY <3>1, <5>2
      <4> QED BY <3>1, <4>1, <4>2
    <3>4. CASE heard'[v] = 0 /\ toViewer'[v] = <<>>
      BY <3>4, SaysEmpty
    <3> QED BY <2>1, <2>5, <3>2, <3>3, <3>4 DEF Listens
  <2> QED BY <2>0, <2>3, <2>5 DEF Others, Choosing
<1> QED BY <1>1, <1>2

-----------------------------------------------------------------------------
(* The plan, and the links.                                                  *)

\* A step of the broadcaster leaves the viewers alone.
LEMMA RootRest ==
  ASSUME TypeOK, Planned, NEW v, RootActs(v), NEW u \in Viewers
  PROVE  /\ UNCHANGED <<wants, heard, watching, parent, seen, cooling, gone, apart, severed, open>>
         /\ active'[u] = active[u] /\ draining'[u] = draining[u] /\ links'[u] = links[u]
         /\ \/ UNCHANGED links
            \/ v \in apart /\ v \in Viewers /\ links'[Root] = links[Root] \ {v}
<1> USE DEF root, viewer, inc, kids, net
<1>0. /\ active \in [Nodes -> SUBSET Viewers] /\ draining \in [Nodes -> SUBSET Viewers]
      /\ links \in [Nodes -> SUBSET Nodes] /\ u \in Nodes /\ u # Root /\ Root \in Nodes
  BY Places DEF TypeOK
<1>1. UNCHANGED <<wants, heard, watching, parent, seen, cooling, gone, apart, severed, open>>
  BY DEF RootActs, Evidence, SetBroadcastBitrate, StartBroadcast, StopBroadcast,
         RecvOld, RecvWatch, RecvUnwatch, RecvOrphan, DetachRoot
<1>2. ASSUME NEW w, NEW queue, Moves(w, queue) PROVE active'[u] = active[u] /\ draining'[u] = draining[u]
  BY <1>2 DEF Moves
<1>3. CASE Evidence
  BY <1>1, <1>2, <1>3, ReplanSteps DEF Evidence
<1>4. CASE SetBroadcastBitrate
  <2>1. active'[u] = active[u] /\ draining'[u] = draining[u]
    BY <1>2, <1>4, ReplanSteps
  <2> QED BY <1>1, <1>4, <2>1 DEF SetBroadcastBitrate
<1>5. CASE StartBroadcast \/ StopBroadcast
  BY <1>0, <1>1, <1>5 DEF StartBroadcast, StopBroadcast, Afresh
<1>6. CASE v \in Viewers /\ (RecvOld(v) \/ RecvWatch(v) \/ RecvUnwatch(v) \/ RecvOrphan(v))
  <2>1. UNCHANGED links
    BY <1>6 DEF RecvOld, RecvWatch, RecvUnwatch, RecvOrphan
  <2>2. UNCHANGED kids \/ \E w : Moves(w, toViewer)
    BY <1>6, ReplanSteps DEF RecvOld, RecvWatch, RecvUnwatch, RecvOrphan
  <2> QED BY <1>1, <1>2, <2>1, <2>2
<1>7. CASE v \in Viewers /\ DetachRoot(v)
  <2>1. links'[u] = links[u] /\ links'[Root] = links[Root] \ {v} /\ v \in apart
    BY <1>0, <1>7 DEF DetachRoot, Without
  <2>2. active'[u] = active[u] /\ draining'[u] = draining[u]
    <3>1. CASE v \in known
      BY <1>2, <1>7, <3>1, ReplanSteps
    <3>2. CASE v \notin known
      BY <1>0, <1>7, <3>2 DEF DetachRoot, Without
    <3> QED BY <3>1, <3>2
  <2> QED BY <1>1, <1>7, <2>1, <2>2
<1> QED BY <1>3, <1>4, <1>5, <1>6, <1>7 DEF RootActs

LEMMA PlannedRoot ==
  ASSUME TypeOK, TypeOK', Planned, NEW v, RootActs(v)
  PROVE  Planned'
<1> USE DEF root, viewer, inc, kids, net
<1>0. apart' = apart /\ known \subseteq Viewers /\ plan \in [Viewers -> Nodes \union {None}]
      /\ active \in [Nodes -> SUBSET Viewers] /\ Root \in Nodes /\ links \in [Nodes -> SUBSET Nodes]
  BY Places DEF TypeOK, RootActs, Evidence, SetBroadcastBitrate, StartBroadcast, StopBroadcast,
         RecvOld, RecvWatch, RecvUnwatch, RecvOrphan, DetachRoot
<1>1. ASSUME NEW w, NEW queue, Moves(w, queue), known' # {} => stream' # 0, known' \subseteq links'[Root]
      PROVE  Planned'
  BY <1>0, <1>1 DEF Moves, Planned
<1>2. ASSUME UNCHANGED <<plan, stream, apart>>, active'[Root] = active[Root], known' = known, known \subseteq links'[Root]
      PROVE  Planned'
  BY <1>2 DEF Planned, Kids
<1>3. CASE Evidence
  <2>1. Moves(None, toViewer)
    BY <1>3, ReplanSteps
  <2>2. UNCHANGED <<stream, known, links>>
    BY <1>3 DEF Evidence
  <2> QED BY <1>1, <2>1, <2>2 DEF Planned
<1>4. CASE SetBroadcastBitrate
  <2>1. Moves(None, Announced(<<Tell("announce", stream)>>))
    BY <1>4, ReplanSteps
  <2>2. UNCHANGED <<stream, known, links>>
    BY <1>4 DEF SetBroadcastBitrate
  <2> QED BY <1>1, <2>1, <2>2 DEF Planned
<1>5. CASE StartBroadcast \/ StopBroadcast
  <2>1. known' = {} /\ plan' = NoOne /\ active'[Root] = {}
    BY <1>0, <1>5 DEF StartBroadcast, StopBroadcast, Afresh
  <2> QED BY <2>1, Places DEF Planned, NoOne, Kids
<1>6. CASE v \in Viewers /\ RecvOld(v)
  BY <1>2, <1>6 DEF RecvOld, Planned
<1>7. CASE v \in Viewers /\ RecvWatch(v)
  <2>1. known' = known \union {v} /\ UNCHANGED <<stream, links, apart>>
    BY <1>7 DEF RecvWatch
  <2>2. stream # 0 /\ v \in links[Root]
    BY <1>7, HearsIs DEF RecvWatch
  <2>3. CASE v \in known
    <3>1. known' = known
      BY <2>1, <2>3
    <3> QED BY <1>2, <1>7, <2>1, <2>3, <3>1 DEF RecvWatch, Planned
  <2>4. CASE v \notin known
    <3>1. Moves(v, toViewer)
      BY <1>7, <2>4, ReplanSteps
    <3>2. known' \subseteq links'[Root]
      BY <2>1, <2>2 DEF Planned
    <3> QED BY <1>1, <2>1, <2>2, <3>1, <3>2
  <2> QED BY <2>3, <2>4
<1>8. CASE v \in Viewers /\ RecvUnwatch(v)
  <2>1. known' = known \ {v} /\ UNCHANGED <<stream, links, apart>>
    BY <1>8 DEF RecvUnwatch
  <2>2. CASE v \notin known
    <3>1. known' = known
      BY <2>1, <2>2
    <3> QED BY <1>2, <1>8, <2>1, <2>2, <3>1 DEF RecvUnwatch, Planned
  <2>3. CASE v \in known
    <3>1. Moves(None, toViewer)
      BY <1>8, <2>3, ReplanSteps
    <3>2. known' \subseteq links'[Root] /\ (known' # {} => stream' # 0)
      BY <2>1 DEF Planned
    <3> QED BY <1>1, <3>1, <3>2
  <2> QED BY <2>2, <2>3
<1>9. CASE v \in Viewers /\ RecvOrphan(v)
  <2>1. UNCHANGED <<known, stream, links, apart>>
    BY <1>9 DEF RecvOrphan
  <2>2. CASE v \notin known
    BY <1>2, <1>9, <2>1, <2>2 DEF RecvOrphan, Planned
  <2>3. CASE v \in known
    <3>1. Moves(None, toViewer)
      BY <1>9, <2>3, ReplanSteps
    <3> QED BY <1>1, <2>1, <3>1 DEF Planned
  <2> QED BY <2>2, <2>3
<1>10. CASE v \in Viewers /\ DetachRoot(v)
  <2>1. known' = known \ {v} /\ UNCHANGED <<stream, apart>> /\ links'[Root] = links[Root] \ {v}
    BY <1>0, <1>10 DEF DetachRoot, Without
  <2>2. known' \subseteq links'[Root] /\ (known' # {} => stream' # 0)
    BY <2>1 DEF Planned
  <2>3. CASE v \notin known
    <3>1. known' = known
      BY <2>1, <2>3
    <3>2. active'[Root] = active[Root] \ {v} /\ UNCHANGED plan
      BY <1>0, <1>10, <2>3 DEF DetachRoot, Without
    <3>3. v \notin active[Root]
      BY <2>3, Places DEF Planned, Kids
    <3>4. active'[Root] = active[Root]
      BY <3>2, <3>3
    <3> QED BY <1>2, <2>1, <2>2, <3>1, <3>2, <3>4
  <2>4. CASE v \in known
    <3>1. Moves(None, toViewer)
      BY <1>10, <2>4, ReplanSteps
    <3> QED BY <1>1, <2>2, <3>1
  <2> QED BY <2>3, <2>4
<1> QED BY <1>3, <1>4, <1>5, <1>6, <1>7, <1>8, <1>9, <1>10 DEF RootActs

LEMMA PlannedViewer ==
  ASSUME TypeOK, Planned, NEW v \in Viewers, ViewerActs(v)
  PROVE  Planned'
<1>1. CASE \E n \in Nodes : Drained(n, v)
  BY <1>1, DrainedRest DEF Planned, Kids, root, net
<1>2. CASE ~\E n \in Nodes : Drained(n, v)
  <2>1. Others(v, v)
    BY <1>2, OthersRest
  <2>2. UNCHANGED <<stream, known, plan>> /\ active'[Root] = active[Root] /\ links'[Root] = links[Root] /\ apart \subseteq apart'
    BY <2>1 DEF Others, root
  <2> QED BY <2>2 DEF Planned, Kids
<1> QED BY <1>1, <1>2

LEMMA LinkedRoot ==
  ASSUME TypeOK, Planned, Linked, NEW v, RootActs(v)
  PROVE  Linked'
<1>1. /\ gone' = gone /\ apart' = apart /\ severed' = severed
      /\ \/ links' = links
         \/ v \in apart /\ links'[Root] = links[Root] \ {v}
  <2>1. CASE Viewers = {}
    <3>1. UNCHANGED <<gone, apart, severed>>
      BY DEF net, RootActs, Evidence, SetBroadcastBitrate, StartBroadcast, StopBroadcast,
             RecvOld, RecvWatch, RecvUnwatch, RecvOrphan, DetachRoot
    <3>2. UNCHANGED links
      BY <2>1 DEF net, RootActs, Evidence, SetBroadcastBitrate, StartBroadcast, StopBroadcast
    <3> QED BY <3>1, <3>2
  <2>2. CASE Viewers # {}
    BY <2>2, RootRest
  <2> QED BY <2>1, <2>2
<1>2. Viewers \ apart \subseteq links'[Root]
  BY <1>1 DEF Linked
<1>3. \A u \in Viewers : active'[u] = active[u] /\ draining'[u] = draining[u] /\ links'[u] = links[u]
  BY RootRest
<1> QED BY <1>1, <1>2, <1>3 DEF Linked, Dead

LEMMA LinkedViewer ==
  ASSUME TypeOK, Linked, NEW v \in Viewers, ViewerActs(v)
  PROVE  Linked'
<1>0. /\ active \in [Nodes -> SUBSET Viewers] /\ draining \in [Nodes -> SUBSET Viewers]
      /\ links \in [Nodes -> SUBSET Nodes] /\ v \in Nodes /\ Viewers \subseteq Nodes
  BY Places DEF TypeOK
<1>1. CASE \E n \in Nodes : Drained(n, v)
  <2>1. PICK n \in Nodes : Drained(n, v)
    BY <1>1
  <2>2. UNCHANGED <<active, links, gone, apart, severed>>
    BY <2>1, DrainedRest DEF net
  <2>3. \A u \in Viewers : draining'[u] \subseteq draining[u]
    BY <1>0, <2>1 DEF Drained, Without
  <2> QED BY <2>2, <2>3 DEF Linked, Dead
<1>2. CASE ~\E n \in Nodes : Drained(n, v)
  <2> USE DEF root, viewer, inc, kids, net
  <2>0. \A u \in Viewers : Others(v, u)
    BY <1>2, OthersRest
  <2>1. Viewers \ apart' \subseteq links'[Root]
    BY <2>0 DEF Others, Linked
  <2>6. gone' \subseteq apart'
    BY <1>2 DEF Linked, ViewerActs, RecvAssign, RecvAnnounce, RecvEnd, OptOut, Opens, Silence, CoolOff, Watch,
           Unwatch, Unwatched, Leave, CutRoot, LoseRoot, DetachViewer, Cut
  <2>2. \A u, w : ~Dead(u, w)' => ~Dead(u, w)
    BY <2>0 DEF Others, Dead
  <2>3. \/ active'[v] \union draining'[v] \subseteq active[v] \union draining[v] \union links[v] /\ links' = links
        \/ \E w \in Viewers : /\ Dead(v, w) /\ links'[v] = links[v] \ {w}
                              /\ active'[v] = active[v] \ {w} /\ draining'[v] = draining[v] \ {w}
        \/ active'[v] = {} /\ draining'[v] = {} /\ links'[v] = links[v] \ {Root}
    <3>1. CASE RecvAssign(v)
      <4>1. CASE SetKids(v, Head(toViewer[v]).kids, active, draining)
        <5>1. Head(toViewer[v]).kids \in SUBSET Viewers
          BY <3>1, FirstTold DEF RecvAssign, ToViewer
        <5>2. /\ active'[v] = {w \in Head(toViewer[v]).kids : w \in active[v] \union draining[v] \union links[v]}
              /\ draining'[v] = (draining[v] \union active[v]) \ Head(toViewer[v]).kids
          BY <1>0, <4>1, <5>1, SetKidsTyped
        <5> QED BY <3>1, <5>2 DEF RecvAssign
      <4> QED BY <3>1, <4>1 DEF RecvAssign
    <3>2. ASSUME NEW n, NEW watch, NewIncoming(v, n, watch), UNCHANGED net
          PROVE  active'[v] \union draining'[v] \subseteq active[v] \union draining[v] \union links[v] /\ links' = links
      BY <1>0, <3>2 DEF NewIncoming
    <3>3. CASE RecvAnnounce(v) \/ RecvEnd(v)
      BY <3>2, <3>3 DEF RecvAnnounce, RecvEnd
    <3>4. CASE OptOut(v) \/ Unwatch(v)
      BY <1>0, <3>4 DEF OptOut, Unwatch, Unwatched
    <3>5. CASE Opens(v) \/ Silence(v) \/ CoolOff(v) \/ Watch(v) \/ Leave(v)
      BY <3>5 DEF Opens, Silence, CoolOff, Watch, Leave
    <3>6. ASSUME NEW w \in Viewers, DetachViewer(v, w)
          PROVE  /\ Dead(v, w) /\ links'[v] = links[v] \ {w}
                 /\ active'[v] = active[v] \ {w} /\ draining'[v] = draining[v] \ {w}
      BY <1>0, <3>6 DEF DetachViewer, Without
    <3>7. ASSUME NEW w \in Viewers, Cut(v, w)
          PROVE  active'[v] \union draining'[v] \subseteq active[v] \union draining[v] \union links[v] /\ links' = links
      BY <3>7 DEF Cut
    <3>8. CASE CutRoot(v)
      BY <3>8 DEF CutRoot
    <3>9. CASE LoseRoot(v)
      BY <1>0, <3>9 DEF LoseRoot, NewIncoming, Without
    <3> QED BY <1>2, <3>1, <3>3, <3>4, <3>5, <3>6, <3>7, <3>8, <3>9 DEF ViewerActs
  <2>4. ASSUME NEW u \in Viewers, NEW w \in Viewers, u # w, ~Dead(u, w)' PROVE w \in links'[u]
    <3>1. w \in links[u]
      BY <2>2, <2>4 DEF Linked
    <3>2. CASE u = v
      BY <2>2, <2>3, <2>4, <3>1, <3>2, Places
    <3>3. CASE u # v
      BY <2>0, <3>1, <3>3 DEF Others
    <3> QED BY <3>2, <3>3
  <2>5. ASSUME NEW u \in Viewers PROVE active'[u] \union draining'[u] \subseteq links'[u]
    <3>1. active[u] \union draining[u] \subseteq links[u]
      BY DEF Linked
    <3>2. CASE u = v
      BY <2>3, <3>1, <3>2
    <3>3. CASE u # v
      BY <2>0, <3>1, <3>3 DEF Others
    <3> QED BY <3>2, <3>3
  <2> QED BY <2>1, <2>4, <2>5, <2>6 DEF Linked
<1> QED BY <1>1, <1>2

LEMMA PartedRoot ==
  ASSUME TypeOK, Planned, Parted, NEW v, RootActs(v)
  PROVE  Parted'
<1>1. \A u \in Viewers : heard' = heard /\ links'[u] = links[u]
  BY RootRest
<1> QED BY <1>1 DEF Parted

LEMMA PartedViewer ==
  ASSUME TypeOK, Parted, NEW v \in Viewers, ViewerActs(v)
  PROVE  Parted'
<1> USE DEF root, viewer, inc, kids, net
<1>0. heard \in [Viewers -> Nat] /\ links \in [Nodes -> SUBSET Nodes] /\ v \in Nodes
  BY Places DEF TypeOK
<1>1. CASE \E n \in Nodes : Drained(n, v)
  BY <1>1, DrainedRest DEF Parted
<1>2. CASE ~\E n \in Nodes : Drained(n, v)
  <2>1. ASSUME NEW u \in Viewers, u # v PROVE heard'[u] = heard[u] /\ links'[u] = links[u]
    BY <1>2, <2>1, OthersRest DEF Others
  <2>2. \/ heard'[v] = heard[v] /\ (Root \in links'[v] <=> Root \in links[v])
        \/ heard'[v] = 0
        \/ Root \in links'[v]
    <3>1. CASE RecvAssign(v) \/ RecvAnnounce(v) \/ RecvEnd(v)
      BY <3>1 DEF RecvAssign, RecvAnnounce, RecvEnd, Receives
    <3>2. CASE OptOut(v) \/ Unwatch(v) \/ Watch(v) \/ Opens(v) \/ Silence(v) \/ CoolOff(v) \/ Leave(v) \/ CutRoot(v)
      BY <3>2 DEF OptOut, Unwatch, Unwatched, Watch, Opens, Silence, CoolOff, Leave, CutRoot
    <3>3. CASE LoseRoot(v)
      BY <1>0, <3>3 DEF LoseRoot, NewIncoming
    <3>4. ASSUME NEW w \in Viewers, DetachViewer(v, w)
          PROVE  heard'[v] = heard[v] /\ (Root \in links'[v] <=> Root \in links[v])
      BY <1>0, <3>4, Places DEF DetachViewer, Without
    <3>5. ASSUME NEW w \in Viewers, Cut(v, w)
          PROVE  heard'[v] = heard[v] /\ (Root \in links'[v] <=> Root \in links[v])
      BY <3>5 DEF Cut
    <3> QED BY <1>2, <3>1, <3>2, <3>3, <3>4, <3>5 DEF ViewerActs
  <2>3. Root \notin links'[v] => heard'[v] = 0
    BY <2>2 DEF Parted
  <2> QED BY <2>1, <2>3 DEF Parted
<1> QED BY <1>1, <1>2

-----------------------------------------------------------------------------
(* What viewers hear of the streams.                                         *)

LEMMA HearsaySame ==
  ASSUME NEW u \in Viewers, Hearsay(u), stream' = stream, heard'[u] = heard[u],
         \A t \in {"announce", "end"} : \A i, n : Says(toViewer'[u], t, i, n) <=> Told(u, t, i, n)
  PROVE  Hearsay(u)'
<1>1. \A i, n : Says(toViewer'[u], "announce", i, n) <=> Told(u, "announce", i, n)
  OBVIOUS
<1>2. \A i, n : Says(toViewer'[u], "end", i, n) <=> Told(u, "end", i, n)
  OBVIOUS
<1> QED BY <1>1, <1>2 DEF Hearsay, Hearing, Told

LEMMA HearsayRoot ==
  ASSUME TypeOK, TypeOK', Planned, Linked, Numbered, NEW v, RootActs(v), NEW u \in open \ apart, Hearsay(u)
  PROVE  Hearsay(u)'
<1> USE DEF root, viewer, inc, kids, net
<1>0. /\ u \in Viewers /\ heard' = heard /\ u \in open \intersect links[Root] /\ stream \in Nat
      /\ heard[u] \in Nat /\ Len(toViewer[u]) \in Nat
  <2>1. u \in Viewers
    BY DEF TypeOK
  <2>2. heard' = heard
    BY <2>1, RootRest
  <2>3. u \in links[Root]
    BY <2>1 DEF Linked
  <2>4. stream \in Nat /\ heard[u] \in Nat /\ toViewer[u] \in Seq(ToViewer)
    BY <2>1 DEF TypeOK
  <2> QED BY <2>1, <2>2, <2>3, <2>4
<1>1. \A t, i, n : Told(u, t, i, n) => i \in Nat \ {0} /\ n \in Nat /\ i < Len(toViewer[u]) + 1
  BY <1>0, SaysTyped, SaysWhere DEF Told
<1>2. CASE Unannounced(v)
  <2>1. stream' = stream
    BY <1>2 DEF Unannounced, Evidence, RecvOld, RecvWatch, RecvUnwatch, RecvOrphan, DetachRoot
  <2>2. ASSUME NEW t \in {"announce", "end"}, NEW i, NEW n
        PROVE  Says(toViewer'[u], t, i, n) <=> Told(u, t, i, n)
    BY <1>0, <1>2, RootSays
  <2> QED BY <1>0, <2>1, <2>2, HearsaySame
<1>3. CASE SetBroadcastBitrate
  <2>1. stream' = stream
    BY <1>3 DEF SetBroadcastBitrate
  <2>2. ASSUME NEW i, NEW n
        PROVE  /\ Says(toViewer'[u], "announce", i, n) <=>
                    Told(u, "announce", i, n) \/ (n = stream /\ i = Len(toViewer[u]) + 1)
               /\ Says(toViewer'[u], "end", i, n) <=> Told(u, "end", i, n)
    <3>1. ASSUME NEW t \in {"announce", "end"}
          PROVE  Says(toViewer'[u], t, i, n) <=> Told(u, t, i, n) \/ Bitrate(u, t, i, n)
      BY <1>0, <1>3, RootSays
    <3>2. Bitrate(u, "announce", i, n) <=> n = stream /\ i = Len(toViewer[u]) + 1
      BY <1>0 DEF Bitrate
    <3>3. ~Bitrate(u, "end", i, n)
      BY DEF Bitrate
    <3> QED BY <3>1, <3>2, <3>3
  <2>3. \A i, n : Told(u, "announce", i, n)' <=> Told(u, "announce", i, n) \/ (n = stream /\ i = Len(toViewer[u]) + 1)
    BY <2>2 DEF Told
  <2>4. \A i, n : Told(u, "end", i, n)' <=> Told(u, "end", i, n)
    BY <2>2 DEF Told
  <2> QED BY <1>0, <1>1, <2>1, <2>3, <2>4 DEF Hearsay, Hearing
<1>4. \A i, n \in Nat : n \notin {0, stream} /\ Hearing(u, i, n) => \E j \in Nat : i < j /\ Told(u, "end", j, n)
  BY DEF Hearsay
<1>5. \A i, n \in Nat : Hearing(u, i, n) => i < Len(toViewer[u]) + 1
  BY <1>0, <1>1 DEF Hearing
<1>6. CASE StartBroadcast
  <2> DEFINE last == IF stream = 0 THEN Len(toViewer[u]) + 1 ELSE Len(toViewer[u]) + 2
  <2>1. PICK s \in Nat : stream' = s /\ s = spent.streams + 1 /\ spent.streams \in Nat
    BY <1>6 DEF StartBroadcast, TypeOK
  <2>2. ASSUME NEW t, NEW i, NEW n, Told(u, t, i, n) PROVE n < s
    <3>1. n \in Nat /\ n <= spent.streams
      BY <1>0, <1>1, <2>2 DEF Numbered, Told
    <3> QED BY <2>1, <3>1
  <2>3. heard[u] < s /\ stream < s /\ s \in Nat /\ last \in Nat /\ last > Len(toViewer[u])
    BY <1>0, <2>1 DEF Numbered
  <2>4. ASSUME NEW i, NEW n
        PROVE  /\ Says(toViewer'[u], "announce", i, n) <=> Told(u, "announce", i, n) \/ (n = s /\ i = last)
               /\ Says(toViewer'[u], "end", i, n) <=>
                    Told(u, "end", i, n) \/ (stream # 0 /\ n = stream /\ i = Len(toViewer[u]) + 1)
    <3>1. ASSUME NEW t
          PROVE  Says(toViewer'[u], t, i, n) <=>
                   \/ Told(u, t, i, n)
                   \/ stream # 0 /\ t = "end" /\ n = stream /\ i = Len(toViewer[u]) + 1
                   \/ t = "announce" /\ n = stream' /\ i = last
      <4> DEFINE told == u \in open \intersect links[Root]
                 ends == told /\ stream # 0 /\ t = "end" /\ n = stream /\ i = Len(toViewer[u]) + 1
                 after == IF stream = 0 THEN Len(toViewer[u]) + 1 ELSE Len(toViewer[u]) + 2
      <4>1. Says(toViewer'[u], t, i, n) <=>
              Told(u, t, i, n) \/ ends \/ (told /\ t = "announce" /\ n = stream' /\ i = after)
        BY <1>0, <1>6, TurnSays
      <4> QED BY <1>0, <4>1 DEF last
    <3> QED BY <2>1, <3>1
  <2>5. /\ \A i, n : Told(u, "announce", i, n)' <=> Told(u, "announce", i, n) \/ (n = s /\ i = last)
        /\ \A i, n : Told(u, "end", i, n)' <=>
             Told(u, "end", i, n) \/ (stream # 0 /\ n = stream /\ i = Len(toViewer[u]) + 1)
    BY <2>4 DEF Told
  <2> HIDE DEF last
  <2>6. \A i, n : Hearing(u, i, n)' <=> Hearing(u, i, n) \/ (n = s /\ i = last)
    BY <1>0, <2>5 DEF Hearing
  <2>7. \A i : ~Hearing(u, i, s)
    BY <2>2, <2>3 DEF Hearing
  <2>8. ASSUME NEW i \in Nat, NEW n \in Nat, n \notin {0, s}, Hearing(u, i, n)
        PROVE  \E j \in Nat : i < j /\ Told(u, "end", j, n)'
    <3>1. CASE n = stream
      BY <1>0, <1>5, <2>5, <2>8, <3>1
    <3>2. CASE n # stream
      BY <1>4, <2>5, <2>8, <3>2
    <3> QED BY <3>1, <3>2
  <2>9. \A i \in Nat : ~Told(u, "end", i, s)'
    BY <2>2, <2>3, <2>5
  <2>10. \A i, j, n \in Nat : Hearing(u, i, s)' /\ i < j /\ Told(u, "announce", j, n)' => n = s
    BY <1>0, <1>1, <2>3, <2>5, <2>6, <2>7
  <2>11. \E i \in Nat : Hearing(u, i, s)'
    BY <2>3, <2>6
  <2>12. \A i, n \in Nat : n \notin {0, s} /\ Hearing(u, i, n)' => \E j \in Nat : i < j /\ Told(u, "end", j, n)'
    BY <2>6, <2>8
  <2> QED BY <2>1, <2>9, <2>10, <2>11, <2>12 DEF Hearsay
<1>7. CASE StopBroadcast
  <2>1. stream' = 0
    BY <1>7 DEF StopBroadcast
  <2>2. ASSUME NEW i, NEW n
        PROVE  /\ Says(toViewer'[u], "announce", i, n) <=> Told(u, "announce", i, n)
               /\ Says(toViewer'[u], "end", i, n) <=>
                    Told(u, "end", i, n) \/ (stream # 0 /\ n = stream /\ i = Len(toViewer[u]) + 1)
    BY <1>0, <1>7, TurnSays
  <2>3. /\ \A i, n : Told(u, "announce", i, n)' <=> Told(u, "announce", i, n)
        /\ \A i, n : Told(u, "end", i, n)' <=>
             Told(u, "end", i, n) \/ (stream # 0 /\ n = stream /\ i = Len(toViewer[u]) + 1)
    BY <2>2 DEF Told
  <2>4. \A i, n : Hearing(u, i, n)' <=> Hearing(u, i, n)
    BY <1>0, <2>3 DEF Hearing
  <2>5. ASSUME NEW i \in Nat, NEW n \in Nat, n # 0, Hearing(u, i, n)
        PROVE  \E j \in Nat : i < j /\ Told(u, "end", j, n)'
    <3>1. CASE n = stream
      BY <1>0, <1>5, <2>3, <2>5, <3>1
    <3>2. CASE n # stream
      BY <1>4, <2>3, <2>5, <3>2
    <3> QED BY <3>1, <3>2
  <2> QED BY <2>1, <2>4, <2>5 DEF Hearsay
<1> QED BY <1>2, <1>3, <1>6, <1>7 DEF RootActs, Unannounced

LEMMA FirstOnly ==
  ASSUME NEW v, NEW t, NEW n, NEW t2, NEW n2, Told(v, t, 1, n), Told(v, t2, 1, n2)
  PROVE  t = t2 /\ n = n2
  BY DEF Told, Says

\* A queue without its first message.
LEMMA Shifted ==
  ASSUME TypeOK, NEW v \in Viewers, toViewer'[v] = Tail(toViewer[v]), toViewer[v] # <<>>
  PROVE  /\ \A t, n : \A i \in Nat \ {0} : Told(v, t, i, n)' <=> Told(v, t, i + 1, n)
         /\ \A t, i, n : Told(v, t, i, n)' => i \in Nat \ {0}
         /\ \A t, i, n : Told(v, t, i, n) => i \in Nat \ {0} /\ n \in Nat
<1>1. \A t, n : \A i \in Nat \ {0} : Says(toViewer'[v], t, i, n) <=> Told(v, t, i + 1, n)
  BY ListensSays
<1>2. \A t, i, n : Says(toViewer'[v], t, i, n) => i \in Nat \ {0}
  BY ListensSays
<1>3. \A t, i, n : Told(v, t, i, n) => i \in Nat \ {0} /\ n \in Nat
  BY SaysTyped DEF Told
<1> QED BY <1>1, <1>2, <1>3 DEF Told

LEMMA HearsayTaken ==
  ASSUME TypeOK, NEW v \in Viewers, Hearsay(v), stream' = stream, NEW m \in Nat,
         toViewer'[v] = Tail(toViewer[v]), toViewer[v] # <<>>,
         \/ Told(v, "assign", 1, m) /\ heard'[v] = heard[v]
         \/ Told(v, "announce", 1, m) /\ heard'[v] = m
         \/ Told(v, "end", 1, m) /\ heard'[v] = IF heard[v] = m THEN 0 ELSE heard[v]
  PROVE  Hearsay(v)'
<1>0. heard[v] \in Nat /\ stream \in Nat
  BY DEF TypeOK
<1>1. /\ \A n : \A i \in Nat \ {0} : Told(v, "announce", i, n)' <=> Told(v, "announce", i + 1, n)
      /\ \A n : \A i \in Nat \ {0} : Told(v, "end", i, n)' <=> Told(v, "end", i + 1, n)
      /\ \A i, n : Told(v, "announce", i, n)' => i \in Nat \ {0}
      /\ \A i, n : Told(v, "end", i, n)' => i \in Nat \ {0}
      /\ \A t, i, n : Told(v, t, i, n) => i \in Nat \ {0} /\ n \in Nat
  BY Shifted
\* What is heard of at 0 now was heard of at 0 or 1 before.
<1>2. \A n : n # 0 /\ heard'[v] = n =>
        \/ heard[v] = n /\ (\A k : ~Told(v, "announce", 1, k)) /\ ~Told(v, "end", 1, n)
        \/ Told(v, "announce", 1, n) /\ \A k : ~Told(v, "end", 1, k)
  BY FirstOnly
<1>3. \A i, n \in Nat : n # 0 /\ Hearing(v, i, n)' => Hearing(v, i, n) \/ Hearing(v, i + 1, n)
  BY <1>1, <1>2 DEF Hearing
<1>4. ASSUME stream # 0 PROVE \E i \in Nat : Hearing(v, i, stream)'
  <2>1. PICK i \in Nat : Hearing(v, i, stream)
    BY <1>4 DEF Hearsay
  <2>2. CASE i = 0
    <3>1. heard[v] = stream
      <4>1. ~Told(v, "announce", 0, stream)
        BY <1>1
      <4> QED BY <2>1, <2>2, <4>1 DEF Hearing
    <3>2. Told(v, "announce", 1, m) => m = stream
      BY <1>4, <2>1, <2>2 DEF Hearsay
    <3>3. Told(v, "end", 1, m) => m # stream
      BY <1>4 DEF Hearsay
    <3>4. heard'[v] = stream
      BY <3>1, <3>2, <3>3
    <3> QED BY <3>4 DEF Hearing
  <2>3. CASE i = 1
    <3>1. Told(v, "announce", 1, stream)
      BY <2>1, <2>3 DEF Hearing
    <3>2. heard'[v] = stream
      BY <3>1, FirstOnly
    <3> QED BY <3>2 DEF Hearing
  <2>4. CASE i > 1
    <3>1. Told(v, "announce", i, stream)
      BY <2>1, <2>4 DEF Hearing
    <3>2. i - 1 \in Nat \ {0} /\ (i - 1) + 1 = i
      BY <2>4
    <3>3. Told(v, "announce", i - 1, stream)'
      BY <1>0, <1>1, <3>1, <3>2
    <3>4. Hearing(v, i - 1, stream)'
      BY <3>3 DEF Hearing
    <3> QED BY <3>2, <3>4
  <2> QED BY <2>2, <2>3, <2>4
<1>5. ASSUME stream # 0, NEW i \in Nat, NEW j \in Nat, NEW n \in Nat, Hearing(v, i, stream)', i < j,
             Told(v, "announce", j, n)'
      PROVE  n = stream
  <2>1. Hearing(v, i, stream) \/ Hearing(v, i + 1, stream)
    BY <1>0, <1>3, <1>5
  <2>2. Told(v, "announce", j + 1, n) /\ i < j + 1 /\ i + 1 < j + 1
    BY <1>1, <1>5
  <2> QED BY <1>5, <2>1, <2>2 DEF Hearsay
<1>6. ASSUME stream # 0, NEW i \in Nat, Told(v, "end", i, stream)' PROVE FALSE
  <2>1. Told(v, "end", i + 1, stream)
    BY <1>1, <1>6
  <2> QED BY <1>6, <2>1 DEF Hearsay
<1>7. ASSUME NEW i \in Nat, NEW n \in Nat, n \notin {0, stream}, Hearing(v, i, n)'
      PROVE  \E j \in Nat : i < j /\ Told(v, "end", j, n)'
  <2>1. ASSUME NEW j \in Nat, i + 1 < j, Told(v, "end", j, n) PROVE \E k \in Nat : i < k /\ Told(v, "end", k, n)'
    <3>1. j - 1 \in Nat \ {0} /\ (j - 1) + 1 = j /\ i < j - 1
      BY <2>1
    <3>2. Told(v, "end", j - 1, n)'
      BY <1>1, <2>1, <3>1
    <3> QED BY <3>1, <3>2
  <2>2. CASE Hearing(v, i + 1, n)
    <3>1. \E j \in Nat : i + 1 < j /\ Told(v, "end", j, n)
      BY <1>7, <2>2 DEF Hearsay
    <3> QED BY <2>1, <3>1
  <2>3. CASE i = 0 /\ ~Hearing(v, 1, n)
    <3>1. heard'[v] = n
      BY <1>1, <1>7, <2>3 DEF Hearing
    <3>2. heard[v] = n /\ ~Told(v, "end", 1, n)
      BY <1>2, <1>7, <2>3, <3>1 DEF Hearing
    <3>3. PICK j \in Nat : 0 < j /\ Told(v, "end", j, n)
      BY <1>7, <3>2 DEF Hearsay, Hearing
    <3>4. j # 1
      BY <3>2, <3>3
    <3>5. i + 1 < j
      BY <2>3, <3>3, <3>4
    <3> QED BY <2>1, <3>3, <3>5
  <2>4. CASE i > 0
    <3>1. Told(v, "announce", i + 1, n)
      BY <1>1, <1>7, <2>4 DEF Hearing
    <3> QED BY <2>2, <3>1 DEF Hearing
  <2> QED BY <2>2, <2>3, <2>4
<1> QED BY <1>4, <1>5, <1>6, <1>7 DEF Hearsay

LEMMA HearsayViewer ==
  ASSUME TypeOK, Choosing, NEW v \in Viewers, ViewerActs(v),
         NEW u \in open' \ apart', u \in open => Hearsay(u), apart \subseteq apart'
  PROVE  Hearsay(u)'
<1> USE DEF root, net, viewer, inc
<1>1. CASE \E n \in Nodes : Drained(n, v)
  <2>1. UNCHANGED <<stream, heard, toViewer, open>>
    BY <1>1, DrainedRest
  <2> QED BY <2>1 DEF Hearsay, Hearing, Told
<1>2. CASE ~\E n \in Nodes : Drained(n, v)
  <2>0. u \in Viewers
    <3>1. open' \subseteq Viewers
      BY ViewerStepsTyped DEF TypeOK
    <3> QED BY <3>1
  <2>1. Others(v, u) /\ stream' = stream
    BY <1>2, <2>0, OthersRest DEF Others
  <2>2. CASE u # v
    <3>1. heard'[u] = heard[u] /\ toViewer'[u] = toViewer[u] /\ u \in open
      BY <2>1, <2>2 DEF Others
    <3> QED BY <2>0, <2>1, <3>1, HearsaySame DEF Told
  <2>3. CASE u = v
    <3>1. CASE heard'[v] = heard[v] /\ toViewer'[v] = toViewer[v] /\ (v \in open' <=> v \in open)
      BY <2>0, <2>1, <2>3, <3>1, HearsaySame DEF Told
    <3>2. CASE /\ toViewer[v] # <<>> /\ toViewer'[v] = Tail(toViewer[v]) /\ (v \in open' <=> v \in open)
               /\ \E n \in Nat :
                    \/ Told(v, "assign", 1, n) /\ heard'[v] = heard[v]
                    \/ Told(v, "announce", 1, n) /\ heard'[v] = n
                    \/ Told(v, "end", 1, n) /\ heard'[v] = IF heard[v] = n THEN 0 ELSE heard[v]
      <4>1. Hearsay(v)
        BY <2>3, <3>2
      <4> QED BY <2>1, <2>3, <3>2, <4>1, HearsayTaken
    <3>3. CASE /\ heard'[v] = heard[v] /\ v \notin open
               /\ toViewer'[v] = IF stream = 0 THEN toViewer[v] ELSE Append(toViewer[v], Tell("announce", stream))
      <4>0. heard[v] = 0 /\ (\A i, n : ~Told(v, "announce", i, n) /\ ~Told(v, "end", i, n)) /\ stream \in Nat
        BY <3>3 DEF Choosing, Told, TypeOK
      <4>1. CASE stream = 0
        BY <2>1, <2>3, <3>3, <4>0, <4>1 DEF Hearsay, Hearing, Told
      <4>2. CASE stream # 0
        <5>1. toViewer[v] \in Seq(ToViewer) /\ Tell("announce", stream) \in ToViewer
              /\ Tell("announce", stream).stream = stream /\ Tell("announce", stream).t = "announce"
          BY <4>0, Messages, Places DEF TypeOK
        <5>2. Len(toViewer[v]) + 1 \in Nat \ {0}
          BY <5>1, PutOn
        <5>3. \A t, i, n : Says(toViewer'[v], t, i, n) <=>
                Says(toViewer[v], t, i, n) \/ (i = Len(toViewer[v]) + 1 /\ t = "announce" /\ n = stream)
          BY <3>3, <4>2, <5>1, SaysAppend
        <5>4. /\ \A i, n : Told(v, "announce", i, n)' <=> i = Len(toViewer[v]) + 1 /\ n = stream
              /\ \A i, n : ~Told(v, "end", i, n)'
          BY <4>0, <5>3 DEF Told
        <5> QED BY <2>1, <2>3, <3>3, <4>0, <4>2, <5>2, <5>4 DEF Hearsay, Hearing
      <4> QED BY <4>1, <4>2
    <3>4. Listens(v)
      BY ListensStep
    <3>5. v \notin apart
      BY <2>3
    <3> QED BY <3>1, <3>2, <3>3, <3>4, <3>5 DEF Listens
  <2> QED BY <2>2, <2>3
<1> QED BY <1>1, <1>2

-----------------------------------------------------------------------------
(* Who is counted.                                                           *)

\* At the end of the queue, whoever stands in on and off: is it counted, or not?
Shut(on, off) == \A i \in on : \E j \in off : i < j
Held(on, off) == \E i \in on : \A j \in off : ~(i < j)
Broken(on, off) == \A i, k \in on : i < k => \E j \in off : i < j /\ j < k

LEMMA TakenFirst ==
  ASSUME NEW on \in SUBSET Nat, NEW off \in SUBSET Nat, NEW on2 \in SUBSET Nat, NEW off2 \in SUBSET Nat,
         \A i \in Nat \ {0} : i \in on2 <=> i + 1 \in on, \A i \in Nat \ {0} : i \in off2 <=> i + 1 \in off,
         0 \notin off, 0 \notin off2, 0 \in on2 <=> 1 \in on \/ (0 \in on /\ 1 \notin off),
         ~(1 \in on /\ 1 \in off)
  PROVE  /\ Shut(on, off) => Shut(on2, off2)
         /\ Held(on, off) => Held(on2, off2)
         /\ Broken(on, off) => Broken(on2, off2)
<1>1. ASSUME NEW i \in Nat, NEW j \in off, i + 1 < j PROVE j - 1 \in off2 /\ i < j - 1
  <2>1. j \in Nat /\ j - 1 \in Nat \ {0} /\ (j - 1) + 1 = j
    BY <1>1
  <2> QED BY <1>1, <2>1
<1>2. ASSUME NEW i \in on2 PROVE i + 1 \in on \/ (i = 0 /\ 0 \in on /\ 1 \notin off)
  <2>1. i \in Nat
    OBVIOUS
  <2>2. CASE i = 0
    BY <2>2
  <2>3. CASE i # 0
    BY <2>1, <2>3
  <2> QED BY <2>2, <2>3
<1>3. ASSUME Shut(on, off) PROVE Shut(on2, off2)
  <2>1. SUFFICES ASSUME NEW i \in on2 PROVE \E j \in off2 : i < j
    BY DEF Shut
  <2>2. CASE i + 1 \in on
    <3>1. PICK j \in off : i + 1 < j
      BY <1>3, <2>2 DEF Shut
    <3> QED BY <1>1, <3>1
  <2>3. CASE i = 0 /\ 0 \in on /\ 1 \notin off
    <3>1. PICK j \in off : 0 < j
      BY <1>3, <2>3 DEF Shut
    <3>2. i + 1 < j
      BY <2>3, <3>1
    <3> QED BY <1>1, <3>1, <3>2
  <2> QED BY <1>2, <2>2, <2>3
<1>4. ASSUME Held(on, off) PROVE Held(on2, off2)
  <2>1. PICK i \in on : \A j \in off : ~(i < j)
    BY <1>4 DEF Held
  <2>2. \A j \in off2 : j \in Nat \ {0} /\ j + 1 \in off
    OBVIOUS
  <2>3. CASE i = 0
    <3>1. 1 \notin off /\ 0 \in on2
      BY <2>1, <2>3
    <3>2. ASSUME NEW j \in off2 PROVE FALSE
      <4>1. j + 1 \in off /\ i < j + 1
        BY <2>2, <2>3
      <4> QED BY <2>1, <4>1
    <3> QED BY <3>1, <3>2 DEF Held
  <2>4. CASE i = 1
    <3>1. 0 \in on2
      BY <2>4
    <3>2. \A j \in off2 : ~(0 < j)
      BY <2>1, <2>2, <2>4
    <3> QED BY <3>1, <3>2 DEF Held
  <2>5. CASE i > 1
    <3>1. i - 1 \in Nat \ {0} /\ (i - 1) + 1 = i
      BY <2>5
    <3>2. i - 1 \in on2
      BY <3>1
    <3>3. \A j \in off2 : ~(i - 1 < j)
      BY <2>1, <2>2, <3>1
    <3> QED BY <3>2, <3>3 DEF Held
  <2> QED BY <2>3, <2>4, <2>5
<1>5. ASSUME Broken(on, off) PROVE Broken(on2, off2)
  <2>1. SUFFICES ASSUME NEW i \in on2, NEW k \in on2, i < k PROVE \E j \in off2 : i < j /\ j < k
    BY DEF Broken
  <2>2. i \in Nat /\ k \in Nat \ {0} /\ k + 1 \in on /\ 0 < k + 1 /\ i + 1 < k + 1
    BY <2>1
  <2>3. CASE i + 1 \in on
    <3>1. PICK j \in off : i + 1 < j /\ j < k + 1
      BY <1>5, <2>2, <2>3 DEF Broken
    <3>2. j - 1 < k
      BY <2>2, <3>1
    <3> QED BY <1>1, <2>2, <3>1, <3>2
  <2>4. CASE i = 0 /\ 0 \in on /\ 1 \notin off
    <3>1. PICK j \in off : 0 < j /\ j < k + 1
      BY <1>5, <2>2, <2>4 DEF Broken
    <3>2. i + 1 < j /\ j - 1 < k
      BY <2>2, <2>4, <3>1
    <3> QED BY <1>1, <2>2, <3>1, <3>2
  <2> QED BY <1>2, <2>3, <2>4
<1> QED BY <1>3, <1>4, <1>5

LEMMA SaidOn ==
  ASSUME NEW on \in SUBSET Nat, NEW off \in SUBSET Nat, NEW on2 \in SUBSET Nat, NEW n \in Nat,
         on2 = on \union {n}, \A i \in on \union off : i < n, Shut(on, off), Broken(on, off)
  PROVE  Held(on2, off) /\ Broken(on2, off)
<1>1. Held(on2, off)
  BY DEF Held
<1>2. ASSUME NEW i \in on2, NEW k \in on2, i < k PROVE \E j \in off : i < j /\ j < k
  <2>1. i \in on
    BY <1>2
  <2>2. CASE k \in on
    BY <1>2, <2>1, <2>2 DEF Broken
  <2>3. CASE k = n
    BY <2>1, <2>3 DEF Shut
  <2> QED BY <2>2, <2>3
<1> QED BY <1>1, <1>2 DEF Broken

LEMMA SaidOff ==
  ASSUME NEW on \in SUBSET Nat, NEW off \in SUBSET Nat, NEW off2 \in SUBSET Nat, NEW n \in Nat,
         off2 = off \union {n}, \A i \in on : i < n, Broken(on, off)
  PROVE  Shut(on, off2) /\ Broken(on, off2)
  BY DEF Shut, Broken

Ons(v) == {i \in Nat : On(v, i)}
Offs(v) == {i \in Nat : Off(v, i)}

LEMMA ToggledIs ==
  ASSUME NEW v
  PROVE  Toggled(v) <=> /\ ~Watches(v) => Shut(Ons(v), Offs(v))
                        /\ Watches(v) => Held(Ons(v), Offs(v))
                        /\ Broken(Ons(v), Offs(v))
  BY DEF Toggled, Shut, Held, Broken, Ons, Offs

LEMMA ToggledSame ==
  ASSUME NEW v, Toggled(v), Ons(v)' = Ons(v), Offs(v)' = Offs(v), Watches(v)' <=> Watches(v)
  PROVE  Toggled(v)'
<1>1. /\ ~Watches(v) => Shut(Ons(v), Offs(v))
      /\ Watches(v) => Held(Ons(v), Offs(v))
      /\ Broken(Ons(v), Offs(v))
  BY ToggledIs
<1>2. Toggled(v)' <=> /\ ~Watches(v)' => Shut(Ons(v), Offs(v))'
                      /\ Watches(v)' => Held(Ons(v), Offs(v))'
                      /\ Broken(Ons(v), Offs(v))'
  BY ToggledIs, PTL
<1> QED BY <1>1, <1>2 DEF Shut, Held, Broken

LEMMA TogglesTyped ==
  ASSUME TypeOK, NEW u \in Viewers, NEW t, NEW i, Toggle(u, t, i)
  PROVE  i \in Nat \ {0} /\ i < Len(toRoot[u]) + 1
<1>1. toRoot[u] \in Seq(ToRoot) /\ Says(toRoot[u], t, i, stream)
  BY DEF TypeOK, Toggle
<1> QED BY <1>1, SaysWhere

LEMMA TogglesAre ==
  ASSUME TypeOK, NEW u \in Viewers
  PROVE  /\ Ons(u) \in SUBSET Nat /\ Offs(u) \in SUBSET Nat /\ 0 \notin Offs(u) /\ (0 \in Ons(u) <=> u \in known)
         /\ \A i \in Nat \ {0} : i \in Ons(u) <=> Toggle(u, "watch", i)
         /\ \A i \in Nat \ {0} : i \in Offs(u) <=> Toggle(u, "unwatch", i)
         /\ \A i \in Ons(u) \union Offs(u) : i < Len(toRoot[u]) + 1
<1>1. ~Toggle(u, "watch", 0) /\ ~Toggle(u, "unwatch", 0)
  BY TogglesTyped
<1>2. \A i \in Nat : Toggle(u, "watch", i) \/ Toggle(u, "unwatch", i) => i < Len(toRoot[u]) + 1
  BY TogglesTyped
<1>3. 0 < Len(toRoot[u]) + 1
  BY DEF TypeOK
<1> QED BY <1>1, <1>2, <1>3 DEF Ons, Offs, On, Off

LEMMA TogglesSame ==
  ASSUME NEW u, stream' = stream, toRoot'[u] = toRoot[u], u \in known' <=> u \in known
  PROVE  Ons(u)' = Ons(u) /\ Offs(u)' = Offs(u)
  BY DEF Ons, Offs, On, Off, Toggle

LEMMA ToggledRest ==
  ASSUME NEW u, Toggled(u), stream' = stream, toRoot'[u] = toRoot[u], u \in known' <=> u \in known,
         heard'[u] = heard[u], u \in watching' <=> u \in watching
  PROVE  Toggled(u)'
<1>1. Ons(u)' = Ons(u) /\ Offs(u)' = Offs(u)
  BY TogglesSame
<1>2. Watches(u)' <=> Watches(u)
  BY DEF Watches
<1> QED BY <1>1, <1>2, ToggledSame

\* The broadcaster takes a message of v's.
LEMMA ToggledTaken ==
  ASSUME TypeOK, TypeOK', NEW v \in Viewers, Toggled(v), stream' = stream, toRoot[v] # <<>>,
         toRoot'[v] = Tail(toRoot[v]), heard'[v] = heard[v], v \in watching' <=> v \in watching,
         v \in known' <=> Toggle(v, "watch", 1) \/ (v \in known /\ ~Toggle(v, "unwatch", 1))
  PROVE  Toggled(v)'
<1>1. ~(Toggle(v, "watch", 1) /\ Toggle(v, "unwatch", 1))
  BY DEF Toggle, Says
<1>2. /\ Ons(v) \in SUBSET Nat /\ Offs(v) \in SUBSET Nat /\ 0 \notin Offs(v) /\ (0 \in Ons(v) <=> v \in known)
      /\ \A i \in Nat \ {0} : i \in Ons(v) <=> Toggle(v, "watch", i)
      /\ \A i \in Nat \ {0} : i \in Offs(v) <=> Toggle(v, "unwatch", i)
  BY TogglesAre
<1>3. \A t : \A i \in Nat \ {0} : Toggle(v, t, i)' <=> Toggle(v, t, i + 1)
  <2>1. toRoot[v] \in Seq(ToRoot)
    BY DEF TypeOK
  <2>2. \A t : \A i \in Nat \ {0} : Says(toRoot'[v], t, i, stream) <=> Says(toRoot[v], t, i + 1, stream)
    BY <2>1, SaysTail
  <2> QED BY <2>2 DEF Toggle
<1>4. ~Toggle(v, "watch", 0)' /\ ~Toggle(v, "unwatch", 0)'
  <2>1. toRoot'[v] \in Seq(ToRoot)
    BY DEF TypeOK
  <2>2. \A t : ~Says(toRoot'[v], t, 0, stream)
    BY <2>1, SaysWhere
  <2> QED BY <2>2 DEF Toggle
<1>5. /\ Ons(v)' \in SUBSET Nat /\ Offs(v)' \in SUBSET Nat /\ 0 \notin Offs(v)' /\ (0 \in Ons(v)' <=> v \in known')
      /\ \A i \in Nat \ {0} : i \in Ons(v)' <=> Toggle(v, "watch", i)'
      /\ \A i \in Nat \ {0} : i \in Offs(v)' <=> Toggle(v, "unwatch", i)'
  BY <1>4 DEF Ons, Offs, On, Off
<1>6. Watches(v)' <=> Watches(v)
  BY DEF Watches
<1>7. /\ \A i \in Nat \ {0} : i \in Ons(v)' <=> i + 1 \in Ons(v)
      /\ \A i \in Nat \ {0} : i \in Offs(v)' <=> i + 1 \in Offs(v)
      /\ 0 \in Ons(v)' <=> 1 \in Ons(v) \/ (0 \in Ons(v) /\ 1 \notin Offs(v))
      /\ ~(1 \in Ons(v) /\ 1 \in Offs(v))
  BY <1>1, <1>2, <1>3, <1>5
<1>8. /\ Shut(Ons(v), Offs(v)) => Shut(Ons(v)', Offs(v)')
      /\ Held(Ons(v), Offs(v)) => Held(Ons(v)', Offs(v)')
      /\ Broken(Ons(v), Offs(v)) => Broken(Ons(v)', Offs(v)')
  BY <1>2, <1>5, <1>7, TakenFirst
<1>9. Toggled(v)' <=> /\ ~Watches(v)' => Shut(Ons(v), Offs(v))'
                      /\ Watches(v)' => Held(Ons(v), Offs(v))'
                      /\ Broken(Ons(v), Offs(v))'
  BY ToggledIs, PTL
<1>10. /\ Shut(Ons(v)', Offs(v)') <=> Shut(Ons(v), Offs(v))'
       /\ Held(Ons(v)', Offs(v)') <=> Held(Ons(v), Offs(v))'
       /\ Broken(Ons(v)', Offs(v)') <=> Broken(Ons(v), Offs(v))'
  BY DEF Shut, Held, Broken
<1> QED BY <1>6, <1>8, <1>9, <1>10, ToggledIs

LEMMA ToggledRoot ==
  ASSUME TypeOK, TypeOK', Planned, Numbered, NEW v, RootActs(v), NEW u \in Viewers \ apart, Toggled(u)
  PROVE  Toggled(u)'
<1> USE DEF root, viewer, inc, kids, net
<1>0. /\ heard' = heard /\ watching' = watching /\ toRoot \in [Viewers -> Seq(ToRoot)] /\ u \in Viewers /\ u \notin apart
      /\ stream \in Nat /\ heard[u] \in Nat
  BY RootRest DEF TypeOK
<1>1. CASE Evidence \/ SetBroadcastBitrate
  BY <1>0, <1>1, ToggledRest DEF Evidence, SetBroadcastBitrate
<1>2. ASSUME u \notin known', ~Watches(u)', \A t, i : ~Toggle(u, t, i)' PROVE Toggled(u)'
  BY <1>2 DEF Toggled, On, Off
<1>3. CASE StartBroadcast
  <2>1. PICK s \in Nat : stream' = s /\ s = spent.streams + 1 /\ spent.streams \in Nat
    BY <1>3 DEF StartBroadcast, TypeOK
  <2>2. heard[u] <= spent.streams /\ heard[u] # s
    BY <1>0, <2>1 DEF Numbered
  <2>3. \A t, i : ~Says(toRoot[u], t, i, s)
    BY <1>0, <2>1 DEF Numbered
  <2>4. known' = {} /\ toRoot' = toRoot
    BY <1>3 DEF StartBroadcast, Afresh
  <2>5. ~Watches(u)'
    BY <1>0, <2>1, <2>2 DEF Watches
  <2>6. \A t, i : ~Toggle(u, t, i)'
    BY <2>1, <2>3, <2>4 DEF Toggle
  <2> QED BY <1>2, <2>4, <2>5, <2>6
<1>4. CASE StopBroadcast
  <2>1. stream' = 0 /\ known' = {}
    BY <1>4 DEF StopBroadcast, Afresh
  <2>2. ~Watches(u)' /\ \A t, i : ~Toggle(u, t, i)'
    BY <2>1 DEF Watches, Toggle
  <2> QED BY <1>2, <2>1, <2>2
<1>5. ASSUME v \in Viewers, Took(v), Arrives(v), stream' = stream,
             \A w \in Viewers \ {v} : w \in known' <=> w \in known,
             v \in known' <=> Toggle(v, "watch", 1) \/ (v \in known /\ ~Toggle(v, "unwatch", 1))
      PROVE  Toggled(u)'
  <2>1. CASE u = v
    <3>1. toRoot'[v] = Tail(toRoot[v]) /\ toRoot[v] # <<>>
      BY <1>0, <1>5 DEF Took, Arrives
    <3> QED BY <1>0, <1>5, <2>1, <3>1, ToggledTaken
  <2>2. CASE u # v
    <3>1. toRoot'[u] = toRoot[u]
      BY <1>0, <1>5, <2>2 DEF Took
    <3> QED BY <1>0, <1>5, <2>2, <3>1, ToggledRest
  <2> QED BY <2>1, <2>2
<1>6. ASSUME v \in Viewers, Arrives(v), NEW t
      PROVE  Toggle(v, t, 1) <=> Current(Head(toRoot[v])) /\ Head(toRoot[v]).t = t
  <2>1. toRoot[v] \in Seq(ToRoot) /\ toRoot[v] # <<>>
    BY <1>0, <1>6 DEF Arrives
  <2>2. Head(toRoot[v]) = toRoot[v][1] /\ 1 \in DOMAIN toRoot[v]
    BY <2>1, TakenOff
  <2> QED BY <2>2 DEF Toggle, Says, Current
<1>7. CASE v \in Viewers /\ RecvOld(v)
  <2>1. ~Toggle(v, "watch", 1) /\ ~Toggle(v, "unwatch", 1)
    BY <1>6, <1>7 DEF RecvOld
  <2> QED BY <1>5, <1>7, <2>1 DEF RecvOld
<1>8. CASE v \in Viewers /\ RecvWatch(v)
  <2>1. Toggle(v, "watch", 1)
    BY <1>6, <1>8 DEF RecvWatch, Hears
  <2> QED BY <1>5, <1>8, <2>1 DEF RecvWatch, Hears
<1>9. CASE v \in Viewers /\ RecvUnwatch(v)
  <2>1. Toggle(v, "unwatch", 1) /\ ~Toggle(v, "watch", 1)
    BY <1>6, <1>9 DEF RecvUnwatch, Hears
  <2> QED BY <1>5, <1>9, <2>1 DEF RecvUnwatch, Hears
<1>10. CASE v \in Viewers /\ RecvOrphan(v)
  <2>1. ~Toggle(v, "unwatch", 1) /\ ~Toggle(v, "watch", 1)
    BY <1>6, <1>10 DEF RecvOrphan, Hears
  <2>2. Took(v) /\ Arrives(v) /\ stream' = stream /\ known' = known
    BY <1>10 DEF RecvOrphan, Hears
  <2> QED BY <1>5, <1>10, <2>1, <2>2
<1>11. CASE v \in Viewers /\ DetachRoot(v)
  <2>1. u # v /\ toRoot'[u] = toRoot[u] /\ stream' = stream /\ (u \in known' <=> u \in known)
    BY <1>0, <1>11 DEF DetachRoot
  <2> QED BY <1>0, <2>1, ToggledRest
<1> QED BY <1>1, <1>3, <1>4, <1>7, <1>8, <1>9, <1>10, <1>11 DEF RootActs

\* v says something to the broadcaster.
LEMMA ToggledSpoken ==
  ASSUME TypeOK, NEW v \in Viewers, NEW m \in ToRoot, toRoot'[v] = Append(toRoot[v], m), Toggled(v),
         stream' = stream, known' = known
  PROVE  LET says(t) == stream # 0 /\ m.stream = stream /\ m.t = t
         IN /\ ~says("watch") /\ ~says("unwatch") /\ (Watches(v)' <=> Watches(v)) => Toggled(v)'
            /\ says("watch") /\ ~Watches(v) /\ Watches(v)' => Toggled(v)'
            /\ says("unwatch") /\ Watches(v) /\ ~Watches(v)' => Toggled(v)'
<1> DEFINE says(t) == stream # 0 /\ m.stream = stream /\ m.t = t
           n == Len(toRoot[v]) + 1
<1>1. /\ Ons(v) \in SUBSET Nat /\ Offs(v) \in SUBSET Nat
      /\ \A i \in Ons(v) \union Offs(v) : i < n
  BY TogglesAre
<1>2. n \in Nat \ {0}
  BY DEF TypeOK
<1>3. \A t, i : Toggle(v, t, i)' <=> Toggle(v, t, i) \/ (says(t) /\ i = n)
  <2>1. \A t, i : Says(toRoot'[v], t, i, stream) <=>
                    Says(toRoot[v], t, i, stream) \/ (i = n /\ m.t = t /\ m.stream = stream)
    BY SpokenTo
  <2> QED BY <2>1 DEF Toggle
<1>4. Ons(v)' = Ons(v) \union {i \in {n} : says("watch")}
  BY <1>2, <1>3 DEF Ons, On
<1>5. Offs(v)' = Offs(v) \union {i \in {n} : says("unwatch")}
  BY <1>2, <1>3 DEF Offs, Off
<1>6. ~(says("watch") /\ says("unwatch"))
  OBVIOUS
<1>7. Toggled(v)' <=> /\ ~Watches(v)' => Shut(Ons(v), Offs(v))'
                      /\ Watches(v)' => Held(Ons(v), Offs(v))'
                      /\ Broken(Ons(v), Offs(v))'
  BY ToggledIs, PTL
<1>8. /\ Shut(Ons(v)', Offs(v)') <=> Shut(Ons(v), Offs(v))'
      /\ Held(Ons(v)', Offs(v)') <=> Held(Ons(v), Offs(v))'
      /\ Broken(Ons(v)', Offs(v)') <=> Broken(Ons(v), Offs(v))'
  BY DEF Shut, Held, Broken
<1>9. /\ ~Watches(v) => Shut(Ons(v), Offs(v))
      /\ Watches(v) => Held(Ons(v), Offs(v))
      /\ Broken(Ons(v), Offs(v))
  BY ToggledIs
<1> HIDE DEF n
<1>10. ASSUME ~says("watch"), ~says("unwatch"), Watches(v)' <=> Watches(v) PROVE Toggled(v)'
  <2>1. Ons(v)' = Ons(v) /\ Offs(v)' = Offs(v)
    BY <1>4, <1>5, <1>10
  <2> QED BY <1>10, <2>1, ToggledSame
<1>11. ASSUME says("watch"), ~Watches(v), Watches(v)' PROVE Toggled(v)'
  <2>1. Ons(v)' = Ons(v) \union {n} /\ Offs(v)' = Offs(v)
    BY <1>4, <1>5, <1>6, <1>11
  <2>2. Ons(v)' \in SUBSET Nat
    BY <1>1, <1>2, <2>1
  <2>3. Held(Ons(v)', Offs(v)) /\ Broken(Ons(v)', Offs(v))
    BY <1>1, <1>2, <1>9, <1>11, <2>1, <2>2, SaidOn
  <2> QED BY <1>7, <1>8, <1>11, <2>1, <2>3
<1>12. ASSUME says("unwatch"), Watches(v), ~Watches(v)' PROVE Toggled(v)'
  <2>1. Ons(v)' = Ons(v) /\ Offs(v)' = Offs(v) \union {n}
    BY <1>4, <1>5, <1>6, <1>12
  <2>2. Offs(v)' \in SUBSET Nat
    BY <1>1, <1>2, <2>1
  <2>3. Shut(Ons(v), Offs(v)') /\ Broken(Ons(v), Offs(v)')
    BY <1>1, <1>2, <1>9, <1>12, <2>1, <2>2, SaidOff
  <2> QED BY <1>7, <1>8, <1>12, <2>1, <2>3
<1> QED BY <1>10, <1>11, <1>12

\* What v hears of is another stream only if it did not watch the one there is.
LEMMA ChangesOf ==
  ASSUME TypeOK, Choosing, NEW v \in Viewers, v \in open => Hearsay(v), NEW n \in Nat,
         \/ Told(v, "announce", 1, n) /\ n # heard[v]
         \/ Told(v, "end", 1, n) /\ n = heard[v]
  PROVE  ~Watches(v)
<1>0. v \in open
  BY DEF Choosing, Told
<1>1. SUFFICES ASSUME Watches(v) PROVE FALSE
  OBVIOUS
<1>2. stream # 0 /\ heard[v] = stream /\ Hearing(v, 0, stream)
  BY <1>1 DEF Watches, Hearing
<1>3. Told(v, "announce", 1, n) => n = stream
  BY <1>0, <1>2 DEF Hearsay
<1>4. ~Told(v, "end", 1, stream)
  BY <1>0, <1>2 DEF Hearsay
<1> QED BY <1>2, <1>3, <1>4

LEMMA ToggledViewer ==
  ASSUME TypeOK, TypeOK', Numbered, Choosing, NEW v \in Viewers, ViewerActs(v), NEW u \in Viewers \ apart',
         u \in open => Hearsay(u), Toggled(u)
  PROVE  Toggled(u)'
<1> USE DEF root, viewer, inc, kids, net
<1>1. CASE \E n \in Nodes : Drained(n, v)
  BY <1>1, DrainedRest, ToggledRest
<1>2. CASE ~\E n \in Nodes : Drained(n, v)
  <2>1. Others(v, u) /\ stream' = stream /\ known' = known
    BY <1>2, OthersRest DEF Others
  <2>2. CASE u # v
    BY <2>1, <2>2, ToggledRest DEF Others
  <2>3. CASE u = v
    <3>0. heard[v] \in Nat /\ heard'[v] \in Nat /\ stream \in Nat
      BY DEF TypeOK
    <3>1. CASE heard'[v] = heard[v] /\ (v \in watching' <=> v \in watching) /\ toRoot'[v] = toRoot[v]
      BY <2>1, <2>3, <3>1, ToggledRest
    <3>2. ASSUME heard'[v] = heard[v], v \in watching' <=> v \in watching, NEW p \in Nodes \union {None},
                 toRoot'[v] = Append(toRoot[v], Msg("orphan", heard[v], p))
          PROVE  Toggled(v)'
      <4>1. Msg("orphan", heard[v], p) \in ToRoot /\ Msg("orphan", heard[v], p).t = "orphan"
        BY <3>0, Messages
      <4>2. Watches(v)' <=> Watches(v)
        BY <2>1, <3>2 DEF Watches
      <4> QED BY <2>1, <2>3, <3>2, <4>1, <4>2, ToggledSpoken
    <3>3. CASE /\ heard'[v] = heard[v] /\ v \in watching /\ v \notin watching'
               /\ toRoot'[v] = Append(toRoot[v], Msg("unwatch", heard[v], None))
      <4>1. /\ Msg("unwatch", heard[v], None) \in ToRoot /\ Msg("unwatch", heard[v], None).t = "unwatch"
            /\ Msg("unwatch", heard[v], None).stream = heard[v]
        BY <3>0, Messages
      <4>2. ~Watches(v)' /\ (Watches(v) <=> heard[v] = stream /\ stream # 0)
        BY <3>3 DEF Watches
      <4> QED BY <2>1, <2>3, <3>3, <4>1, <4>2, ToggledSpoken
    <3>4. ASSUME v \in watching', ~Watches(v), heard'[v] # 0,
                 toRoot'[v] = Append(toRoot[v], Msg("watch", heard'[v], None))
          PROVE  Toggled(v)'
      <4>1. /\ Msg("watch", heard'[v], None) \in ToRoot /\ Msg("watch", heard'[v], None).t = "watch"
            /\ Msg("watch", heard'[v], None).stream = heard'[v]
        BY <3>0, Messages
      <4>2. Watches(v)' <=> heard'[v] = stream /\ stream # 0
        BY <2>1, <3>4 DEF Watches
      <4> QED BY <2>1, <2>3, <3>4, <4>1, <4>2, ToggledSpoken
    <3>5. CASE /\ heard'[v] = heard[v] /\ heard[v] # 0 /\ v \notin watching /\ v \in watching'
               /\ toRoot'[v] = Append(toRoot[v], Msg("watch", heard[v], None))
      BY <2>3, <3>4, <3>5 DEF Watches
    <3>6. CASE /\ heard'[v] # heard[v] /\ Told(v, "announce", 1, heard'[v])
               /\ \/ v \notin watching' /\ toRoot'[v] = toRoot[v]
                  \/ v \in watching' /\ toRoot'[v] = Append(toRoot[v], Msg("watch", heard'[v], None))
      <4>1. ~Watches(v)
        BY <2>3, <3>0, <3>6, ChangesOf
      <4>2. heard'[v] # 0
        BY <3>6 DEF Numbered, Told
      <4>3. CASE v \notin watching' /\ toRoot'[v] = toRoot[v]
        <5>1. Ons(v)' = Ons(v) /\ Offs(v)' = Offs(v)
          BY <2>1, <4>3, TogglesSame
        <5>2. ~Watches(v)'
          BY <4>3 DEF Watches
        <5> QED BY <2>3, <4>1, <5>1, <5>2, ToggledSame
      <4> QED BY <2>3, <3>4, <3>6, <4>1, <4>2, <4>3
    <3>7. CASE Told(v, "end", 1, heard[v]) /\ heard'[v] = 0 /\ v \notin watching' /\ toRoot'[v] = toRoot[v]
      <4>1. ~Watches(v)
        BY <2>3, <3>0, <3>7, ChangesOf
      <4>2. Ons(v)' = Ons(v) /\ Offs(v)' = Offs(v)
        BY <2>1, <3>7, TogglesSame
      <4>3. ~Watches(v)'
        BY <3>7 DEF Watches
      <4> QED BY <2>3, <4>1, <4>2, <4>3, ToggledSame
    <3>8. Speaks(v)
      BY SpeaksStep
    <3>9. v \notin apart
      BY <2>1, <2>3 DEF Others
    <3> QED BY <2>3, <3>1, <3>2, <3>3, <3>5, <3>6, <3>7, <3>8, <3>9 DEF Speaks
  <2> QED BY <2>2, <2>3
<1> QED BY <1>1, <1>2

-----------------------------------------------------------------------------
(* Places on their way.                                                      *)

\* The places on their way to u stay; or one more is sent; or the first is taken.
Kept(u) == \A i : /\ Assigned(u, i)' <=> Assigned(u, i)
                  /\ Assigned(u, i) => toViewer'[u][i] = toViewer[u][i]

Placed(u) ==
  \E n \in Nat : /\ toViewer'[u][n] = Place(u)
                 /\ \A i : /\ Assigned(u, i)' <=> Assigned(u, i) \/ i = n
                           /\ Assigned(u, i) => i < n /\ toViewer'[u][i] = toViewer[u][i]

Fewer(u) ==
  /\ \A i \in Nat \ {0} : /\ Assigned(u, i)' <=> Assigned(u, i + 1)
                          /\ Assigned(u, i + 1) => toViewer'[u][i] = toViewer[u][i + 1]
  /\ \A i : Assigned(u, i)' => i \in Nat \ {0}

LEMMA AssignedTyped ==
  ASSUME TypeOK, NEW u \in Viewers, NEW i, Assigned(u, i)
  PROVE  /\ i \in Nat \ {0} /\ i \in DOMAIN toViewer[u] /\ toViewer[u][i] \in ToViewer
         /\ toViewer[u][i].epoch \in Nat /\ toViewer[u][i].kids \in SUBSET Viewers
         /\ stream # 0 /\ i < Len(toViewer[u]) + 1
<1>1. toViewer[u] \in Seq(ToViewer) /\ Says(toViewer[u], "assign", i, stream) /\ stream # 0
  BY DEF TypeOK, Assigned, Told
<1>2. i \in Nat \ {0} /\ i < Len(toViewer[u]) + 1
  BY <1>1, SaysWhere
<1>3. i \in DOMAIN toViewer[u]
  BY <1>1 DEF Says
<1>4. toViewer[u][i] \in ToViewer
  BY <1>1, <1>3
<1> QED BY <1>1, <1>2, <1>3, <1>4 DEF ToViewer

LEMMA KeptSame ==
  ASSUME NEW u, stream' = stream, toViewer'[u] = toViewer[u]
  PROVE  Kept(u)
  BY DEF Kept, Assigned, Told

\* An announcement put on the queue is no place.
LEMMA KeptAnnounce ==
  ASSUME NEW u, NEW q \in Seq(ToViewer), NEW m \in ToViewer, m.t = "announce", NEW i, NEW n
  PROVE  /\ Says(Append(q, m), "assign", i, n) <=> Says(q, "assign", i, n)
         /\ Says(q, "assign", i, n) => Append(q, m)[i] = q[i]
<1>1. Says(Append(q, m), "assign", i, n) <=> Says(q, "assign", i, n) \/ (i = Len(q) + 1 /\ m.t = "assign" /\ m.stream = n)
  BY SaysAppend
<1>2. Says(q, "assign", i, n) => Append(q, m)[i] = q[i]
  BY PutOn DEF Says
<1> QED BY <1>1, <1>2

\* What a re-plan does to u's queue.
LEMMA MovesPlaces ==
  ASSUME TypeOK, stream' = stream, stream # 0, NEW u \in Viewers, NEW w, NEW queue \in [Viewers -> Seq(ToViewer)],
         \A i : Says(queue[u], "assign", i, stream) <=> Assigned(u, i),
         \A i : Assigned(u, i) => queue[u][i] = toViewer[u][i],
         Moves(w, queue)
  PROVE  /\ toViewer'[u] = queue[u] => Kept(u)
         /\ SentPlace(u, queue[u]) => Placed(u)
<1>1. ASSUME toViewer'[u] = queue[u] PROVE Kept(u)
  <2>1. \A i : Assigned(u, i)' <=> Assigned(u, i)
    BY <1>1 DEF Assigned, Told
  <2> QED BY <1>1, <2>1 DEF Kept
<1>2. ASSUME SentPlace(u, queue[u]) PROVE Placed(u)
  <2> DEFINE n == Len(queue[u]) + 1
  <2>1. toViewer'[u] = Append(queue[u], Place(u)) /\ Place(u) \in ToViewer /\ queue[u] \in Seq(ToViewer)
    BY <1>2 DEF Moves, SentPlace
  <2>2. Place(u).t = "assign" /\ Place(u).stream = stream
    BY DEF Place
  <2>3. n \in Nat /\ Append(queue[u], Place(u))[n] = Place(u)
    BY <2>1, PutOn
  <2>4. \A i : Says(Append(queue[u], Place(u)), "assign", i, stream) <=> Says(queue[u], "assign", i, stream) \/ i = n
    BY <2>1, <2>2, SaysAppend
  <2>5. \A i : Says(queue[u], "assign", i, stream) =>
                 i < n /\ Append(queue[u], Place(u))[i] = queue[u][i]
    BY <2>1, PutOn DEF Says
  <2> HIDE DEF n
  <2>6. \A i : Assigned(u, i)' <=> Assigned(u, i) \/ i = n
    BY <2>1, <2>4 DEF Assigned, Told
  <2> QED BY <2>1, <2>3, <2>5, <2>6 DEF Placed
<1> QED BY <1>1, <1>2

\* What a re-plan means for u, w being the one that has just begun to watch.
Replaces(w, u) ==
  /\ epoch' = epoch + 1 /\ (u \in known' \ apart => plan'[u] # None)
  /\ \/ Placed(u)
     \/ Kept(u) /\ (u \in known' /\ plan'[u] # None =>
                      u # w /\ plan'[u] = plan[u] /\ Kids(plan', u) = Kids(plan, u))

LEMMA RootReplaces ==
  ASSUME TypeOK, TypeOK', Planned, NEW v, NEW u \in Viewers
  PROVE  /\ Evidence \/ SetBroadcastBitrate => Replaces(None, u)
         /\ v \in Viewers =>
              /\ RecvWatch(v) /\ v \notin known => Replaces(v, u)
              /\ RecvUnwatch(v) /\ v \in known => Replaces(None, u)
              /\ RecvOrphan(v) /\ v \in known => Replaces(None, u)
              /\ DetachRoot(v) /\ v \in known => Replaces(None, u)
<1>0. /\ toViewer \in [Viewers -> Seq(ToViewer)] /\ stream \in Nat
      /\ \A i : Says(toViewer[u], "assign", i, stream) /\ stream # 0 <=> Assigned(u, i)
  BY DEF TypeOK, Assigned, Told
<1>1. ASSUME NEW w, NEW queue \in [Viewers -> Seq(ToViewer)], Moves(w, queue),
             toViewer'[u] = queue[u] => Kept(u), SentPlace(u, queue[u]) => Placed(u)
      PROVE  Replaces(w, u)
  <2>1. epoch' = epoch + 1 /\ (u \in known' \ apart => plan'[u] # None)
    BY <1>1 DEF Moves
  <2>2. CASE SentPlace(u, queue[u])
    BY <1>1, <2>1, <2>2 DEF Replaces
  <2>3. CASE ~SentPlace(u, queue[u])
    <3>1. toViewer'[u] = queue[u]
      BY <1>1, <2>3 DEF Moves
    <3>2. u \in known' /\ plan'[u] # None => u # w /\ plan'[u] = plan[u] /\ Kids(plan', u) = Kids(plan, u)
      BY <1>1, <2>3 DEF Moves
    <3> QED BY <1>1, <2>1, <3>1, <3>2 DEF Replaces
  <2> QED BY <2>2, <2>3
<1>2. ASSUME NEW w, Moves(w, toViewer), stream' = stream, stream # 0 PROVE Replaces(w, u)
  <2>1. /\ toViewer'[u] = toViewer[u] => Kept(u)
        /\ SentPlace(u, toViewer[u]) => Placed(u)
    BY <1>0, <1>2, MovesPlaces
  <2> QED BY <1>0, <1>1, <1>2, <2>1
<1>3. ASSUME Evidence PROVE Replaces(None, u)
  <2>1. Moves(None, toViewer)
    BY <1>3, ReplanSteps
  <2> QED BY <1>2, <1>3, <2>1 DEF Evidence, Planned
<1>4. ASSUME SetBroadcastBitrate PROVE Replaces(None, u)
  <2> DEFINE m == Tell("announce", stream)
             queue == Announced(<<m>>)
  <2>1. m \in ToViewer /\ m.t = "announce"
    BY <1>0, Messages, Places
  <2>2. Moves(None, queue)
    BY <1>4, ReplanSteps
  <2>3. stream' = stream /\ stream # 0
    BY <1>4 DEF SetBroadcastBitrate, Planned
  <2> HIDE DEF m
  <2>4. queue \in [Viewers -> Seq(ToViewer)]
        /\ queue[u] = IF u \in open \intersect links[Root] THEN Append(toViewer[u], m) ELSE toViewer[u]
    BY <2>1, AnnouncedOne
  <2> HIDE DEF queue
  <2>5. /\ \A i : Says(queue[u], "assign", i, stream) <=> Says(toViewer[u], "assign", i, stream)
        /\ \A i : Says(toViewer[u], "assign", i, stream) => queue[u][i] = toViewer[u][i]
    <3>1. toViewer[u] \in Seq(ToViewer)
      BY <1>0
    <3>2. ASSUME NEW i
          PROVE  /\ Says(Append(toViewer[u], m), "assign", i, stream) <=> Says(toViewer[u], "assign", i, stream)
                 /\ Says(toViewer[u], "assign", i, stream) => Append(toViewer[u], m)[i] = toViewer[u][i]
      BY <2>1, <3>1, KeptAnnounce
    <3>3. queue[u] = toViewer[u] \/ queue[u] = Append(toViewer[u], m)
      BY <2>4
    <3> QED BY <3>2, <3>3
  <2>6. /\ toViewer'[u] = queue[u] => Kept(u)
        /\ SentPlace(u, queue[u]) => Placed(u)
    BY <1>0, <2>2, <2>3, <2>4, <2>5, MovesPlaces
  <2> QED BY <1>1, <2>2, <2>4, <2>6
<1>5. ASSUME v \in Viewers, RecvWatch(v), v \notin known PROVE Replaces(v, u)
  <2>1. Moves(v, toViewer)
    BY <1>5, ReplanSteps
  <2>2. stream' = stream /\ stream # 0
    BY <1>5, HearsIs DEF RecvWatch
  <2> QED BY <1>2, <2>1, <2>2
<1>6. ASSUME v \in Viewers, v \in known, RecvUnwatch(v) \/ RecvOrphan(v) \/ DetachRoot(v) PROVE Replaces(None, u)
  <2>1. Moves(None, toViewer)
    BY <1>6, ReplanSteps
  <2>2. stream' = stream /\ stream # 0
    BY <1>6 DEF RecvUnwatch, RecvOrphan, DetachRoot, Planned
  <2> QED BY <1>2, <2>1, <2>2
<1> QED BY <1>3, <1>4, <1>5, <1>6

LEMMA ReplacesPlaces ==
  ASSUME TypeOK, NEW w, NEW u \in Viewers, Replaces(w, u), heard'[u] = heard[u], seen'[u] = seen[u],
         stream' = stream, Dated(u)
  PROVE  Dated(u)'
<1>0. epoch \in Nat /\ epoch' = epoch + 1 /\ (heard[u] = stream /\ stream # 0 => seen[u] <= epoch) /\ seen[u] \in Nat \union {-1}
  BY DEF TypeOK, Replaces, Dated
<1>1. heard[u] = stream /\ stream # 0 => seen[u] <= epoch'
  BY <1>0
<1>2. \A i : Assigned(u, i) => i \in Nat /\ toViewer[u][i].epoch \in Nat /\ stream # 0
  BY AssignedTyped
<1>3. \A i : Assigned(u, i) => toViewer[u][i].epoch <= epoch'
  BY <1>0, <1>2 DEF Dated
<1>4. CASE Kept(u)
  <2>1. \A i : /\ Assigned(u, i)' <=> Assigned(u, i)
               /\ Assigned(u, i) => toViewer'[u][i] = toViewer[u][i]
    BY <1>4 DEF Kept
  <2> QED BY <1>1, <1>2, <1>3, <2>1 DEF Dated
<1>5. CASE Placed(u)
  <2>1. PICK n \in Nat :
          /\ toViewer'[u][n] = Place(u)
          /\ \A i : /\ Assigned(u, i)' <=> Assigned(u, i) \/ i = n
                    /\ Assigned(u, i) => i < n /\ toViewer'[u][i] = toViewer[u][i]
    BY <1>5 DEF Placed
  <2>2. Place(u).epoch = epoch'
    BY <1>0 DEF Place
  <2>3. ASSUME NEW i \in Nat, Assigned(u, i)'
        PROVE  /\ toViewer'[u][i].epoch <= epoch'
               /\ heard'[u] = stream' => seen'[u] <= toViewer'[u][i].epoch
               /\ \A j \in Nat : i < j /\ Assigned(u, j)' => toViewer'[u][i].epoch <= toViewer'[u][j].epoch
    <3>1. CASE Assigned(u, i)
      <4>1. /\ toViewer'[u][i].epoch <= epoch' /\ toViewer'[u][i] = toViewer[u][i]
            /\ heard'[u] = stream' => seen'[u] <= toViewer'[u][i].epoch
        BY <1>3, <2>1, <3>1 DEF Dated
      <4>2. ASSUME NEW j \in Nat, i < j, Assigned(u, j)' PROVE toViewer'[u][i].epoch <= toViewer'[u][j].epoch
        <5>1. CASE j = n
          BY <2>1, <2>2, <4>1, <5>1
        <5>2. CASE Assigned(u, j)
          <6>1. toViewer[u][i].epoch <= toViewer[u][j].epoch
            BY <3>1, <4>2, <5>2 DEF Dated
          <6> QED BY <2>1, <4>1, <5>2, <6>1
        <5> QED BY <2>1, <4>2, <5>1, <5>2
      <4> QED BY <4>1, <4>2
    <3>2. CASE i = n
      <4>1. toViewer'[u][i].epoch = epoch'
        BY <2>1, <2>2, <3>2
      <4>2. Assigned(u, n)' => stream # 0
        BY DEF Assigned
      <4>3. heard'[u] = stream' => seen'[u] <= epoch'
        BY <1>1, <2>3, <3>2, <4>2
      <4>4. \A j \in Nat : i < j => ~Assigned(u, j)'
        BY <2>1, <3>2
      <4> QED BY <1>0, <4>1, <4>3, <4>4
    <3> QED BY <2>1, <2>3, <3>1, <3>2
  <2> QED BY <1>1, <2>3 DEF Dated
<1> QED BY <1>4, <1>5 DEF Replaces

LEMMA DatedSame ==
  ASSUME NEW u, Kept(u), stream' = stream, epoch' = epoch, heard'[u] = heard[u], seen'[u] = seen[u], Dated(u)
  PROVE  Dated(u)'
<1>1. \A i : /\ Assigned(u, i)' <=> Assigned(u, i)
             /\ Assigned(u, i) => toViewer'[u][i] = toViewer[u][i]
  BY DEF Kept
<1> QED BY <1>1 DEF Dated

\* No place on the way is of another stream than the one there is.
LEMMA Undated ==
  ASSUME NEW u, \A i : ~Assigned(u, i)', stream' # 0 => heard'[u] # stream'
  PROVE  Dated(u)'
  BY DEF Dated

LEMMA DatedRoot ==
  ASSUME TypeOK, TypeOK', Planned, Numbered, NEW v, RootActs(v), NEW u \in Viewers, Dated(u)
  PROVE  Dated(u)'
<1>0. heard' = heard /\ seen' = seen /\ stream \in Nat /\ heard[u] \in Nat
  BY RootRest DEF TypeOK
<1>1. ASSUME NEW w, Replaces(w, u), stream' = stream PROVE Dated(u)'
  BY <1>0, <1>1, ReplacesPlaces
<1>2. ASSUME UNCHANGED <<stream, epoch, toViewer>> PROVE Dated(u)'
  BY <1>0, <1>2, KeptSame, DatedSame
<1>3. CASE Evidence \/ SetBroadcastBitrate
  BY <1>1, <1>3, RootReplaces DEF Evidence, SetBroadcastBitrate
<1>4. CASE StartBroadcast
  <2>1. PICK s \in Nat : stream' = s /\ s = spent.streams + 1 /\ spent.streams \in Nat
    BY <1>4 DEF StartBroadcast, TypeOK
  <2>2. heard[u] <= spent.streams /\ heard[u] # s
    BY <1>0, <2>1 DEF Numbered
  <2>3. \A i : ~Says(toViewer[u], "assign", i, s)
    BY <2>1 DEF Numbered
  <2>4. stream # s /\ stream' = s
    BY <1>0, <2>1 DEF Numbered
  <2>5. ASSUME NEW i PROVE ~Says(toViewer'[u], "assign", i, s)
    <3> DEFINE told == u \in open \intersect links[Root]
               ends == told /\ stream # 0 /\ "assign" = "end" /\ s = stream /\ i = Len(toViewer[u]) + 1
               after == IF stream = 0 THEN Len(toViewer[u]) + 1 ELSE Len(toViewer[u]) + 2
    <3>1. Says(toViewer'[u], "assign", i, s) <=>
            Told(u, "assign", i, s) \/ ends \/ (told /\ "assign" = "announce" /\ s = stream' /\ i = after)
      BY <1>4, TurnSays
    <3> QED BY <2>3, <3>1 DEF Told
  <2>6. \A i : ~Assigned(u, i)'
    BY <2>4, <2>5 DEF Assigned, Told
  <2> QED BY <1>0, <2>1, <2>2, <2>6, Undated
<1>5. CASE StopBroadcast
  <2>1. stream' = 0
    BY <1>5 DEF StopBroadcast
  <2>2. \A i : ~Assigned(u, i)'
    BY <2>1 DEF Assigned
  <2> QED BY <2>1, <2>2, Undated
<1>6. CASE v \in Viewers /\ RecvOld(v)
  BY <1>2, <1>6 DEF RecvOld, root
<1>7. CASE v \in Viewers /\ RecvWatch(v)
  BY <1>1, <1>2, <1>7, RootReplaces DEF RecvWatch
<1>8. CASE v \in Viewers /\ RecvUnwatch(v)
  BY <1>1, <1>2, <1>8, RootReplaces DEF RecvUnwatch
<1>9. CASE v \in Viewers /\ RecvOrphan(v)
  <2>1. stream' = stream
    BY <1>9 DEF RecvOrphan
  <2>2. CASE v \in known
    BY <1>1, <1>9, <2>1, <2>2, RootReplaces
  <2>3. CASE v \notin known
    BY <1>2, <1>9, <2>1, <2>3 DEF RecvOrphan
  <2> QED BY <2>2, <2>3
<1>10. CASE v \in Viewers /\ DetachRoot(v)
  <2>1. stream' = stream
    BY <1>10 DEF DetachRoot
  <2>2. CASE v \in known
    BY <1>1, <1>10, <2>1, <2>2, RootReplaces
  <2>3. CASE v \notin known
    BY <1>2, <1>10, <2>1, <2>3 DEF DetachRoot
  <2> QED BY <2>2, <2>3
<1> QED BY <1>3, <1>4, <1>5, <1>6, <1>7, <1>8, <1>9, <1>10 DEF RootActs

\* What v's step does to its place: it takes one, or gives it up, or is cut off
\* from a neighbour in it, or leaves all as it was.
Takes(v) ==
  LET m == toViewer[v][1]
  IN /\ Told(v, "assign", 1, m.stream) /\ m.stream = heard[v] /\ m.epoch >= seen[v] /\ v \in watching
     /\ seen'[v] = m.epoch /\ parent'[v] = m.parent
     /\ active'[v] = {w \in m.kids : w \in active[v] \union draining[v] \union links[v]}

Ignores(v) ==
  /\ toViewer[v] # <<>> /\ toViewer'[v] = Tail(toViewer[v])
  /\ Told(v, "assign", 1, heard[v]) => ~(toViewer[v][1].epoch >= seen[v] /\ v \in watching)

Rests(v) == seen'[v] = seen[v] /\ parent'[v] = parent[v] /\ active'[v] = active[v]

Steps(v) ==
  \/ /\ toViewer[v] # <<>> /\ toViewer'[v] = Tail(toViewer[v]) /\ heard'[v] = heard[v]
     /\ v \in watching' <=> v \in watching
     /\ Takes(v)
  \/ /\ heard'[v] = heard[v] /\ (v \in watching' <=> v \in watching) /\ Ignores(v) /\ Rests(v)
  \/ /\ toViewer[v] # <<>> /\ toViewer'[v] = Tail(toViewer[v])
     /\ heard'[v] # heard[v] /\ seen'[v] = -1
  \/ /\ Kept(v) /\ heard'[v] = heard[v] /\ seen'[v] = seen[v]
     /\ \/ v \notin watching'
        \/ Rests(v)
        \/ \E w \in Viewers : /\ Dead(v, w) /\ active'[v] = active[v] \ {w}
                              /\ parent'[v] = IF parent[v] = w THEN None ELSE parent[v]

LEMMA StepsTaken ==
  ASSUME TypeOK, Numbered, NEW v \in Viewers, v \notin apart, ViewerActs(v)
  PROVE  Steps(v)
<1> USE DEF root, viewer, inc, kids, net
<1>0. /\ v \in Nodes /\ heard \in [Viewers -> Nat] /\ seen \in [Viewers -> Nat \union {-1}]
      /\ parent \in [Viewers -> Nodes \union {None}] /\ active \in [Nodes -> SUBSET Viewers]
      /\ toViewer \in [Viewers -> Seq(ToViewer)] /\ stream \in Nat
  BY Places DEF TypeOK
<1>1. ASSUME UNCHANGED <<stream, toViewer>> PROVE Kept(v)
  BY <1>1, KeptSame
<1>2. CASE RecvAssign(v)
  <2> DEFINE m == Head(toViewer[v])
  <2>1. /\ toViewer[v] # <<>> /\ toViewer'[v] = Tail(toViewer[v]) /\ m = toViewer[v][1] /\ m \in ToViewer
        /\ Told(v, "assign", 1, m.stream) /\ UNCHANGED <<heard, watching>>
    BY <1>2, FirstTold DEF RecvAssign
  <2>2. CASE m.stream = heard[v] /\ m.epoch >= seen[v] /\ v \in watching
    <3>1. seen' = [seen EXCEPT ![v] = m.epoch] /\ parent' = [parent EXCEPT ![v] = m.parent]
          /\ SetKids(v, m.kids, active, draining)
      BY <1>2, <2>2 DEF RecvAssign
    <3>2. m.kids \in SUBSET Viewers
      BY <2>1 DEF ToViewer
    <3>3. active'[v] = {w \in m.kids : w \in active[v] \union draining[v] \union links[v]}
      BY <1>0, <3>1, <3>2, SetKidsTyped
    <3>4. seen'[v] = m.epoch /\ parent'[v] = m.parent
      BY <1>0, <3>1
    <3> HIDE DEF m
    <3> QED BY <2>1, <2>2, <3>3, <3>4 DEF Steps, Takes
  <2>3. CASE ~(m.stream = heard[v] /\ m.epoch >= seen[v] /\ v \in watching)
    <3>1. UNCHANGED <<seen, parent, kids>>
      BY <1>2, <2>3 DEF RecvAssign
    <3>2. Told(v, "assign", 1, heard[v]) => heard[v] = m.stream
      BY <2>1, FirstOnly
    <3> HIDE DEF m
    <3> QED BY <2>1, <2>3, <3>1, <3>2 DEF Steps, Ignores, Rests
  <2> QED BY <2>2, <2>3
<1>3. CASE RecvAnnounce(v)
  <2> DEFINE n == Head(toViewer[v]).stream
  <2>1. /\ toViewer[v] # <<>> /\ toViewer'[v] = Tail(toViewer[v]) /\ Told(v, "announce", 1, n)
    BY <1>3, FirstTold DEF RecvAnnounce
  <2>2. CASE heard[v] = n
    <3>1. UNCHANGED <<inc, kids>>
      BY <1>3, <2>2 DEF RecvAnnounce
    <3>2. ~Told(v, "assign", 1, heard[v])
      BY <2>1, FirstOnly
    <3> QED BY <2>1, <3>1, <3>2 DEF Steps, Ignores, Rests
  <2>3. CASE heard[v] # n
    <3>1. NewIncoming(v, n, Chosen(v))
      BY <1>3, <2>3 DEF RecvAnnounce
    <3>2. heard'[v] = n /\ seen'[v] = -1
      BY <1>0, <3>1 DEF NewIncoming
    <3> HIDE DEF n
    <3> QED BY <2>1, <2>3, <3>2 DEF Steps
  <2> QED BY <2>2, <2>3
<1>4. CASE RecvEnd(v)
  <2> DEFINE n == Head(toViewer[v]).stream
  <2>1. /\ toViewer[v] # <<>> /\ toViewer'[v] = Tail(toViewer[v]) /\ Told(v, "end", 1, n)
    BY <1>4, FirstTold DEF RecvEnd
  <2>2. CASE heard[v] # n
    <3>1. UNCHANGED <<inc, kids>>
      BY <1>4, <2>2 DEF RecvEnd
    <3>2. ~Told(v, "assign", 1, heard[v])
      BY <2>1, FirstOnly
    <3> QED BY <2>1, <3>1, <3>2 DEF Steps, Ignores, Rests
  <2>3. CASE heard[v] = n
    <3>1. NewIncoming(v, 0, {})
      BY <1>4, <2>3 DEF RecvEnd
    <3>2. heard'[v] = 0 /\ seen'[v] = -1
      BY <1>0, <3>1 DEF NewIncoming
    <3>3. n # 0
      BY <2>1 DEF Numbered, Told
    <3> HIDE DEF n
    <3> QED BY <2>1, <2>3, <3>2, <3>3 DEF Steps
  <2> QED BY <2>2, <2>3
<1>5. ASSUME Unwatched(v) PROVE Steps(v)
  BY <1>1, <1>5 DEF Unwatched, Steps
<1>6. ASSUME UNCHANGED <<stream, toViewer, heard, seen, parent, active>> PROVE Steps(v)
  BY <1>1, <1>6 DEF Steps, Rests
<1>7. CASE OptOut(v)
  BY <1>5, <1>6, <1>7 DEF OptOut
<1>8. CASE Unwatch(v)
  BY <1>5, <1>8 DEF Unwatch
<1>9. CASE Opens(v)
  <2>1. Kept(v)
    <3>1. CASE stream = 0
      BY <1>1, <1>9, <3>1 DEF Opens
    <3>2. CASE stream # 0
      <4>1. Tell("announce", stream) \in ToViewer /\ Tell("announce", stream).t = "announce" /\ toViewer[v] \in Seq(ToViewer)
        BY <1>0, Messages, Places
      <4>2. toViewer'[v] = Append(toViewer[v], Tell("announce", stream)) /\ stream' = stream
        BY <1>0, <1>9, <3>2 DEF Opens
      <4>3. ASSUME NEW i
            PROVE  /\ Says(toViewer'[v], "assign", i, stream) <=> Says(toViewer[v], "assign", i, stream)
                   /\ Says(toViewer[v], "assign", i, stream) => toViewer'[v][i] = toViewer[v][i]
        <5> DEFINE m == Tell("announce", stream)
        <5>1. m \in ToViewer /\ m.t = "announce" /\ toViewer'[v] = Append(toViewer[v], m)
          BY <4>1, <4>2
        <5> HIDE DEF m
        <5>2. /\ Says(Append(toViewer[v], m), "assign", i, stream) <=> Says(toViewer[v], "assign", i, stream)
              /\ Says(toViewer[v], "assign", i, stream) => Append(toViewer[v], m)[i] = toViewer[v][i]
          BY <4>1, <5>1, KeptAnnounce
        <5> QED BY <5>1, <5>2
      <4>4. \A i : Assigned(v, i)' <=> Assigned(v, i)
        BY <4>2, <4>3 DEF Assigned, Told
      <4>5. \A i : Assigned(v, i) => toViewer'[v][i] = toViewer[v][i]
        BY <4>3 DEF Assigned, Told
      <4> QED BY <4>4, <4>5 DEF Kept
    <3> QED BY <3>1, <3>2
  <2> QED BY <1>9, <2>1 DEF Opens, Steps, Rests
<1>10. CASE Silence(v) \/ CoolOff(v) \/ Watch(v) \/ Leave(v)
  BY <1>6, <1>10 DEF Silence, CoolOff, Watch, Leave
<1>11. CASE \E n \in Nodes : Drained(n, v)
  BY <1>6, <1>11, DrainedRest
<1>12. ASSUME NEW w \in Viewers, DetachViewer(v, w) PROVE Steps(v)
  <2>1. Dead(v, w) /\ active'[v] = active[v] \ {w} /\ UNCHANGED <<stream, toViewer, heard, seen>>
    BY <1>0, <1>12 DEF DetachViewer, Without
  <2>2. parent'[v] = IF parent[v] = w THEN None ELSE parent[v]
    BY <1>0, <1>12 DEF DetachViewer
  <2> QED BY <1>1, <2>1, <2>2 DEF Steps
<1>13. ASSUME NEW w \in Viewers, Cut(v, w) PROVE Steps(v)
  BY <1>6, <1>13 DEF Cut
<1>14. CASE CutRoot(v)
  BY <1>6, <1>14 DEF CutRoot
<1>15. ~LoseRoot(v)
  BY DEF LoseRoot
<1> QED BY <1>2, <1>3, <1>4, <1>7, <1>8, <1>9, <1>10, <1>11, <1>12, <1>13, <1>14, <1>15 DEF ViewerActs

LEMMA FewerPlaces ==
  ASSUME TypeOK, TypeOK', NEW v \in Viewers, stream' = stream, toViewer[v] # <<>>, toViewer'[v] = Tail(toViewer[v])
  PROVE  Fewer(v)
<1>1. toViewer[v] \in Seq(ToViewer)
  BY DEF TypeOK
<1>2. ASSUME NEW i \in Nat \ {0} PROVE Assigned(v, i)' <=> Assigned(v, i + 1)
  <2>1. Says(toViewer'[v], "assign", i, stream) <=> Says(toViewer[v], "assign", i + 1, stream)
    BY <1>1, SaysTail
  <2> QED BY <2>1 DEF Assigned, Told
<1>3. ASSUME NEW i \in Nat \ {0}, Assigned(v, i + 1) PROVE toViewer'[v][i] = toViewer[v][i + 1]
  <2>1. i + 1 \in DOMAIN toViewer[v]
    BY <1>3 DEF Assigned, Told, Says
  <2> QED BY <1>1, <2>1, TakenOff
<1>4. ASSUME NEW i, Assigned(v, i)' PROVE i \in Nat \ {0}
  <2>1. toViewer'[v] \in Seq(ToViewer) /\ Says(toViewer'[v], "assign", i, stream')
    BY <1>4 DEF TypeOK, Assigned, Told
  <2> QED BY <2>1, SaysWhere
<1> QED BY <1>2, <1>3, <1>4 DEF Fewer

LEMMA DatedViewer ==
  ASSUME TypeOK, TypeOK', Numbered, NEW v \in Viewers, ViewerActs(v), NEW u \in Viewers \ apart, Dated(u)
  PROVE  Dated(u)'
<1> USE DEF root, inc, viewer, net
<1>0. epoch \in Nat /\ seen[v] \in Nat \union {-1} /\ stream \in Nat
  BY DEF TypeOK
<1>1. CASE \E n \in Nodes : Drained(n, v)
  BY <1>1, DrainedRest, KeptSame, DatedSame
<1>2. CASE ~\E n \in Nodes : Drained(n, v)
  <2>1. Others(v, u) /\ stream' = stream /\ epoch' = epoch
    BY <1>2, OthersRest DEF Others
  <2>2. CASE u # v
    BY <2>1, <2>2, KeptSame, DatedSame DEF Others
  <2>3. CASE u = v
    <3>1. \A i : Assigned(v, i) => i \in Nat \ {0} /\ toViewer[v][i].epoch \in Nat
      BY AssignedTyped
    <3>2. ASSUME Fewer(v), heard'[v] = stream /\ stream # 0 => seen'[v] <= epoch,
                 \A i \in Nat \ {0} : Assigned(v, i + 1) /\ heard'[v] = stream => seen'[v] <= toViewer[v][i + 1].epoch
          PROVE  Dated(v)'
      <4>1. ASSUME NEW i \in Nat, Assigned(v, i)'
            PROVE  /\ i \in Nat \ {0} /\ Assigned(v, i + 1) /\ toViewer'[v][i] = toViewer[v][i + 1]
                   /\ i + 1 \in Nat
        BY <3>2, <4>1 DEF Fewer
      <4>2. ASSUME NEW i \in Nat, Assigned(v, i)'
            PROVE  /\ toViewer'[v][i].epoch <= epoch
                   /\ heard'[v] = stream => seen'[v] <= toViewer'[v][i].epoch
                   /\ \A j \in Nat : i < j /\ Assigned(v, j)' => toViewer'[v][i].epoch <= toViewer'[v][j].epoch
        <5>1. toViewer[v][i + 1].epoch <= epoch
          BY <2>3, <4>1, <4>2 DEF Dated
        <5>2. ASSUME NEW j \in Nat, i < j, Assigned(v, j)' PROVE toViewer'[v][i].epoch <= toViewer'[v][j].epoch
          <6>1. Assigned(v, j + 1) /\ toViewer'[v][j] = toViewer[v][j + 1] /\ i + 1 < j + 1 /\ j + 1 \in Nat
            BY <4>1, <5>2
          <6>2. Assigned(v, i + 1) /\ toViewer'[v][i] = toViewer[v][i + 1] /\ i + 1 \in Nat
            BY <4>1, <4>2
          <6>3. toViewer[v][i + 1].epoch <= toViewer[v][j + 1].epoch
            BY <2>3, <6>1, <6>2 DEF Dated
          <6> QED BY <6>1, <6>2, <6>3
        <5> QED BY <3>2, <4>1, <4>2, <5>1, <5>2
      <4> QED BY <2>1, <3>2, <4>2 DEF Dated
    <3>3. CASE /\ toViewer[v] # <<>> /\ toViewer'[v] = Tail(toViewer[v]) /\ heard'[v] = heard[v]
               /\ Takes(v)
      <4> DEFINE m == toViewer[v][1]
      <4>1. Told(v, "assign", 1, m.stream) /\ m.stream = heard[v] /\ seen'[v] = m.epoch
        BY <3>3 DEF Takes
      <4>2. heard[v] = stream /\ stream # 0 => Assigned(v, 1)
        BY <4>1 DEF Assigned
      <4>3. heard[v] = stream /\ stream # 0 => m.epoch <= epoch
        BY <2>3, <4>2 DEF Dated
      <4>4. ASSUME NEW i \in Nat \ {0}, Assigned(v, i + 1), heard[v] = stream PROVE m.epoch <= toViewer[v][i + 1].epoch
        <5>1. Assigned(v, 1) /\ 1 < i + 1
          BY <4>2, <4>4 DEF Assigned
        <5> QED BY <2>3, <4>4, <5>1 DEF Dated
      <4>5. Fewer(v)
        BY <2>1, <3>3, FewerPlaces
      <4> QED BY <2>3, <3>2, <3>3, <4>1, <4>3, <4>4, <4>5
    <3>4. ASSUME Fewer(v), heard'[v] = heard[v], seen'[v] = seen[v] PROVE Dated(v)'
      <4>1. heard'[v] = stream /\ stream # 0 => seen'[v] <= epoch
        BY <2>3, <3>4 DEF Dated
      <4>2. \A i \in Nat \ {0} : Assigned(v, i + 1) /\ heard'[v] = stream => seen'[v] <= toViewer[v][i + 1].epoch
        BY <2>3, <3>4 DEF Dated
      <4> QED BY <3>2, <3>4, <4>1, <4>2
    <3>5. CASE heard'[v] = heard[v] /\ Ignores(v) /\ Rests(v)
      <4>1. Fewer(v) /\ seen'[v] = seen[v]
        BY <2>1, <3>5, FewerPlaces DEF Ignores, Rests
      <4> QED BY <2>3, <3>4, <3>5, <4>1
    <3>6. CASE toViewer[v] # <<>> /\ toViewer'[v] = Tail(toViewer[v]) /\ heard'[v] # heard[v] /\ seen'[v] = -1
      <4>1. Fewer(v)
        BY <2>1, <3>6, FewerPlaces
      <4>2. \A i \in Nat \ {0} : Assigned(v, i + 1) => -1 <= toViewer[v][i + 1].epoch
        BY <3>1
      <4> QED BY <1>0, <2>3, <3>2, <3>6, <4>1, <4>2
    <3>7. CASE Kept(v) /\ heard'[v] = heard[v] /\ seen'[v] = seen[v]
      BY <2>1, <2>3, <3>7, DatedSame
    <3>8. Steps(v)
      BY <2>3, StepsTaken
    <3> QED BY <2>3, <3>3, <3>5, <3>6, <3>7, <3>8 DEF Steps
  <2> QED BY <2>2, <2>3
<1> QED BY <1>1, <1>2

-----------------------------------------------------------------------------
(* The places viewers have, or will have.                                    *)

LEMMA ReachedKept ==
  ASSUME NEW u \in Viewers, Reached(u), Kept(u), plan'[u] = plan[u], Kids(plan', u) = Kids(plan, u),
         Applied(u) => Applied(u)'
  PROVE  Reached(u)'
<1>1. \A i : /\ Assigned(u, i)' <=> Assigned(u, i)
             /\ Assigned(u, i) => toViewer'[u][i] = toViewer[u][i]
  BY DEF Kept
<1>2. (\A i \in Nat : ~Assigned(u, i)) => Applied(u)
  BY DEF Reached
<1>3. ASSUME \A i \in Nat : ~Assigned(u, i)' PROVE Applied(u)'
  BY <1>1, <1>2, <1>3
<1>4. ASSUME NEW i \in Nat, Assigned(u, i)', \A j \in Nat : i < j => ~Assigned(u, j)'
      PROVE  toViewer'[u][i].parent = plan'[u] /\ toViewer'[u][i].kids = Kids(plan', u)
  <2>1. Latest(u, i)
    BY <1>1, <1>4 DEF Latest
  <2>2. toViewer[u][i].parent = plan[u] /\ toViewer[u][i].kids = Kids(plan, u)
    BY <2>1 DEF Reached
  <2>3. toViewer'[u][i] = toViewer[u][i]
    BY <1>1, <1>4
  <2> QED BY <2>2, <2>3
<1>5. \A i \in Nat : Latest(u, i)' <=> Assigned(u, i)' /\ \A j \in Nat : i < j => ~Assigned(u, j)'
  BY DEF Latest
<1>6. Kids(plan, u)' = Kids(plan', u)
  BY DEF Kids
<1> QED BY <1>3, <1>4, <1>5, <1>6 DEF Reached

LEMMA ReachedPlaced ==
  ASSUME NEW u \in Viewers, Placed(u)
  PROVE  Reached(u)'
<1>1. PICK n \in Nat :
        /\ toViewer'[u][n] = Place(u)
        /\ \A i : /\ Assigned(u, i)' <=> Assigned(u, i) \/ i = n
                  /\ Assigned(u, i) => i < n /\ toViewer'[u][i] = toViewer[u][i]
  BY DEF Placed
<1>2. ~\A i \in Nat : ~Assigned(u, i)'
  BY <1>1
<1>3. ASSUME NEW i \in Nat, Assigned(u, i)', \A j \in Nat : i < j => ~Assigned(u, j)'
      PROVE  toViewer'[u][i].parent = plan'[u] /\ toViewer'[u][i].kids = Kids(plan', u)
  <2>1. i = n
    BY <1>1, <1>3
  <2> QED BY <1>1, <2>1 DEF Place
<1>5. \A i \in Nat : Latest(u, i)' <=> Assigned(u, i)' /\ \A j \in Nat : i < j => ~Assigned(u, j)'
  BY DEF Latest
<1>6. Kids(plan, u)' = Kids(plan', u)
  BY DEF Kids
<1> QED BY <1>2, <1>3, <1>5, <1>6 DEF Reached

\* Whether v has its place depends on little.
LEMMA AppliedSame ==
  ASSUME NEW u \in Viewers, plan'[u] = plan[u], Kids(plan', u) = Kids(plan, u), parent'[u] = parent[u],
         active'[u] = active[u], gone \subseteq gone', apart \subseteq apart', severed \subseteq severed', Applied(u)
  PROVE  Applied(u)'
<1>1. \A w : Dead(u, w) => Dead(u, w)'
  BY DEF Dead
<1>2. \/ parent[u] = plan[u]
      \/ parent[u] = None /\ plan[u] \in Viewers /\ Dead(u, plan[u])
  BY DEF Applied
<1>3. /\ \A w \in Kids(plan, u) : w \in active[u] \/ Dead(u, w)
      /\ active[u] \subseteq Kids(plan, u)
  BY DEF Applied
<1>4. /\ \A w \in Kids(plan', u) : w \in active'[u] \/ Dead(u, w)'
      /\ active'[u] \subseteq Kids(plan', u)
  BY <1>1, <1>3
<1>5. \/ parent'[u] = plan'[u]
      \/ parent'[u] = None /\ plan'[u] \in Viewers /\ Dead(u, plan[u])'
  <2>1. PICK p : p = plan[u]
    OBVIOUS
  <2>2. Dead(u, p) => Dead(u, p)'
    BY <1>1
  <2>3. Dead(u, plan[u])' <=> Dead(u, p)'
    BY <2>1 DEF Dead
  <2> QED BY <1>2, <2>1, <2>2, <2>3
<1>6. Kids(plan, u)' = Kids(plan', u)
  BY DEF Kids
<1> QED BY <1>4, <1>5, <1>6 DEF Applied

LEMMA SettledIs ==
  ASSUME NEW u
  PROVE  /\ Settled(u) <=> u \in known /\ Watches(u) /\ \A i \in Nat : i > 0 => ~Toggle(u, "watch", i)
         /\ Settled(u)' <=> u \in known' /\ Watches(u)' /\ \A i \in Nat : i > 0 => ~Toggle(u, "watch", i)'
  BY DEF Settled, On

\* Steps of the broadcaster settle only the viewer that asked to watch.
LEMMA SettledRoot ==
  ASSUME TypeOK, TypeOK', Planned, NEW v, RootActs(v), NEW u \in Viewers \ apart, Toggled(u), Settled(u)'
  PROVE  /\ stream' = stream /\ ~StartBroadcast /\ ~StopBroadcast /\ ~DetachRoot(u)
         /\ Settled(u) \/ (v = u /\ RecvWatch(v) /\ v \notin known)
         /\ v = u /\ u \notin known => ~RecvUnwatch(u) /\ ~RecvOrphan(u)
         /\ ~(v = u /\ RecvUnwatch(u))
<1> USE DEF root, viewer, inc, kids, net
<1>0. /\ heard' = heard /\ watching' = watching /\ toRoot \in [Viewers -> Seq(ToRoot)] /\ u \in Viewers /\ u \notin apart
  BY RootRest DEF TypeOK
<1>1. u \in known' /\ Watches(u)' /\ \A i \in Nat : i > 0 => ~Toggle(u, "watch", i)'
  BY SettledIs
<1>2. ~StartBroadcast /\ ~StopBroadcast
  BY <1>1 DEF StartBroadcast, StopBroadcast, Afresh
<1>3. stream' = stream
  BY <1>2 DEF RootActs, Evidence, SetBroadcastBitrate, RecvOld, RecvWatch, RecvUnwatch, RecvOrphan, DetachRoot
<1>4. Watches(u)
  BY <1>0, <1>1, <1>3 DEF Watches
<1>5. ~DetachRoot(u)
  BY <1>0 DEF DetachRoot
<1>6. ASSUME toRoot'[u] = toRoot[u], u \in known PROVE Settled(u)
  <2>1. \A i : Toggle(u, "watch", i)' <=> Toggle(u, "watch", i)
    BY <1>3, <1>6 DEF Toggle
  <2> QED BY <1>1, <1>4, <1>6, <2>1, SettledIs
<1>7. ASSUME u = v, Arrives(v), Took(v), u \in known, ~Toggle(u, "watch", 1) PROVE Settled(u)
  <2>1. toRoot[u] \in Seq(ToRoot) /\ toRoot[u] # <<>> /\ toRoot'[u] = Tail(toRoot[u])
    BY <1>0, <1>7 DEF Arrives, Took
  <2>2. \A i \in Nat \ {0} : Says(toRoot'[u], "watch", i, stream) <=> Says(toRoot[u], "watch", i + 1, stream)
    BY <2>1, SaysTail
  <2>3. \A i \in Nat \ {0} : Toggle(u, "watch", i)' <=> Toggle(u, "watch", i + 1)
    BY <1>3, <2>2 DEF Toggle
  <2>4. ASSUME NEW i \in Nat, i > 0, Toggle(u, "watch", i) PROVE FALSE
    <3>1. i # 1
      BY <1>7, <2>4
    <3>2. i - 1 \in Nat \ {0} /\ (i - 1) + 1 = i /\ i - 1 \in Nat /\ i - 1 > 0
      BY <2>4, <3>1
    <3>3. Toggle(u, "watch", i - 1)'
      BY <2>3, <2>4, <3>2
    <3> QED BY <1>1, <3>2, <3>3
  <2> QED BY <1>4, <1>7, <2>4, SettledIs
<1>8. ASSUME v \in Viewers, Arrives(v), NEW t
      PROVE  Toggle(v, t, 1) <=> Current(Head(toRoot[v])) /\ Head(toRoot[v]).t = t
  <2>1. toRoot[v] \in Seq(ToRoot) /\ toRoot[v] # <<>>
    BY <1>0, <1>8 DEF Arrives
  <2>2. Head(toRoot[v]) = toRoot[v][1] /\ 1 \in DOMAIN toRoot[v]
    BY <2>1, TakenOff
  <2> QED BY <2>2 DEF Toggle, Says, Current
<1>9. ASSUME v = u, RecvUnwatch(u) PROVE FALSE
  BY <1>1, <1>9 DEF RecvUnwatch
<1>10. ASSUME v = u, u \notin known, RecvOrphan(u) PROVE FALSE
  BY <1>1, <1>10 DEF RecvOrphan
<1>11. CASE Evidence \/ SetBroadcastBitrate
  <2>1. toRoot' = toRoot /\ known' = known
    BY <1>11 DEF Evidence, SetBroadcastBitrate
  <2> QED BY <1>1, <1>2, <1>3, <1>5, <1>6, <1>9, <1>10, <2>1
<1>12. CASE v \in Viewers /\ v # u /\ (RecvOld(v) \/ RecvWatch(v) \/ RecvUnwatch(v) \/ RecvOrphan(v) \/ DetachRoot(v))
  <2>1. toRoot'[u] = toRoot[u] /\ (u \in known' <=> u \in known)
    BY <1>0, <1>12 DEF RecvOld, RecvWatch, RecvUnwatch, RecvOrphan, DetachRoot, Took
  <2> QED BY <1>1, <1>2, <1>3, <1>5, <1>6, <1>12, <2>1
<1>13. CASE v = u /\ RecvOld(u)
  <2>1. ~Toggle(u, "watch", 1) /\ Took(u) /\ Arrives(u) /\ known' = known
    BY <1>0, <1>8, <1>13 DEF RecvOld
  <2>2. Settled(u)
    BY <1>1, <1>7, <1>13, <2>1
  <2> QED BY <1>2, <1>3, <1>5, <1>9, <1>10, <2>2
<1>14. CASE v = u /\ RecvOrphan(u)
  <2>1. ~Toggle(u, "watch", 1) /\ Took(u) /\ Arrives(u) /\ known' = known
    BY <1>0, <1>8, <1>14 DEF RecvOrphan, Hears
  <2>2. Settled(u)
    BY <1>1, <1>7, <1>14, <2>1
  <2> QED BY <1>2, <1>3, <1>5, <1>9, <1>10, <2>2
\* Someone known already has not asked to watch since without a break.
<1>15. CASE v = u /\ RecvWatch(u)
  <2>1. Toggle(u, "watch", 1)
    BY <1>0, <1>8, <1>15 DEF RecvWatch, Hears
  <2>2. u \notin known
    <3>1. SUFFICES ASSUME u \in known PROVE FALSE
      OBVIOUS
    <3>2. On(u, 0) /\ On(u, 1)
      BY <2>1, <3>1 DEF On
    <3>3. \E j \in Nat : 0 < j /\ j < 1 /\ Off(u, j)
      BY <3>2 DEF Toggled
    <3> QED BY <3>3
  <2> QED BY <1>2, <1>3, <1>5, <1>9, <1>10, <1>15, <2>2
<1> QED BY <1>0, <1>2, <1>5, <1>9, <1>11, <1>12, <1>13, <1>14, <1>15 DEF RootActs

LEMMA SyncedRoot ==
  ASSUME TypeOK, TypeOK', Planned, NEW v, RootActs(v), NEW u \in Viewers \ apart, Toggled(u), Synced(u)
  PROVE  Synced(u)'
<1>1. SUFFICES ASSUME Settled(u)' PROVE Reached(u)'
  BY DEF Synced
<1> USE DEF root, viewer, inc, kids, net
<1>2. /\ stream' = stream /\ ~StartBroadcast /\ ~StopBroadcast /\ ~DetachRoot(u)
      /\ Settled(u) \/ (v = u /\ RecvWatch(v) /\ v \notin known)
      /\ v = u /\ u \notin known => ~RecvUnwatch(u) /\ ~RecvOrphan(u)
      /\ ~(v = u /\ RecvUnwatch(u))
  BY <1>1, SettledRoot
<1>3. u \in known' /\ u \in Viewers /\ u \notin apart
  BY <1>1 DEF Settled
<1>4. /\ parent'[u] = parent[u] /\ gone' = gone /\ apart' = apart /\ severed' = severed /\ active'[u] = active[u]
  BY <1>3, RootRest
<1>5. ASSUME NEW w, Replaces(w, u), Settled(u) \/ w = u PROVE Reached(u)'
  <2>1. CASE Placed(u)
    BY <1>3, <2>1, ReachedPlaced
  <2>2. CASE ~Placed(u)
    <3>1. Kept(u) /\ u # w /\ plan'[u] = plan[u] /\ Kids(plan', u) = Kids(plan, u)
      BY <1>3, <1>5, <2>2 DEF Replaces
    <3>2. Reached(u)
      BY <1>5, <3>1 DEF Synced
    <3>3. Applied(u) => Applied(u)'
      BY <1>3, <1>4, <3>1, AppliedSame
    <3> QED BY <1>3, <3>1, <3>2, <3>3, ReachedKept
  <2> QED BY <2>1, <2>2
<1>6. ASSUME UNCHANGED <<plan, toViewer>>, Settled(u) PROVE Reached(u)'
  <2>1. Kept(u) /\ Kids(plan', u) = Kids(plan, u)
    BY <1>2, <1>6, KeptSame
  <2>2. Applied(u) => Applied(u)'
    BY <1>3, <1>4, <1>6, <2>1, AppliedSame
  <2>3. Reached(u)
    BY <1>6 DEF Synced
  <2> QED BY <1>3, <1>6, <2>1, <2>2, <2>3, ReachedKept
<1>7. CASE Evidence \/ SetBroadcastBitrate
  <2>1. Replaces(None, u)
    BY <1>3, <1>7, RootReplaces
  <2>2. Settled(u)
    <3>1. CASE Evidence
      <4>1. toRoot' = toRoot /\ known' = known
        BY <3>1 DEF Evidence
      <4>2. \A i : Toggle(u, "watch", i)' <=> Toggle(u, "watch", i)
        BY <1>2, <4>1 DEF Toggle
      <4>3. Watches(u)' <=> Watches(u)
        BY <1>2, <1>3, RootRest DEF Watches
      <4> QED BY <1>1, <4>1, <4>2, <4>3, SettledIs
    <3>2. CASE SetBroadcastBitrate
      <4>1. toRoot' = toRoot /\ known' = known
        BY <3>2 DEF SetBroadcastBitrate
      <4>2. \A i : Toggle(u, "watch", i)' <=> Toggle(u, "watch", i)
        BY <1>2, <4>1 DEF Toggle
      <4>3. Watches(u)' <=> Watches(u)
        BY <1>2, <1>3, RootRest DEF Watches
      <4> QED BY <1>1, <4>1, <4>2, <4>3, SettledIs
    <3> QED BY <1>7, <3>1, <3>2
  <2> QED BY <1>5, <2>1, <2>2
<1>8. CASE v \in Viewers /\ RecvOld(v)
  <2>1. UNCHANGED <<known, plan, toViewer>>
    BY <1>8 DEF RecvOld
  <2>2. Settled(u)
    BY <1>2, <1>3, <2>1
  <2> QED BY <1>6, <2>1, <2>2
<1>9. CASE v \in Viewers /\ RecvWatch(v)
  <2>1. CASE v \notin known
    <3>1. Replaces(v, u)
      BY <1>3, <1>9, <2>1, RootReplaces
    <3> QED BY <1>2, <1>5, <3>1
  <2>2. CASE v \in known
    <3>1. UNCHANGED <<plan, toViewer>>
      BY <1>9, <2>2 DEF RecvWatch
    <3> QED BY <1>2, <1>6, <2>2, <3>1
  <2> QED BY <2>1, <2>2
<1>10. CASE v \in Viewers /\ (RecvUnwatch(v) \/ RecvOrphan(v) \/ DetachRoot(v))
  <2>0. Settled(u)
    <3>1. SUFFICES ASSUME v = u, RecvWatch(v), v \notin known PROVE FALSE
      BY <1>2
    <3>2. ~RecvUnwatch(v) /\ ~RecvOrphan(v) /\ ~DetachRoot(v)
      BY <1>2, <3>1
    <3> QED BY <1>10, <3>2
  <2>1. CASE v \in known
    <3>1. Replaces(None, u)
      BY <1>3, <1>10, <2>1, RootReplaces
    <3> QED BY <1>5, <2>0, <3>1
  <2>2. CASE v \notin known
    <3>1. UNCHANGED <<plan, toViewer>>
      BY <1>10, <2>2 DEF RecvUnwatch, RecvOrphan, DetachRoot
    <3> QED BY <1>6, <2>0, <3>1
  <2> QED BY <2>1, <2>2
<1> QED BY <1>2, <1>7, <1>8, <1>9, <1>10 DEF RootActs

\* A viewer's step settles nothing.
LEMMA SettledViewer ==
  ASSUME TypeOK, TypeOK', Numbered, Choosing, NEW v \in Viewers, ViewerActs(v), UNCHANGED root, Settled(v)', v \notin apart
  PROVE  /\ Settled(v) /\ heard'[v] = heard[v] /\ v \in watching /\ v \in watching'
         /\ heard[v] = stream /\ stream # 0
<1> USE DEF root
<1>0. /\ v \in known /\ stream' = stream /\ heard[v] \in Nat /\ heard'[v] \in Nat
      /\ v \in watching' /\ heard'[v] = stream /\ stream # 0
      /\ \A i \in Nat : i > 0 => ~Toggle(v, "watch", i)'
  BY SettledIs DEF Watches, TypeOK
<1>1. ASSUME NEW m \in ToRoot, toRoot'[v] = Append(toRoot[v], m)
      PROVE  /\ \A i : Toggle(v, "watch", i)' <=> Toggle(v, "watch", i) \/ (m.t = "watch" /\ m.stream = stream /\ i = Len(toRoot[v]) + 1)
             /\ ~(m.t = "watch" /\ m.stream = stream)
  <2>1. \A i : Says(toRoot'[v], "watch", i, stream) <=>
                 Says(toRoot[v], "watch", i, stream) \/ (i = Len(toRoot[v]) + 1 /\ m.t = "watch" /\ m.stream = stream)
    BY <1>1, SpokenTo
  <2>2. \A i : Toggle(v, "watch", i)' <=> Toggle(v, "watch", i) \/ (m.t = "watch" /\ m.stream = stream /\ i = Len(toRoot[v]) + 1)
    BY <1>0, <2>1 DEF Toggle
  <2>3. Len(toRoot[v]) + 1 \in Nat /\ Len(toRoot[v]) + 1 > 0
    BY DEF TypeOK
  <2> QED BY <1>0, <2>2, <2>3
<1>2. ~\E p \in Nodes \union {None} : toRoot'[v] = Append(toRoot[v], Msg("watch", heard'[v], p))
  BY <1>0, <1>1, Messages
<1>3. ASSUME heard'[v] = heard[v], v \in watching, toRoot'[v] = toRoot[v] PROVE Settled(v)
  <2>1. \A i : Toggle(v, "watch", i)' <=> Toggle(v, "watch", i)
    BY <1>0, <1>3 DEF Toggle
  <2> QED BY <1>0, <1>3, <2>1, SettledIs DEF Watches
<1>4. ASSUME heard'[v] = heard[v], v \in watching, NEW p \in Nodes \union {None},
             toRoot'[v] = Append(toRoot[v], Msg("orphan", heard[v], p))
      PROVE  Settled(v)
  <2>1. Msg("orphan", heard[v], p) \in ToRoot
    BY <1>0, <1>4, Messages
  <2>2. \A i : Toggle(v, "watch", i)' \/ ~Toggle(v, "watch", i)
    BY <1>1, <1>4, <2>1
  <2> QED BY <1>0, <1>4, <2>2, SettledIs DEF Watches
<1>5. Speaks(v)
  BY SpeaksStep
<1>6. /\ heard'[v] = heard[v] /\ v \in watching
      /\ \/ toRoot'[v] = toRoot[v]
         \/ \E p \in Nodes \union {None} : toRoot'[v] = Append(toRoot[v], Msg("orphan", heard[v], p))
  BY <1>0, <1>2, <1>5 DEF Speaks
<1> QED BY <1>0, <1>3, <1>4, <1>6

\* v's own step keeps it in its place or on the way to it.
LEMMA ReachedStep ==
  ASSUME TypeOK, TypeOK', Planned, Linked, NEW v \in Viewers, Dated(v), Steps(v), UNCHANGED root,
         gone \subseteq gone', apart \subseteq apart', severed \subseteq severed', Reached(v),
         heard'[v] = heard[v], v \in watching, v \in watching', heard[v] = stream, stream # 0
  PROVE  Reached(v)'
<1> USE DEF root
<1>0. UNCHANGED <<stream, plan>> /\ Kids(plan', v) = Kids(plan, v)
  BY DEF Kids
<1>1. \A w : Dead(v, w) => Dead(v, w)'
  BY DEF Dead
<1>2. ASSUME Fewer(v), ~Assigned(v, 1), Rests(v) PROVE Reached(v)'
  <2>1. \A i \in Nat : Assigned(v, i) => i \in Nat \ {0, 1} /\ i - 1 \in Nat \ {0} /\ (i - 1) + 1 = i
    BY <1>2, AssignedTyped
  <2>2. ASSUME \A i \in Nat : ~Assigned(v, i)' PROVE Applied(v)'
    <3>1. ASSUME NEW i \in Nat, Assigned(v, i) PROVE FALSE
      <4>1. i - 1 \in Nat \ {0} /\ (i - 1) + 1 = i
        BY <2>1, <3>1
      <4>2. Assigned(v, i - 1)'
        BY <1>2, <3>1, <4>1 DEF Fewer
      <4> QED BY <2>2, <4>1, <4>2
    <3>2. Applied(v)
      BY <3>1 DEF Reached
    <3> QED BY <1>0, <1>2, <3>2, AppliedSame DEF Rests
  <2>3. ASSUME NEW i \in Nat, Assigned(v, i)', \A j \in Nat : i < j => ~Assigned(v, j)'
        PROVE  toViewer'[v][i].parent = plan'[v] /\ toViewer'[v][i].kids = Kids(plan', v)
    <3>1. i \in Nat \ {0} /\ Assigned(v, i + 1) /\ toViewer'[v][i] = toViewer[v][i + 1] /\ i + 1 \in Nat
      BY <1>2, <2>3 DEF Fewer
    <3>2. ASSUME NEW j \in Nat, i + 1 < j, Assigned(v, j) PROVE FALSE
      <4>1. j - 1 \in Nat \ {0} /\ (j - 1) + 1 = j /\ i < j - 1
        BY <2>1, <3>2
      <4>2. Assigned(v, j - 1)'
        BY <1>2, <3>2, <4>1 DEF Fewer
      <4> QED BY <2>3, <4>1, <4>2
    <3>3. Latest(v, i + 1)
      BY <3>1, <3>2 DEF Latest
    <3> QED BY <1>0, <3>1, <3>3 DEF Reached
  <2>4. \A i \in Nat : Latest(v, i)' <=> Assigned(v, i)' /\ \A j \in Nat : i < j => ~Assigned(v, j)'
    BY DEF Latest
  <2>5. Kids(plan, v)' = Kids(plan', v)
    BY DEF Kids
  <2> QED BY <2>2, <2>3, <2>4, <2>5 DEF Reached
<1>3. ASSUME Takes(v), Fewer(v) PROVE Reached(v)'
  <2> DEFINE m == toViewer[v][1]
  <2>1. /\ Assigned(v, 1) /\ parent'[v] = m.parent
        /\ active'[v] = {w \in m.kids : w \in active[v] \union draining[v] \union links[v]}
    BY <1>3 DEF Takes, Assigned
  <2>2. ASSUME \A i \in Nat : ~Assigned(v, i)' PROVE Applied(v)'
    <3>1. ASSUME NEW j \in Nat, 1 < j, Assigned(v, j) PROVE FALSE
      <4>1. j - 1 \in Nat \ {0} /\ (j - 1) + 1 = j
        BY <3>1
      <4>2. Assigned(v, j - 1)'
        BY <1>3, <3>1, <4>1 DEF Fewer
      <4> QED BY <2>2, <4>1, <4>2
    <3>2. Latest(v, 1)
      BY <2>1, <3>1 DEF Latest
    <3>3. m.parent = plan[v] /\ m.kids = Kids(plan, v)
      BY <3>2 DEF Reached
    <3>4. ASSUME NEW w \in Kids(plan, v) PROVE w \in active'[v] \/ Dead(v, w)'
      <4>1. w \in Viewers /\ w # v
        BY <3>4 DEF Kids, Planned
      <4>2. ~Dead(v, w) => w \in links[v]
        BY <4>1 DEF Linked
      <4> QED BY <1>1, <2>1, <3>3, <4>2
    <3>5. Kids(plan, v)' = Kids(plan, v)
      BY <1>0 DEF Kids
    <3> QED BY <1>0, <2>1, <3>3, <3>4, <3>5 DEF Applied
  <2>3. ASSUME NEW i \in Nat, Assigned(v, i)', \A j \in Nat : i < j => ~Assigned(v, j)'
        PROVE  toViewer'[v][i].parent = plan'[v] /\ toViewer'[v][i].kids = Kids(plan', v)
    <3>1. i \in Nat \ {0} /\ Assigned(v, i + 1) /\ toViewer'[v][i] = toViewer[v][i + 1] /\ i + 1 \in Nat
      BY <1>3, <2>3 DEF Fewer
    <3>2. ASSUME NEW j \in Nat, i + 1 < j, Assigned(v, j) PROVE FALSE
      <4>1. j - 1 \in Nat \ {0} /\ (j - 1) + 1 = j /\ i < j - 1
        BY <3>1, <3>2
      <4>2. Assigned(v, j - 1)'
        BY <1>3, <3>2, <4>1 DEF Fewer
      <4> QED BY <2>3, <4>1, <4>2
    <3>3. Latest(v, i + 1)
      BY <3>1, <3>2 DEF Latest
    <3> QED BY <1>0, <3>1, <3>3 DEF Reached
  <2>4. \A i \in Nat : Latest(v, i)' <=> Assigned(v, i)' /\ \A j \in Nat : i < j => ~Assigned(v, j)'
    BY DEF Latest
  <2>5. Kids(plan, v)' = Kids(plan', v)
    BY DEF Kids
  <2> QED BY <2>2, <2>3, <2>4, <2>5 DEF Reached
<1>4. ASSUME toViewer[v] # <<>>, toViewer'[v] = Tail(toViewer[v]) PROVE Fewer(v)
  BY <1>0, <1>4, FewerPlaces
<1>5. CASE toViewer[v] # <<>> /\ toViewer'[v] = Tail(toViewer[v]) /\ Takes(v)
  BY <1>3, <1>4, <1>5
\* A place that is ignored is of another stream: none is older than the last seen.
<1>6. CASE Ignores(v) /\ Rests(v)
  <2>1. ~Assigned(v, 1)
    <3>1. SUFFICES ASSUME Assigned(v, 1) PROVE FALSE
      OBVIOUS
    <3>2. seen[v] <= toViewer[v][1].epoch
      BY <3>1 DEF Dated
    <3>3. toViewer[v][1].epoch >= seen[v]
      BY <3>1, <3>2, AssignedTyped DEF TypeOK
    <3>4. Told(v, "assign", 1, heard[v])
      BY <3>1 DEF Assigned
    <3> QED BY <1>6, <3>3, <3>4 DEF Ignores
  <2> QED BY <1>2, <1>4, <1>6, <2>1 DEF Ignores
<1>7. CASE Kept(v) /\ Rests(v)
  <2>1. Applied(v) => Applied(v)'
    BY <1>0, <1>7, AppliedSame DEF Rests
  <2> QED BY <1>0, <1>7, <2>1, ReachedKept
<1>8. ASSUME Kept(v), NEW w \in Viewers, Dead(v, w), active'[v] = active[v] \ {w},
             parent'[v] = IF parent[v] = w THEN None ELSE parent[v]
      PROVE  Reached(v)'
  <2>1. ASSUME Applied(v) PROVE Applied(v)'
    <3>1. PICK p : p = plan[v] /\ plan'[v] = p
      BY <1>0
    <3>2. parent[v] = p \/ (parent[v] = None /\ p \in Viewers /\ Dead(v, p))
      BY <2>1, <3>1 DEF Applied
    <3>3. parent'[v] = p \/ (parent'[v] = None /\ p \in Viewers /\ Dead(v, p))
      BY <1>8, <3>2, Places
    <3>4. parent'[v] = p \/ (parent'[v] = None /\ p \in Viewers /\ Dead(v, p)')
      BY <1>1, <3>3
    <3>5. Dead(v, plan[v])' <=> Dead(v, p)'
      BY <3>1 DEF Dead
    <3>6. \A k \in Kids(plan, v) : k \in active'[v] \/ Dead(v, k)'
      BY <1>1, <1>8, <2>1 DEF Applied
    <3>7. active'[v] \subseteq Kids(plan, v)
      BY <1>8, <2>1 DEF Applied
    <3>8. Kids(plan, v)' = Kids(plan, v)
      BY <1>0 DEF Kids
    <3> QED BY <3>1, <3>4, <3>5, <3>6, <3>7, <3>8 DEF Applied
  <2> QED BY <1>0, <1>8, <2>1, ReachedKept
<1> QED BY <1>5, <1>6, <1>7, <1>8 DEF Steps

LEMMA SyncedViewer ==
  ASSUME TypeOK, TypeOK', Numbered, Choosing, Planned, Linked, NEW v \in Viewers, ViewerActs(v),
         NEW u \in Viewers \ apart, Dated(u), Synced(u)
  PROVE  Synced(u)'
<1> USE DEF root, inc, viewer, net
<1>1. SUFFICES ASSUME Settled(u)' PROVE Reached(u)'
  BY DEF Synced
<1>2. ASSUME UNCHANGED root, gone \subseteq gone', apart \subseteq apart', severed \subseteq severed', toRoot'[u] = toRoot[u],
             toViewer'[u] = toViewer[u], heard'[u] = heard[u], u \in watching' <=> u \in watching,
             parent'[u] = parent[u], active'[u] = active[u]
      PROVE  Reached(u)'
  <2>1. u \in known /\ Watches(u)' /\ \A i \in Nat : i > 0 => ~Toggle(u, "watch", i)'
    BY <1>1, <1>2, SettledIs
  <2>2. Watches(u) /\ \A i : Toggle(u, "watch", i)' <=> Toggle(u, "watch", i)
    BY <1>2, <2>1 DEF Watches, Toggle
  <2>3. Settled(u)
    BY <2>1, <2>2, SettledIs
  <2>4. Reached(u)
    BY <2>3 DEF Synced
  <2>5. Kept(u) /\ plan' = plan /\ Kids(plan', u) = Kids(plan, u)
    BY <1>2, KeptSame DEF Kids
  <2>6. Applied(u) => Applied(u)'
    BY <1>2, <2>5, AppliedSame
  <2> QED BY <2>4, <2>5, <2>6, ReachedKept
<1>3. CASE \E n \in Nodes : Drained(n, v)
  BY <1>2, <1>3, DrainedRest
<1>4. CASE ~\E n \in Nodes : Drained(n, v)
  <2>1. Others(v, u)
    BY <1>4, OthersRest
  <2>2. UNCHANGED root /\ gone \subseteq gone' /\ apart \subseteq apart' /\ severed \subseteq severed'
    BY <2>1 DEF Others
  <2>3. CASE u # v
    BY <1>2, <2>1, <2>3 DEF Others
  <2>4. CASE u = v
    <3>1. /\ Settled(v) /\ heard'[v] = heard[v] /\ v \in watching /\ v \in watching'
          /\ heard[v] = stream /\ stream # 0
      BY <1>1, <2>2, <2>4, SettledViewer
    <3>2. Reached(v)
      BY <2>4, <3>1 DEF Synced
    <3>3. Steps(v)
      BY <2>4, StepsTaken
    <3> QED BY <2>2, <2>4, <3>1, <3>2, <3>3, ReachedStep
  <2> QED BY <2>3, <2>4
<1> QED BY <1>3, <1>4

-----------------------------------------------------------------------------
(* The invariant.                                                            *)

LEMMA TreeInvInit ==
  ASSUME Init
  PROVE  TreeInv
<1>1. PICK opened \in SUBSET Viewers : StartWith(opened, Unused)
  BY DEF Init
<1>2. /\ stream = 1 /\ open = opened /\ wants = {} /\ ending = {}
      /\ heard = [v \in Viewers |-> IF v \in opened THEN 1 ELSE 0]
      /\ known = {} /\ plan = NoOne /\ epoch = 0 /\ banned = {}
      /\ watching = {} /\ parent = NoOne /\ seen = [v \in Viewers |-> -1] /\ cooling = NoOne
      /\ active = [n \in Nodes |-> {}] /\ draining = [n \in Nodes |-> {}]
      /\ twice = {} /\ gone = {} /\ apart = {} /\ severed = {} /\ links = [n \in Nodes |-> Nodes \ {n}]
      /\ toRoot = [v \in Viewers |-> <<>>] /\ toViewer = [v \in Viewers |-> <<>>]
      /\ spent = Unused
  BY <1>1 DEF StartWith
<1>3. NoOne \in [Viewers -> Nodes \union {None}] /\ \A v \in Viewers : NoOne[v] = None
  BY DEF NoOne
<1>4. <<>> \in Seq(ToRoot) /\ <<>> \in Seq(ToViewer)
  OBVIOUS
<1>5. spent.streams = 1 /\ spent \in [toggles : Nat, streams : Nat, upsets : Nat, cuts : Nat]
  BY <1>2 DEF Unused
<1>6. TypeOK
  BY <1>2, <1>3, <1>4, <1>5 DEF TypeOK
<1>7. \A v \in Viewers : \A t, i, n : ~Says(toRoot[v], t, i, n) /\ ~Says(toViewer[v], t, i, n)
  BY <1>2, SaysEmpty
<1>8. Numbered /\ Choosing
  BY <1>2, <1>5, <1>7 DEF Numbered, Choosing
<1>9. Planned
  BY <1>2, <1>3, Places DEF Planned, Kids
<1>10. Linked /\ Parted
  BY <1>2, Places DEF Linked, Parted
<1>11. ASSUME NEW v \in Viewers PROVE (v \in open => Hearsay(v)) /\ Toggled(v) /\ Dated(v) /\ Synced(v)
  <2>1. \A t, i, n : ~Told(v, t, i, n)
    BY <1>7 DEF Told
  <2>2. v \in open => Hearsay(v)
    <3>1. v \in open => heard[v] = 1 /\ stream = 1
      BY <1>2
    <3> QED BY <2>1, <3>1 DEF Hearsay, Hearing
  <2>3. \A t, i : ~Toggle(v, t, i)
    BY <1>7 DEF Toggle
  <2>4. Toggled(v)
    BY <1>2, <2>3 DEF Toggled, On, Off, Watches
  <2>5. Dated(v)
    BY <1>2, <2>1 DEF Dated, Assigned
  <2>6. Synced(v)
    BY <1>2 DEF Synced, Settled
  <2> QED BY <2>2, <2>4, <2>5, <2>6
<1> QED BY <1>6, <1>8, <1>9, <1>10, <1>11 DEF TreeInv, Talking, Placing

LEMMA TreeInvRoot ==
  ASSUME TreeInv, NEW v, RootActs(v)
  PROVE  TreeInv'
<1>1. TypeOK /\ Numbered /\ Choosing /\ Planned /\ Linked /\ Parted /\ Talking /\ Placing
  BY DEF TreeInv
<1>2. TypeOK'
  BY <1>1, RootStepsTyped
<1>3. Numbered' /\ Choosing' /\ Planned' /\ Linked' /\ Parted'
  BY <1>1, <1>2, NumberedRoot, ChoosingRoot, PlannedRoot, LinkedRoot, PartedRoot
<1>4. ASSUME NEW u \in Viewers PROVE apart' = apart /\ open' = open
  BY <1>1, RootRest
<1>5. ASSUME NEW u \in Viewers, u \notin apart'
      PROVE  (u \in open' => Hearsay(u)') /\ Toggled(u)' /\ Dated(u)' /\ Synced(u)'
  <2>1. u \in Viewers \ apart /\ open' = open
    BY <1>4, <1>5
  <2>2. (u \in open => Hearsay(u)) /\ Toggled(u) /\ Dated(u) /\ Synced(u)
    BY <1>1, <2>1 DEF Talking, Placing
  <2>3. u \in open' => Hearsay(u)'
    BY <1>1, <1>2, <2>1, <2>2, HearsayRoot
  <2>4. Toggled(u)' /\ Dated(u)' /\ Synced(u)'
    BY <1>1, <1>2, <2>1, <2>2, ToggledRoot, DatedRoot, SyncedRoot
  <2> QED BY <2>3, <2>4
<1> QED BY <1>2, <1>3, <1>5 DEF TreeInv, Talking, Placing

LEMMA TreeInvViewer ==
  ASSUME TreeInv, NEW v \in Viewers, ViewerActs(v)
  PROVE  TreeInv'
<1>1. TypeOK /\ Numbered /\ Choosing /\ Planned /\ Linked /\ Parted /\ Talking /\ Placing
  BY DEF TreeInv
<1>2. TypeOK'
  BY <1>1, ViewerStepsTyped
<1>3. Numbered' /\ Choosing' /\ Planned' /\ Linked' /\ Parted'
  BY <1>1, <1>2, NumberedViewer, ChoosingViewer, PlannedViewer, LinkedViewer, PartedViewer
<1>4. apart \subseteq apart'
  <2>1. CASE \E n \in Nodes : Drained(n, v)
    BY <2>1, DrainedRest DEF net
  <2>2. CASE ~\E n \in Nodes : Drained(n, v)
    BY <1>1, <2>2, OthersRest DEF Others
  <2> QED BY <2>1, <2>2
<1>5. ASSUME NEW u \in Viewers, u \notin apart'
      PROVE  (u \in open' => Hearsay(u)') /\ Toggled(u)' /\ Dated(u)' /\ Synced(u)'
  <2>1. u \in Viewers \ apart /\ u \in Viewers \ apart'
    BY <1>4, <1>5
  <2>2. (u \in open => Hearsay(u)) /\ Toggled(u) /\ Dated(u) /\ Synced(u)
    BY <1>1, <2>1 DEF Talking, Placing
  <2>3. u \in open' => Hearsay(u)'
    BY <1>1, <1>4, <1>5, <2>2, HearsayViewer
  <2>4. Toggled(u)'
    BY <1>1, <1>2, <2>1, <2>2, ToggledViewer
  <2>5. Dated(u)' /\ Synced(u)'
    BY <1>1, <1>2, <2>1, <2>2, DatedViewer, SyncedViewer
  <2> QED BY <2>3, <2>4, <2>5
<1> QED BY <1>2, <1>3, <1>5 DEF TreeInv, Talking, Placing

LEMMA TreeInvStutter ==
  ASSUME TreeInv, UNCHANGED vars
  PROVE  TreeInv'
<1> USE DEF vars, root, viewer, inc, kids, net
<1>1. TypeOK' /\ Numbered' /\ Choosing' /\ Planned' /\ Linked' /\ Parted'
  BY DEF TreeInv, TypeOK, Numbered, Choosing, Planned, Linked, Parted, Kids, Dead
<1>2. \A v : /\ Hearsay(v) => Hearsay(v)'
             /\ Toggled(v) => Toggled(v)'
  BY DEF Hearsay, Hearing, Told, Toggled, On, Off, Toggle, Watches
<1>3. \A v : Dated(v) => Dated(v)'
  BY DEF Dated, Assigned, Told
<1>4. \A v : Synced(v) => Synced(v)'
  BY DEF Synced, Settled, Reached, Applied, Latest, Assigned, Told, On, Toggle, Watches, Kids, Dead
<1>5. Talking' /\ Placing'
  BY <1>2, <1>3, <1>4 DEF TreeInv, Talking, Placing
<1> QED BY <1>1, <1>5 DEF TreeInv

\* The invariant says that all ends agree once nothing is on its way.
LEMMA Agreement ==
  ASSUME TreeInv
  PROVE  InSync
<1>1. SUFFICES ASSUME Quiet
               PROVE  /\ \A v \in Viewers \ gone : heard[v] = IF v \in apart THEN 0 ELSE stream
                      /\ watching \ gone = IF stream = 0 THEN {} ELSE wants \ apart
                      /\ known = watching \ gone
                      /\ active[Root] = Kids(plan, Root)
                      /\ \A v \in known :
                           /\ parent[v] = plan[v] \/ {v, plan[v]} \in severed
                           /\ active[v] = {w \in Kids(plan, v) : {v, w} \notin severed}
  BY DEF InSync
<1>2. TypeOK /\ Numbered /\ Choosing /\ Planned /\ Linked /\ Parted /\ Talking /\ Placing
  BY DEF TreeInv
<1>3. /\ watching \subseteq Viewers /\ wants \subseteq Viewers /\ known \subseteq Viewers /\ apart \subseteq Viewers
      /\ stream \in Nat /\ heard \in [Viewers -> Nat] /\ plan \in [Viewers -> Nodes \union {None}]
      /\ active \in [Nodes -> SUBSET Viewers] /\ Root \in Nodes \ gone
      /\ gone \subseteq apart
  BY <1>2, Places DEF TypeOK, Linked
<1>4. ASSUME NEW v \in Viewers \ apart PROVE \A t, i : ~Toggle(v, t, i)
  BY <1>1, SaysEmpty DEF Quiet, Toggle
<1>5. ASSUME NEW v \in Viewers \ apart PROVE v \in open /\ \A t, i, n : ~Told(v, t, i, n)
  BY <1>1, SaysEmpty DEF Quiet, Told
<1>6. ASSUME NEW v \in Viewers \ apart PROVE heard[v] = stream
  <2>1. Hearsay(v) /\ \A t, i, n : ~Told(v, t, i, n)
    BY <1>2, <1>5 DEF Talking
  <2>2. stream # 0 => \E i \in Nat : Hearing(v, i, stream)
    BY <2>1 DEF Hearsay
  <2>3. CASE stream # 0
    BY <2>1, <2>2, <2>3 DEF Hearing
  <2>4. CASE stream = 0 /\ heard[v] # 0
    <3>1. Hearing(v, 0, heard[v]) /\ heard[v] \in Nat /\ heard[v] \notin {0, stream}
      BY <1>3, <2>4 DEF Hearing
    <3>2. \E j \in Nat : Told(v, "end", j, heard[v])
      BY <2>1, <3>1 DEF Hearsay
    <3> QED BY <2>1, <3>2
  <2> QED BY <2>3, <2>4
<1>13. ASSUME NEW v \in Viewers \ gone, v \in apart PROVE heard[v] = 0
  <2>1. Dead(v, Root) /\ v \in Nodes \ gone
    BY <1>13, Places DEF Dead
  <2>2. Root \notin links[v]
    BY <1>1, <1>3, <2>1 DEF Quiet
  <2> QED BY <1>2, <1>13, <2>2 DEF Parted
<1>7. watching \ gone = IF stream = 0 THEN {} ELSE wants \ apart
  <2>1. \A v \in Viewers : v \in watching <=> v \in wants /\ heard[v] # 0
    BY <1>2 DEF Choosing
  <2> QED BY <1>3, <1>6, <1>13, <2>1
<1>8. \A v \in known : v \notin apart
  <2>1. SUFFICES ASSUME NEW v \in known, v \in apart PROVE FALSE
    OBVIOUS
  <2>2. Dead(Root, v)
    BY <2>1 DEF Dead
  <2>3. v \notin links[Root]
    BY <1>1, <1>3, <2>1, <2>2, Places DEF Quiet
  <2> QED BY <1>2, <2>1, <2>3 DEF Planned
<1>9. ASSUME NEW v \in Viewers \ apart PROVE v \in known <=> Watches(v)
  <2>1. Toggled(v)
    BY <1>2 DEF Talking
  <2>2. \A i : ~Off(v, i) /\ (On(v, i) <=> i = 0 /\ v \in known)
    BY <1>4 DEF On, Off
  <2> QED BY <2>1, <2>2 DEF Toggled
<1>10. known = watching \ gone
  <2>1. \A v \in Viewers \ apart : v \in watching => heard[v] = stream /\ heard[v] # 0
    BY <1>2, <1>6 DEF Choosing
  <2>2. \A v \in Viewers \ apart : Watches(v) <=> v \in watching
    BY <2>1 DEF Watches
  <2>3. \A v \in Viewers \ gone : v \in apart => v \notin watching
    BY <1>2, <1>13 DEF Choosing
  <2> QED BY <1>3, <1>8, <1>9, <2>2, <2>3
<1>11. ASSUME NEW v \in known
       PROVE  /\ parent[v] = plan[v] \/ {v, plan[v]} \in severed
              /\ active[v] = {w \in Kids(plan, v) : {v, w} \notin severed}
  <2>1. v \in Viewers \ apart
    BY <1>3, <1>8, <1>11
  <2>2. Watches(v)
    BY <1>9, <1>11, <2>1
  <2>3. Settled(v)
    BY <1>4, <1>11, <2>1, <2>2, SettledIs
  <2>4. \A i : ~Assigned(v, i)
    BY <1>5, <2>1 DEF Assigned
  <2>5. Applied(v)
    BY <1>2, <2>1, <2>3, <2>4 DEF Placing, Synced, Reached
  <2>6. \A w \in Viewers : plan[w] # None => w \in known /\ w \notin apart
    BY <1>2, <1>8 DEF Planned
  <2>7. ASSUME NEW w \in Viewers, w \notin apart PROVE Dead(v, w) <=> {v, w} \in severed
    BY <1>3, <2>1, <2>7, Places DEF Dead
  <2>8. plan[v] \in Viewers => plan[v] \notin apart
    BY <1>2, <2>1, <2>6 DEF Planned
  <2>9. parent[v] = plan[v] \/ {v, plan[v]} \in severed
    BY <2>5, <2>7, <2>8 DEF Applied
  <2>10. ASSUME NEW w \in active[v] PROVE w \in Kids(plan, v) /\ {v, w} \notin severed
    <3>1. w \in Viewers /\ w \in Kids(plan, v)
      BY <1>3, <2>1, <2>5, <2>10, Places DEF Applied
    <3>2. w \in links[v]
      BY <1>2, <2>1, <2>10 DEF Linked
    <3>4. v \in Nodes \ gone /\ w \in Nodes
      BY <1>3, <2>1, <3>1, Places
    <3>3. ~Dead(v, w)
      BY <1>1, <3>2, <3>4 DEF Quiet
    <3> QED BY <3>1, <3>3 DEF Dead
  <2>11. ASSUME NEW w \in Kids(plan, v), {v, w} \notin severed PROVE w \in active[v]
    <3>1. w \in Viewers /\ plan[w] = v /\ v # None
      BY <2>1, Places DEF Kids
    <3>2. ~Dead(v, w)
      BY <2>6, <2>7, <2>11, <3>1
    <3> QED BY <2>5, <2>11, <3>2 DEF Applied
  <2> QED BY <2>9, <2>10, <2>11
<1>12. active[Root] = Kids(plan, Root)
  BY <1>2 DEF Planned
<1> QED BY <1>3, <1>6, <1>7, <1>10, <1>11, <1>12, <1>13

\* TreeInv is inductive.
THEOREM TreeInvariant == Spec => []TreeInv
<1>1. Init => TreeInv
  BY TreeInvInit
<1>2. TreeInv /\ [Next]_vars => TreeInv'
  <2>1. SUFFICES ASSUME TreeInv, [Next]_vars PROVE TreeInv'
    OBVIOUS
  <2>2. CASE Next
    BY <2>1, <2>2, StepsAre, TreeInvRoot, TreeInvViewer
  <2>3. CASE UNCHANGED vars
    BY <2>1, <2>3, TreeInvStutter
  <2> QED BY <2>1, <2>2, <2>3
<1> QED BY <1>1, <1>2, PTL DEF Spec

\* Every variable of the control plane keeps its type.
THEOREM TreeTypeCorrect == Spec => []TypeOK
<1>1. TreeInv => TypeOK
  BY DEF TreeInv
<1> QED BY <1>1, TreeInvariant, PTL

\* Once every message of hub.ts has arrived and every closing is noticed, the
\* broadcaster and its viewers agree on the stream, on who watches it, and on
\* who feeds whom, whatever restarts, re-plans, departures and failed connections,
\* the broadcaster's own among them, came before.
THEOREM EndsAgree == Spec => []InSync
<1>1. TreeInv => InSync
  BY Agreement
<1> QED BY <1>1, TreeInvariant, PTL

=============================================================================

------------------------------ MODULE RelayTree -----------------------------
(***************************************************************************)
(* The control plane of a relayed broadcast: client/src/lib/relay/hub.ts on  *)
(* the broadcaster and on its viewers.  The broadcaster plans who feeds whom *)
(* and sends each viewer its parent and children; a viewer whose feed dies   *)
(* reports itself orphaned.  The broadcast may end and begin again, as a     *)
(* stream of another number, and a viewer's channel may open late: whoever   *)
(* chose to watch watches what it hears of (client/src/lib/call.ts).         *)
(*                                                                           *)
(* Every pair shares a reliable, ordered control channel, and each end of a  *)
(* link learns of its closing in its own time.                               *)
(*                                                                           *)
(* A re-plan chooses any tree planTree may return (TreeOK of RelayPlanner)   *)
(* that keeps off the banned edges (BannedLastResort): no edge from the      *)
(* broadcaster is ever banned here, so one is always left.  Left out: a      *)
(* degraded viewer that is moved off the broadcaster for a minute.           *)
(***************************************************************************)
EXTENDS Integers, Sequences, FiniteSets

CONSTANTS Viewers, Root, None,
          MaxToggles,       \* bound: watch and unwatch clicks
          MaxStreams,       \* bound: streams begun
          MaxUpsets,        \* bound: re-plans on evidence from reports, viewers
                            \* that leave, and connections of two that fail
          MaxCuts           \* bound: connections to the broadcaster that fail

ASSUME ConstantsAssumption ==
  /\ IsFiniteSet(Viewers) /\ Root \notin Viewers /\ None \notin Viewers \union {Root}
  /\ {MaxToggles, MaxStreams, MaxUpsets, MaxCuts} \subseteq Nat

Nodes == Viewers \union {Root}

VARIABLES stream,       \* out.streamId, 0 if there is no broadcast
          known,        \* out.viewers of the broadcaster
          plan,         \* out.plan.parent
          epoch,        \* out.epoch
          banned,       \* out.forbidden: pairs parent, child
          wants,        \* viewers that chose to watch (CallManager.watching)
          ending,       \* viewers on their way to be told that sharing stopped
          heard,        \* the stream of each viewer's inc, 0 if it has none
          watching,     \* viewers with inc.watching
          parent,       \* inc.parent
          seen,         \* inc.epoch
          active, draining,     \* the ChildSet of every node
          cooling,      \* the parent each reported less than 1 s ago, or None
          twice,        \* history: viewers that lost another parent in that second
          gone,         \* viewers that left
          apart,        \* those, and whose connection to the broadcaster failed
          severed,      \* pairs of viewers whose connection failed
          open,         \* viewers whose control channel is open
          links,        \* links[n]: the peers n has attached
          toRoot, toViewer,     \* control messages on their way
          spent         \* the bounds used up

root == <<stream, known, plan, epoch, banned>>
inc == <<heard, watching, parent, seen, cooling>>
viewer == <<wants, ending, inc, twice>>
kids == <<active, draining>>
net == <<gone, apart, severed, open, links>>
vars == <<root, viewer, kids, net, toRoot, toViewer, spent>>

NoOne == [v \in Viewers |-> None]
Kids(f, n) == {v \in Viewers : f[v] = n}

\* The trees over the viewers in live that keep off the banned edges.
Trees(live, bans) ==
  {f \in [Viewers -> Nodes \union {None}] :
     /\ \A v \in Viewers : f[v] = None <=> v \notin live
     /\ \A v \in live : f[v] \in live \union {Root} /\ <<f[v], v>> \notin bans
     /\ \E d \in [live -> 1..Cardinality(live)] :
          \A v \in live : f[v] \in live => d[f[v]] < d[v]}

ToViewer == [t : {"announce", "end", "assign"}, stream : Nat, epoch : Nat,
             parent : Nodes \union {None}, kids : SUBSET Viewers]
ToRoot == [t : {"watch", "unwatch", "orphan"}, stream : Nat, parent : Nodes \union {None}]
Msg(t, n, p) == [t |-> t, stream |-> n, parent |-> p]
Tell(t, n) == [t |-> t, stream |-> n, epoch |-> 0, parent |-> None, kids |-> {}]
Assign(e, f, v) == [t |-> "assign", stream |-> stream, epoch |-> e, parent |-> f[v], kids |-> Kids(f, v)]

TypeOK ==
  /\ stream \in Nat /\ known \subseteq Viewers /\ epoch \in Nat /\ banned \subseteq Nodes \X Viewers
  /\ plan \in [Viewers -> Nodes \union {None}] /\ parent \in [Viewers -> Nodes \union {None}]
  /\ {wants, ending, open} \subseteq SUBSET Viewers /\ heard \in [Viewers -> Nat]
  /\ watching \subseteq Viewers /\ twice \subseteq Viewers
  /\ gone \subseteq Viewers /\ apart \subseteq Viewers
  /\ cooling \in [Viewers -> Nodes \union {None}]
  /\ seen \in [Viewers -> Nat \union {-1}]
  /\ active \in [Nodes -> SUBSET Viewers] /\ draining \in [Nodes -> SUBSET Viewers]
  /\ severed \subseteq SUBSET Viewers /\ links \in [Nodes -> SUBSET Nodes]
  /\ toRoot \in [Viewers -> Seq(ToRoot)] /\ toViewer \in [Viewers -> Seq(ToViewer)]
  /\ spent \in [toggles : Nat, streams : Nat, upsets : Nat, cuts : Nat]

\* A broadcast has begun and whoever's channel is open knows of it; nobody
\* watches yet.  What is used of the bounds is not there for later.
StartWith(opened, used) ==
  /\ stream = 1 /\ open = opened /\ wants = {} /\ ending = {}
  /\ heard = [v \in Viewers |-> IF v \in opened THEN 1 ELSE 0]
  /\ known = {} /\ plan = NoOne /\ epoch = 0 /\ banned = {}
  /\ watching = {} /\ parent = NoOne /\ seen = [v \in Viewers |-> -1] /\ cooling = NoOne
  /\ active = [n \in Nodes |-> {}] /\ draining = [n \in Nodes |-> {}]
  /\ twice = {} /\ gone = {} /\ apart = {} /\ severed = {}
  /\ links = [n \in Nodes |-> Nodes \ {n}]
  /\ toRoot = [v \in Viewers |-> <<>>] /\ toViewer = [v \in Viewers |-> <<>>]
  /\ spent = used

Unused == [toggles |-> 0, streams |-> 1, upsets |-> 0, cuts |-> 0]
Init == \E opened \in SUBSET Viewers : StartWith(opened, Unused)

-----------------------------------------------------------------------------
(* ChildSet.set: children not wanted any more drain, wanted ones are taken   *)
(* back or made, if there is a link to them.                                 *)

SetKids(n, want, act, drain) ==
  /\ active' = [act EXCEPT ![n] = {w \in want : w \in @ \union drain[n] \union links[n]}]
  /\ draining' = [drain EXCEPT ![n] = (@ \union act[n]) \ want]

Without(f, n, w) == [f EXCEPT ![n] = @ \ {w}]

-----------------------------------------------------------------------------
(* The broadcaster.  replan: a new tree, and an assign to each viewer whose  *)
(* place in it changed.                                                      *)

Changed(f, v) == f[v] # plan[v] \/ Kids(f, v) # Kids(plan, v)

Sent(f, v, watcher) == v \in links[Root] /\ f[v] # None /\ (Changed(f, v) \/ v = watcher)

Replan(live, bans, watcher, act, drain, queue) ==
  \E f \in Trees(live, bans) :
    /\ plan' = f /\ epoch' = epoch + 1 /\ banned' = bans
    /\ SetKids(Root, Kids(f, Root), act, drain)
    /\ toViewer' = [v \in Viewers |->
         IF Sent(f, v, watcher)
           THEN Append(queue[v], Assign(epoch + 1, f, v))
           ELSE queue[v]]

\* A viewer that nothing comes from may be left out of a plan: its reports have
\* stopped.
Lives(viewers) == {viewers \ s : s \in SUBSET (viewers \intersect apart)}

Upset == spent.upsets < MaxUpsets /\ spent' = [spent EXCEPT !.upsets = @ + 1]

\* Reports changed what the planner knows, or a degraded viewer is moved off its
\* parent.  Bans whose 15 s are over are forgotten here, never those of the last
\* second; the re-plans below follow each other faster than that.
Evidence ==
  /\ known # {} /\ Upset
  /\ \E live \in Lives(known), old \in {banned, {e \in banned : cooling[e[2]] # None}},
        moved \in {{}} \union {{<<parent[v], v>>} : v \in {w \in known : parent[w] \in Viewers}} :
       Replan(live, old \union moved, None, active, draining, toViewer)
  /\ UNCHANGED <<stream, known, viewer, net, toRoot>>

Took(v) == toRoot' = [toRoot EXCEPT ![v] = Tail(@)]
Arrives(v) == v \in links[Root] /\ toRoot[v] # <<>>

\* Mutant of Current: messages about an ended stream count.
CurrentAny(m) == TRUE

Current(m) == m.stream = stream /\ stream # 0
Hears(v, t) == Arrives(v) /\ Head(toRoot[v]).t = t /\ Current(Head(toRoot[v]))

\* What is about another stream is dropped.
RecvOld(v) ==
  /\ Arrives(v) /\ ~Current(Head(toRoot[v])) /\ Took(v)
  /\ UNCHANGED <<root, viewer, kids, net, toViewer, spent>>

\* Someone already known only gets a keyframe.
RecvWatch(v) ==
  /\ Hears(v, "watch") /\ Took(v)
  /\ known' = known \union {v}
  /\ IF v \in known THEN UNCHANGED <<plan, epoch, banned, kids, toViewer>>
     ELSE \E live \in Lives(known') : v \in live /\ Replan(live, banned, v, active, draining, toViewer)
  /\ UNCHANGED <<stream, viewer, net, spent>>

RecvUnwatch(v) ==
  /\ Hears(v, "unwatch") /\ Took(v)
  /\ known' = known \ {v}
  /\ IF v \notin known THEN UNCHANGED <<plan, epoch, banned, kids, toViewer>>
     ELSE \E live \in Lives(known') :
            Replan(live, banned, None, Without(active, Root, v), Without(draining, Root, v), toViewer)
  /\ UNCHANGED <<stream, viewer, net, spent>>

\* Mutant of RecvOrphan: the edge that failed may be used again.
RecvOrphanNoBan(v) ==
  /\ Hears(v, "orphan") /\ Took(v)
  /\ IF v \notin known THEN UNCHANGED <<plan, epoch, banned, kids, toViewer>>
     ELSE \E live \in Lives(known) : Replan(live, banned, None, active, draining, toViewer)
  /\ UNCHANGED <<stream, known, viewer, net, spent>>

\* The edge from the reported parent is banned, unless it is the broadcaster.
RecvOrphan(v) ==
  LET p == Head(toRoot[v]).parent
      bans == banned \union ({<<p, v>>} \intersect (Viewers \X Viewers))
  IN /\ Hears(v, "orphan") /\ Took(v)
     /\ IF v \notin known THEN UNCHANGED <<plan, epoch, banned, kids, toViewer>>
        ELSE \E live \in Lives(known) : Replan(live, bans, None, active, draining, toViewer)
     /\ UNCHANGED <<stream, known, viewer, net, spent>>

-----------------------------------------------------------------------------
(* The broadcast begins and ends.                                            *)

Announced(ms) == [v \in Viewers |-> IF v \in open \intersect links[Root] THEN toViewer[v] \o ms ELSE toViewer[v]]
Ending == IF stream = 0 THEN <<>> ELSE <<Tell("end", stream)>>

Afresh ==
  /\ known' = {} /\ plan' = NoOne /\ epoch' = 0 /\ banned' = {}
  /\ active' = [active EXCEPT ![Root] = {}] /\ draining' = [draining EXCEPT ![Root] = {}]

StartBroadcast ==
  LET n == spent.streams + 1
  IN /\ n <= MaxStreams /\ spent' = [spent EXCEPT !.streams = n]
     /\ stream' = n /\ Afresh
     /\ toViewer' = Announced(Ending \o <<Tell("announce", n)>>)
     /\ UNCHANGED <<viewer, net, toRoot>>

\* Sharing stops, which a signal through the server tells too.
StopBroadcast ==
  /\ stream # 0 /\ spent.streams < MaxStreams
  /\ stream' = 0 /\ Afresh /\ toViewer' = Announced(Ending)
  /\ ending' = Viewers \ gone
  /\ UNCHANGED <<wants, inc, twice, net, toRoot, spent>>

\* Another bitrate is announced, and the tree planned for it.
SetBroadcastBitrate ==
  /\ known # {} /\ Upset
  /\ \E live \in Lives(known) :
       Replan(live, banned, None, active, draining, Announced(<<Tell("announce", stream)>>))
  /\ UNCHANGED <<stream, known, viewer, net, toRoot>>

\* A control channel opens; a late viewer is told of the stream.
Opens(v) ==
  /\ v \notin open \union apart /\ v \in links[Root]
  /\ open' = open \union {v}
  /\ toViewer' = IF stream = 0 THEN toViewer
                 ELSE [toViewer EXCEPT ![v] = Append(@, Tell("announce", stream))]
  /\ UNCHANGED <<root, viewer, kids, gone, apart, severed, links, toRoot, spent>>

-----------------------------------------------------------------------------
(* The viewers.                                                              *)

\* What is sent after the connection failed is lost.
Send(v, ms) == toRoot' = IF v \in apart THEN toRoot ELSE [toRoot EXCEPT ![v] = @ \o ms]

\* A click on watch: syncRelayDecoders watches the stream if there is one.
Watch(v) ==
  /\ spent.toggles < MaxToggles /\ v \notin wants \union gone
  /\ spent' = [spent EXCEPT !.toggles = @ + 1]
  /\ wants' = wants \union {v}
  /\ IF heard[v] = 0 THEN UNCHANGED <<watching, toRoot>>
     ELSE watching' = watching \union {v} /\ Send(v, <<Msg("watch", heard[v], None)>>)
  /\ UNCHANGED <<root, ending, heard, parent, seen, cooling, twice, kids, net, toViewer>>

Unwatched(v) ==
  /\ wants' = wants \ {v}
  /\ watching' = watching \ {v} /\ parent' = [parent EXCEPT ![v] = None]
  /\ active' = [active EXCEPT ![v] = {}] /\ draining' = [draining EXCEPT ![v] = {}]
  /\ IF v \in watching THEN Send(v, <<Msg("unwatch", heard[v], None)>>) ELSE UNCHANGED toRoot
  /\ UNCHANGED <<root, heard, seen, cooling, twice, net, toViewer>>

Unwatch(v) ==
  /\ spent.toggles < MaxToggles /\ v \in wants \ gone
  /\ spent' = [spent EXCEPT !.toggles = @ + 1]
  /\ Unwatched(v) /\ UNCHANGED ending

\* The signal: whoever watched no longer does, be it the next broadcast.
OptOut(v) ==
  /\ v \in ending \ gone /\ ending' = ending \ {v}
  /\ IF v \in wants THEN Unwatched(v) ELSE UNCHANGED <<root, wants, inc, twice, kids, net, toRoot, toViewer>>
  /\ UNCHANGED spent

Receives(v, ts) ==
  /\ v \notin gone /\ Root \in links[v] /\ toViewer[v] # <<>> /\ Head(toViewer[v]).t \in ts
  /\ toViewer' = [toViewer EXCEPT ![v] = Tail(@)]

\* An assign older than one already seen, or while not watching, is ignored.
RecvAssign(v) ==
  LET m == Head(toViewer[v])
  IN /\ Receives(v, {"assign"})
     /\ IF m.stream = heard[v] /\ m.epoch >= seen[v] /\ v \in watching
          THEN /\ seen' = [seen EXCEPT ![v] = m.epoch]
               /\ parent' = [parent EXCEPT ![v] = m.parent]
               /\ SetKids(v, m.kids, active, draining)
          ELSE UNCHANGED <<seen, parent, kids>>
     /\ UNCHANGED <<root, wants, ending, heard, watching, cooling, twice, net, toRoot, spent>>

\* The entry of the stream is made anew, or deleted (n = 0).
NewIncoming(v, n, watch) ==
  /\ heard' = [heard EXCEPT ![v] = n]
  /\ watching' = (watching \ {v}) \union watch
  /\ parent' = [parent EXCEPT ![v] = None] /\ seen' = [seen EXCEPT ![v] = -1]
  /\ cooling' = [cooling EXCEPT ![v] = None]
  /\ active' = [active EXCEPT ![v] = {}] /\ draining' = [draining EXCEPT ![v] = {}]
  /\ IF watch = {} THEN UNCHANGED toRoot ELSE Send(v, <<Msg("watch", n, None)>>)

\* syncRelayDecoders: a new stream is watched at once by whoever chose to.
Chosen(v) == {v} \intersect wants

\* A stream heard of already only changes its bitrate.
RecvAnnounce(v) ==
  LET n == Head(toViewer[v]).stream
  IN /\ Receives(v, {"announce"})
     /\ IF heard[v] = n THEN UNCHANGED <<inc, kids, toRoot>> ELSE NewIncoming(v, n, Chosen(v))
     /\ UNCHANGED <<root, wants, ending, twice, net, spent>>

RecvEnd(v) ==
  /\ Receives(v, {"end"})
  /\ IF heard[v] = Head(toViewer[v]).stream THEN NewIncoming(v, 0, {}) ELSE UNCHANGED <<inc, kids, toRoot>>
  /\ UNCHANGED <<root, wants, ending, twice, net, spent>>

\* The link between n and w carries nothing any more.
Dead(n, w) ==
  \/ {n, w} \intersect gone # {} \/ {n, w} \in severed
  \/ Root \in {n, w} /\ {n, w} \intersect apart # {}

\* The links over which n's chunks reach w.
Feeds(n, w) == w \in active[n] \union draining[n] /\ ~Dead(n, w)

Receivers == {v \in watching : heard[v] = stream}

\* onMedia: only the chunks of the assigned parent are forwarded.
Forwarding ==
  LET reach[i \in 0..Cardinality(Viewers)] ==
        IF i = 0 THEN {Root}
        ELSE reach[i - 1] \union
               {v \in Receivers : parent[v] \in reach[i - 1] /\ Feeds(parent[v], v)}
  IN reach[Cardinality(Viewers)]

\* But the chunks of anybody are decoded.
Fed(v) == v \in Receivers /\ \E n \in Forwarding : Feeds(n, v)

\* reportOrphan: at most one report a second.
Report(v, p) ==
  IF cooling[v] # None THEN UNCHANGED <<cooling, toRoot>>
  ELSE cooling' = [cooling EXCEPT ![v] = p] /\ Send(v, <<Msg("orphan", heard[v], p)>>)

\* tick: nothing from the parent for 800 ms, in which what is on its way between
\* the broadcaster and v arrives.
Silence(v) ==
  /\ v \in watching \ gone /\ cooling[v] = None
  /\ toRoot[v] = <<>> /\ toViewer[v] = <<>>
  /\ parent[v] # None /\ ~(parent[v] \in Forwarding /\ Feeds(parent[v], v))
  /\ Report(v, parent[v])
  /\ UNCHANGED <<root, wants, ending, heard, watching, parent, seen, twice, kids, net, toViewer, spent>>

CoolOff(v) ==
  /\ cooling[v] # None
  /\ cooling' = [cooling EXCEPT ![v] = None]
  /\ UNCHANGED <<root, wants, ending, heard, watching, parent, seen, twice, kids, net, toRoot, toViewer, spent>>

\* ChildSet.tick: DRAIN_MS are over.
Drained(n, w) ==
  /\ n \notin gone /\ w \in draining[n]
  /\ draining' = Without(draining, n, w)
  /\ UNCHANGED <<root, viewer, active, net, toRoot, toViewer, spent>>

-----------------------------------------------------------------------------
(* Links.                                                                    *)

\* A viewer leaves the call, or crashes: its links close.
Leave(v) ==
  /\ v \notin gone /\ Upset
  /\ gone' = gone \union {v} /\ apart' = apart \union {v}
  /\ UNCHANGED <<root, viewer, kids, severed, open, links, toRoot, toViewer>>

\* The connection between two viewers fails for good; the data channels of
\* attachPeer are made once and never again.
Cut(v, w) ==
  /\ v # w /\ ~Dead(v, w) /\ Upset
  /\ severed' = severed \union {{v, w}}
  /\ UNCHANGED <<root, viewer, kids, gone, apart, open, links, toRoot, toViewer>>

\* So may that of a viewer and the broadcaster; both stay in the call.
CutRoot(v) ==
  /\ v \notin apart /\ spent.cuts < MaxCuts /\ spent' = [spent EXCEPT !.cuts = @ + 1]
  /\ apart' = apart \union {v}
  /\ UNCHANGED <<root, viewer, kids, gone, severed, open, links, toRoot, toViewer>>

\* detachPeer at the broadcaster.
DetachRoot(v) ==
  /\ v \in apart \intersect links[Root]
  /\ links' = Without(links, Root, v)
  /\ toRoot' = [toRoot EXCEPT ![v] = <<>>]
  /\ known' = known \ {v}
  /\ LET act == Without(active, Root, v)
         drain == Without(draining, Root, v)
     IN IF v \notin known
          THEN active' = act /\ draining' = drain /\ UNCHANGED <<plan, epoch, banned, toViewer>>
          ELSE \E live \in Lives(known') : Replan(live, banned, None, act, drain, toViewer)
  /\ UNCHANGED <<stream, viewer, gone, apart, severed, open, spent>>

\* detachPeer of the broadcaster at a viewer: its stream is gone.
LoseRoot(v) ==
  /\ v \in apart \ gone /\ Root \in links[v]
  /\ links' = Without(links, v, Root) /\ toViewer' = [toViewer EXCEPT ![v] = <<>>]
  /\ NewIncoming(v, 0, {})
  /\ UNCHANGED <<root, wants, ending, twice, gone, apart, severed, open, spent>>

\* detachPeer of another viewer: if it was the parent, report and wait for another.
DetachViewer(v, w) ==
  /\ w \in links[v] /\ Dead(v, w) /\ v \notin gone
  /\ links' = Without(links, v, w)
  /\ active' = Without(active, v, w) /\ draining' = Without(draining, v, w)
  /\ IF parent[v] = w THEN Report(v, w) /\ parent' = [parent EXCEPT ![v] = None]
                      ELSE UNCHANGED <<parent, cooling, toRoot>>
  /\ twice' = IF parent[v] = w /\ cooling[v] \notin {None, w} THEN twice \union {v} ELSE twice
  /\ UNCHANGED <<root, wants, ending, heard, watching, seen, gone, apart, severed, open, toViewer, spent>>

-----------------------------------------------------------------------------
\* What happens by itself: messages arrive, timers run, closings are noticed.
Happens(v) ==
  \/ RecvWatch(v) \/ RecvUnwatch(v) \/ RecvOrphan(v) \/ RecvOld(v)
  \/ RecvAssign(v) \/ RecvAnnounce(v) \/ RecvEnd(v) \/ OptOut(v) \/ Opens(v)
  \/ Silence(v) \/ CoolOff(v) \/ DetachRoot(v) \/ LoseRoot(v)
  \/ \E n \in Nodes : Drained(n, v)
  \/ \E w \in Viewers : DetachViewer(v, w)

Next ==
  \/ Evidence \/ StartBroadcast \/ StopBroadcast \/ SetBroadcastBitrate
  \/ \E v \in Viewers :
       \/ Happens(v) \/ Watch(v) \/ Unwatch(v) \/ Leave(v) \/ CutRoot(v)
       \/ \E w \in Viewers : Cut(v, w)

Spec == Init /\ [][Next]_vars

\* Links deliver and timers fire; people and evidence owe nothing.
Fairness == \A v \in Viewers : WF_vars(Happens(v))
FairSpec == Spec /\ Fairness

-----------------------------------------------------------------------------
(* Properties.                                                               *)

Quiet ==
  /\ \A v \in Viewers \ apart : toRoot[v] = <<>> /\ v \in open /\ toViewer[v] = <<>>
  /\ \A n \in Nodes \ gone, w \in Nodes : Dead(n, w) => w \notin links[n]

\* Once every message has arrived and every closing is noticed, all ends agree:
\* viewers with a connection to the broadcaster know of the stream there is and
\* watch it if they chose to; those are the viewers in the plan, and each has the
\* parent and the children the plan gives it.  The others hear of no stream.  Only
\* changes are sent, so one missed change would never be repaired.
InSync ==
  Quiet => /\ \A v \in Viewers \ gone : heard[v] = IF v \in apart THEN 0 ELSE stream
           /\ watching \ gone = IF stream = 0 THEN {} ELSE wants \ apart
           /\ known = watching \ gone
           /\ active[Root] = Kids(plan, Root)
           /\ \A v \in known :
                /\ parent[v] = plan[v] \/ {v, plan[v]} \in severed
                /\ active[v] = {w \in Kids(plan, v) : {v, w} \notin severed}

\* Whoever chose to watch and has a connection to the broadcaster is fed in the
\* end while there is a broadcast: silence and closings are reported and lead to
\* a feed.  Not so a viewer that loses another parent within a second of such a
\* report: it does not report that one, having none left to miss (reportOrphan).
EveryoneFed == <>[](stream = 0 \/ \A v \in wants \ (apart \union twice) : Fed(v))
=============================================================================

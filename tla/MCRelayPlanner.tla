--------------------------- MODULE MCRelayPlanner ---------------------------
(* Three viewers of a 10 kbps stream: 12 kbps carry no child, 13 one, 30 two. *)
EXTENDS RelayPlanner

MCViewers == 1..3
None3 == [v \in MCViewers |-> None]

\* Round trips to the broadcaster and among the viewers, some unreported, some
\* reported differently by the two ends.
Far == {[v \in MCViewers |-> [n \in 0..3 |-> IF n = Root THEN r[v] ELSE w[v][n]]] :
          r \in [MCViewers -> {4, 60}],
          w \in {[v \in MCViewers |-> [n \in MCViewers |-> Unknown]],
                 [v \in MCViewers |-> [n \in MCViewers |-> IF n < v THEN 10 ELSE Unknown]],
                 [v \in MCViewers |-> [n \in MCViewers |-> IF n < v THEN 20 ELSE 90]]}}

Bans == {{}, {<<0, 1>>}, {<<0, 1>>, <<0, 2>>, <<0, 3>>}, {<<1, 3>>, <<0, 3>>, <<2, 3>>}}

Caps == {[n \in 0..3 |-> c[n]] : c \in [0..3 -> {12, 13, 30}]}

MCInputs ==
  {[cap |-> c, rtt |-> d, busy |-> b, noRelay |-> w, forbidden |-> f, prev |-> p] :
     c \in Caps, d \in Far, b \in BOOLEAN, w \in {{}, {1}}, f \in Bans,
     p \in {None3, [None3 EXCEPT ![2] = 1, ![3] = 2], [None3 EXCEPT ![1] = 2, ![3] = 0]}}
=============================================================================

----------------------------- MODULE MCCallHub ------------------------------
(* Instances of CallHub: a connection is a pair of its user and a slot. *)
EXTENDS CallHub

CONSTANTS u1, u2

MCConnUser == [c \in Conns |-> c[1]]

\* One connection for each user, or two for u1.
OneEach == {<<u, 1>> : u \in Users}
OnlyFirst == {<<u1, 1>>, <<u1, 2>>}

\* Two beginnings: handlers overlap and membership changes, in one channel; or one
\* handler runs at a time and membership stays, in all channels.
OneByOne == memberChanges > MaxMemberChanges
Within ==
  IF OneByOne THEN Cardinality({c \in Conns : Busy(c)'}) <= 1
              ELSE \A c \in Conns : joined'[c] \subseteq {"ch1"}
ToldSpec ==
  /\ HubInit \/ (AtStart /\ memberChanges = MaxMemberChanges + 1)
  /\ [][HubNext /\ Within]_hubVars
=============================================================================

----------------------------- MODULE MCRelayLoad -----------------------------
(* The broadcaster can feed two viewers, and each of them one. *)
EXTENDS RelayLoad

Uploads == [n \in Nodes |-> IF n = Root THEN 5 ELSE 3]
=============================================================================

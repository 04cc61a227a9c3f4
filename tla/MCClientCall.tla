---------------------------- MODULE MCClientCall ----------------------------
(* Instances of ClientCall. *)
EXTENDS ClientCall

OneChannel == {1}
=============================================================================

--------------------------- MODULE MCRelayStream ---------------------------
(* Instances of RelayStream. *)
EXTENDS RelayStream
=============================================================================

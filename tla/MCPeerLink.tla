------------------------------ MODULE MCPeerLink ----------------------------
(* Instances of PeerLink: the impolite side watches every share by itself.   *)
EXTENDS PeerLink

OneAuto == [s \in Sides |-> s = "hi"]
=============================================================================

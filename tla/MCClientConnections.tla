------------------------ MODULE MCClientConnections ------------------------
(* Two connections; constants for TLC are given in the configuration. *)
EXTENDS ClientConnections
=============================================================================

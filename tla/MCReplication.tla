---------------------------- MODULE MCReplication ----------------------------
(***************************************************************************)
(* Two worlds, the client's own character and one other.                   *)
(***************************************************************************)
EXTENDS Replication
=============================================================================

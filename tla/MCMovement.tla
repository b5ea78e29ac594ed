----------------------------- MODULE MCMovement -----------------------------
(* Three tiles in a row; nobody may run onto the first one. *)
EXTENDS Movement

NoRunHome == [t \in Tiles |-> IF t = 0 THEN {"run"} ELSE {}]
=============================================================================

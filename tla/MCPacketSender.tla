--------------------------- MODULE MCPacketSender ---------------------------
(* p1 and p2 are sent at once, p3 and p4 are the delayed repeats of removals. *)
EXTENDS PacketSender

CONSTANTS p1, p2, p3, p4, c1, c2

ToOne == [p \in Packets |-> c1]
ToTwo == [p \in Packets |-> IF p = p2 THEN c2 ELSE c1]
=============================================================================

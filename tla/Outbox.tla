------------------------------- MODULE Outbox -------------------------------
(***************************************************************************)
(* What PacketSender promises its callers: a packet is put on the wire at  *)
(* most once and only if it was added; packets added without a delay go    *)
(* out in the order they were added; a packet added with a delay never     *)
(* overtakes one added before it.  It does not promise that the delay is   *)
(* kept, nor that every packet is sent.                                    *)
(***************************************************************************)
EXTENDS Naturals, Sequences

CONSTANTS Packets,   \* every packet ever added, each added at most once
          Delayed    \* those added with a delay

VARIABLES
  accepted,   \* packets added, in order
  out         \* packets put on the wire, in order

outboxVars == <<accepted, out>>

Among(s) == {s[i] : i \in DOMAIN s}

OutboxInit ==
  /\ accepted = <<>>
  /\ out = <<>>

Accept(p) ==
  /\ p \notin Among(accepted)
  /\ accepted' = Append(accepted, p)
  /\ UNCHANGED out

\* What must be on the wire before p: everything added earlier, except that a
\* packet without a delay does not wait for one with a delay.
Predecessors(p) ==
  LET i == CHOOSE n \in DOMAIN accepted : accepted[n] = p
      earlier == {accepted[n] : n \in 1..(i - 1)}
  IN IF p \in Delayed THEN earlier ELSE earlier \ Delayed

Send(p) ==
  /\ p \in Among(accepted) \ Among(out)
  /\ Predecessors(p) \subseteq Among(out)
  /\ out' = Append(out, p)
  /\ UNCHANGED accepted

OutboxNext == \E p \in Packets : Accept(p) \/ Send(p)

OutboxSpec == OutboxInit /\ [][OutboxNext]_outboxVars
=============================================================================

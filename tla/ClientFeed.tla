----------------------------- MODULE ClientFeed -----------------------------
(***************************************************************************)
(* What ClientConnectionManager::Tick promises the Server object, with no  *)
(* thread, socket or queue in it: every client is added once, then its TCP *)
(* packets come in the order it sent them, then it is removed once.  The   *)
(* promise is weaker than one would like in one respect: a batch hands     *)
(* over its removals BEFORE its packets, so packets of a client may follow *)
(* its removal - but only within that same batch.                          *)
(***************************************************************************)
EXTENDS Naturals

CONSTANTS Clients,     \* every connection the server ever accepts
          MaxPackets   \* bound: TCP packets one client sends

VARIABLES
  phase,    \* the loop of Tick the main thread is in; "idle" outside Tick
  status,   \* what the server has been told about each client
  handed    \* number of TCP packets of each client handed to the server

feedVars == <<phase, status, handed>>

Phases == {"idle", "adds", "removes", "packets"}

\* "draining": removed in the batch that is still being handed over.
Statuses == {"unknown", "live", "draining", "gone"}

FeedTypeOK ==
  /\ phase \in Phases
  /\ status \in [Clients -> Statuses]
  /\ handed \in [Clients -> 0..MaxPackets]

FeedInit ==
  /\ phase = "idle"
  /\ status = [c \in Clients |-> "unknown"]
  /\ handed = [c \in Clients |-> 0]

(***************************************************************************)
(* A batch: additions, then removals, then packets.                        *)
(***************************************************************************)
BeginBatch ==
  /\ phase = "idle"
  /\ phase' = "adds"
  /\ UNCHANGED <<status, handed>>

HandAdd(c) ==
  /\ phase = "adds"
  /\ status[c] = "unknown"
  /\ status' = [status EXCEPT ![c] = "live"]
  /\ UNCHANGED <<phase, handed>>

BeginRemoves ==
  /\ phase = "adds"
  /\ phase' = "removes"
  /\ UNCHANGED <<status, handed>>

HandRemove(c) ==
  /\ phase = "removes"
  /\ status[c] = "live"
  /\ status' = [status EXCEPT ![c] = "draining"]
  /\ UNCHANGED <<phase, handed>>

BeginPackets ==
  /\ phase = "removes"
  /\ phase' = "packets"
  /\ UNCHANGED <<status, handed>>

\* Hands over the next packet of c: number handed[c] + 1 of those it sent.
HandPacket(c) ==
  /\ phase = "packets"
  /\ status[c] \in {"live", "draining"}
  /\ handed[c] < MaxPackets
  /\ handed' = [handed EXCEPT ![c] = @ + 1]
  /\ UNCHANGED <<phase, status>>

EndBatch ==
  /\ phase = "packets"
  /\ phase' = "idle"
  /\ status' = [c \in Clients |-> IF status[c] = "draining" THEN "gone" ELSE status[c]]
  /\ UNCHANGED handed

FeedNext ==
  \/ BeginBatch \/ BeginRemoves \/ BeginPackets \/ EndBatch
  \/ \E c \in Clients : HandAdd(c) \/ HandRemove(c) \/ HandPacket(c)

FeedSpec == FeedInit /\ [][FeedNext]_feedVars
=============================================================================

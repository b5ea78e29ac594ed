---------------------------- MODULE PacketSender ----------------------------
(***************************************************************************)
(* PacketSenderWorker: the thread that sends, the queue and the countdown  *)
(* list it shares with the caller under _packetMutex, the condition        *)
(* variable it sleeps on, and its shutdown.                                *)
(*                                                                         *)
(* Only the main thread calls AddPacketToSend and StopThread, in the       *)
(* server and in the client.  _packetMutex is not a variable: the main     *)
(* thread's critical section is one step, the worker holds the mutex       *)
(* exactly in the program points of MutexHeld.                             *)
(*                                                                         *)
(* On the server a socket is closed by a third thread, the connection      *)
(* layer's (Client::Disconnect), which also nulls the Client's own pointer *)
(* to it - but not the copies in the queue.                                *)
(***************************************************************************)
EXTENDS Integers, Sequences, SequencesExt

CONSTANTS Packets,    \* every packet ever added, each added at most once
          Delayed,    \* those added with a delay
          Delay,      \* that delay in units of the clock
          Clients,
          To,         \* the client a packet goes to
          MayIdle,    \* is there a lower activity state (on the client only)?
          NoSocket    \* the null TCPsocket

ASSUME SenderAssumption ==
  /\ Delayed \subseteq Packets
  /\ Delay \in Nat \ {0}
  /\ To \in [Packets -> Clients]
  /\ NoSocket \notin Clients
  /\ MayIdle \in BOOLEAN

VARIABLES
  main,         \* the main thread
  wpc,          \* the worker thread
  runThread,    \* _runThread
  idling,       \* _isInLowerActivityState
  queue,        \* _packetsToSend
  countdown,    \* _countdownPacketsToSend, with the time left
  cursor,       \* packetIter: the entry of countdown the worker looks at, or 0
  elapsed,      \* time since _currentTime was taken, counted up to Delay
  lastFrameTime,   \* _lastFrameTime
  open,         \* clients whose socket is not closed
  freedUsed,    \* a closed and freed socket was handed to SDLNet_TCP_Send
  accepted, out \* see Outbox

listVars == <<queue, countdown, cursor>>
timeVars == <<elapsed, lastFrameTime>>
vars == <<main, wpc, runThread, idling, listVars, timeVars, open, freedUsed,
          accepted, out>>

Promise == INSTANCE Outbox
  WITH Packets <- Packets, Delayed <- Delayed, accepted <- accepted, out <- out

\* A socket is named by its client; a queue entry holds a copy of it.
Entry == [packet : Packets, socket : Clients \union {NoSocket}, left : 0..Delay]

MutexHeld == {"predicate", "blocking", "woken", "send", "countdown"}

TypeOK ==
  /\ main \in {"run", "notify", "stopping", "joining", "joined"}
  /\ wpc \in {"start", "test", "lock", "waiting", "clock", "exited"} \union MutexHeld
  /\ runThread \in BOOLEAN
  /\ idling \in BOOLEAN
  /\ queue \in Seq(Entry)
  /\ countdown \in Seq(Entry) /\ \A i \in DOMAIN countdown : countdown[i].left > 0
  /\ cursor \in IF wpc = "countdown" THEN 1..(Len(countdown) + 1) ELSE {0}
  /\ elapsed \in 0..Delay
  /\ lastFrameTime \in 0..Delay
  /\ open \subseteq Clients
  /\ freedUsed \in BOOLEAN
  /\ accepted \in Seq(Packets)
  /\ out \in Seq(Packets)

Init ==
  /\ main = "run"
  /\ wpc = "start"
  /\ runThread = TRUE
  /\ idling = FALSE
  /\ queue = <<>>
  /\ countdown = <<>>
  /\ cursor = 0
  /\ elapsed = 0
  /\ lastFrameTime = 0
  /\ open = Clients
  /\ freedUsed = FALSE
  /\ Promise!OutboxInit

MutexFree == wpc \notin MutexHeld

-----------------------------------------------------------------------------
(***************************************************************************)
(* The main thread.                                                        *)
(***************************************************************************)

\* player->GetNetworkClient()->GetSocket(), then AddPacketToSend under the lock.
AddPacketToSend(p) ==
  /\ main = "run"
  /\ MutexFree
  /\ LET entry == [packet |-> p,
                   socket |-> IF To[p] \in open THEN To[p] ELSE NoSocket,
                   left   |-> IF p \in Delayed THEN Delay ELSE 0]
     IN IF p \in Delayed
          THEN countdown' = Append(countdown, entry) /\ UNCHANGED queue
          ELSE queue' = Append(queue, entry) /\ UNCHANGED countdown
  /\ Promise!Accept(p)
  /\ main' = "notify"
  /\ UNCHANGED <<wpc, runThread, idling, cursor, timeVars, open, freedUsed>>

\* notify_one: wakes the worker if it waits, else nothing.
Wake == wpc' = IF wpc = "waiting" THEN "lock" ELSE wpc

\* Faulty variant: without notify_one.
NotifyAfterAddSilent ==
  /\ main = "notify"
  /\ main' = "run"
  /\ UNCHANGED <<wpc, runThread, idling, listVars, timeVars, open, freedUsed, accepted, out>>

NotifyAfterAdd ==
  /\ main = "notify"
  /\ main' = "run"
  /\ Wake
  /\ UNCHANGED <<runThread, idling, listVars, timeVars, open, freedUsed, accepted, out>>

SetIsInLowerActivityState ==
  /\ MayIdle
  /\ main = "run"
  /\ idling' = ~idling
  /\ UNCHANGED <<main, wpc, runThread, listVars, timeVars, open, freedUsed, accepted, out>>

\* StopThread: the flag is cleared without the mutex.
StopThread ==
  /\ main = "run"
  /\ main' = "stopping"
  /\ runThread' = FALSE
  /\ UNCHANGED <<wpc, idling, listVars, timeVars, open, freedUsed, accepted, out>>

NotifyStop ==
  /\ main = "stopping"
  /\ main' = "joining"
  /\ Wake
  /\ UNCHANGED <<runThread, idling, listVars, timeVars, open, freedUsed, accepted, out>>

Join ==
  /\ main = "joining"
  /\ wpc = "exited"
  /\ main' = "joined"
  /\ UNCHANGED <<wpc, runThread, idling, listVars, timeVars, open, freedUsed,
                 accepted, out>>

Main ==
  \/ \E p \in Packets : AddPacketToSend(p)
  \/ NotifyAfterAdd \/ SetIsInLowerActivityState
  \/ StopThread \/ NotifyStop \/ Join

-----------------------------------------------------------------------------
(***************************************************************************)
(* The worker: ThreadWorker.                                               *)
(***************************************************************************)
Goto(from, to) == wpc = from /\ wpc' = to

ReadClock ==
  /\ Goto("start", "test")
  /\ elapsed' = 0
  /\ UNCHANGED <<listVars, lastFrameTime, freedUsed, out>>

\* The loop condition; in the lower activity state it sleeps and comes back.
TestRunThread ==
  /\ \/ ~runThread /\ Goto("test", "exited")
     \/ runThread /\ ~idling /\ Goto("test", "lock")
  /\ UNCHANGED <<listVars, timeVars, freedUsed, out>>

Lock ==
  /\ Goto("lock", "predicate")
  /\ UNCHANGED <<listVars, timeVars, freedUsed, out>>

\* Faulty variant: the predicate looks at the countdown list only.
EvaluatePredicateOfCountdown ==
  /\ wpc = "predicate"
  /\ wpc' = IF countdown # <<>> \/ ~runThread THEN "woken" ELSE "blocking"
  /\ UNCHANGED <<listVars, timeVars, freedUsed, out>>

\* The predicate looks at the queue only, not at the countdown list.
EvaluatePredicate ==
  /\ wpc = "predicate"
  /\ wpc' = IF queue # <<>> \/ ~runThread THEN "woken" ELSE "blocking"
  /\ UNCHANGED <<listVars, timeVars, freedUsed, out>>

\* Between a false predicate and the wait the mutex is held, so no packet is
\* added; a notification sent meanwhile goes to nobody.
Block ==
  /\ Goto("blocking", "waiting")
  /\ UNCHANGED <<listVars, timeVars, freedUsed, out>>

\* A wait may end without a notification.
SpuriousWakeup ==
  /\ Goto("waiting", "lock")
  /\ UNCHANGED <<listVars, timeVars, freedUsed, out>>

Woken ==
  /\ wpc = "woken"
  /\ wpc' = IF runThread THEN "send" ELSE "exited"
  /\ UNCHANGED <<listVars, timeVars, freedUsed, out>>

\* SendPacket to the socket as it was when the packet was added.
SendPacket ==
  /\ wpc = "send"
  /\ queue # <<>>
  /\ queue' = Tail(queue)
  /\ out' = Append(out, Head(queue).packet)
  /\ freedUsed' = (freedUsed \/ Head(queue).socket \in Clients \ open)
  /\ UNCHANGED <<wpc, countdown, cursor, timeVars>>

QueueEmptied ==
  /\ queue = <<>>
  /\ Goto("send", "countdown")
  /\ cursor' = 1
  /\ UNCHANGED <<queue, countdown, timeVars, freedUsed, out>>

\* Faulty variant: what is due is queued but not erased from the list.
CountDownUnerased ==
  /\ wpc = "countdown"
  /\ cursor \in DOMAIN countdown
  /\ LET milliseconds == countdown[cursor].left - lastFrameTime
     IN \/ /\ milliseconds <= 0
           /\ queue' = Append(queue, countdown[cursor])
           /\ UNCHANGED countdown
        \/ /\ milliseconds > 0
           /\ countdown' = [countdown EXCEPT ![cursor].left = milliseconds]
           /\ UNCHANGED queue
  /\ cursor' = cursor + 1
  /\ UNCHANGED <<wpc, timeVars, freedUsed, out>>

\* Faulty variant: nothing becomes due.
CountDownForEver ==
  /\ wpc = "countdown"
  /\ cursor \in DOMAIN countdown
  /\ countdown' = [countdown EXCEPT ![cursor].left = @ - lastFrameTime]
  /\ cursor' = cursor + 1
  /\ UNCHANGED <<wpc, queue, timeVars, freedUsed, out>>

\* One entry of the list.  The time of the last iteration is charged to every
\* entry, also to one that came in since.  What is due joins the queue, and
\* waits there for the next iteration.
CountDown ==
  /\ wpc = "countdown"
  /\ cursor \in DOMAIN countdown
  /\ LET milliseconds == countdown[cursor].left - lastFrameTime
     IN \/ /\ milliseconds <= 0
           /\ queue' = Append(queue, countdown[cursor])
           /\ countdown' = RemoveAt(countdown, cursor)
           /\ UNCHANGED cursor
        \/ /\ milliseconds > 0
           /\ countdown' = [countdown EXCEPT ![cursor].left = milliseconds]
           /\ cursor' = cursor + 1
           /\ UNCHANGED queue
  /\ UNCHANGED <<wpc, timeVars, freedUsed, out>>

CountedDown ==
  /\ cursor \notin DOMAIN countdown
  /\ Goto("countdown", "clock")
  /\ cursor' = 0
  /\ UNCHANGED <<queue, countdown, timeVars, freedUsed, out>>

MeasureFrame ==
  /\ Goto("clock", "test")
  /\ lastFrameTime' = elapsed
  /\ elapsed' = 0
  /\ UNCHANGED <<listVars, freedUsed, out>>

WorkerStep ==
  \/ ReadClock \/ TestRunThread \/ Lock \/ EvaluatePredicate \/ Block \/ Woken
  \/ SendPacket \/ QueueEmptied \/ CountDown \/ CountedDown \/ MeasureFrame

Worker ==
  /\ WorkerStep \/ SpuriousWakeup
  /\ UNCHANGED <<main, runThread, idling, open, accepted>>

-----------------------------------------------------------------------------
(***************************************************************************)
(* The clock, and the connection layer's thread.                           *)
(***************************************************************************)
TimePasses ==
  /\ elapsed < Delay
  /\ elapsed' = elapsed + 1
  /\ UNCHANGED <<main, wpc, runThread, idling, listVars, lastFrameTime, open, freedUsed,
                 accepted, out>>

Disconnect(c) ==
  /\ c \in open
  /\ open' = open \ {c}
  /\ UNCHANGED <<main, wpc, runThread, idling, listVars, timeVars, freedUsed,
                 accepted, out>>

Next == Main \/ Worker \/ TimePasses \/ \E c \in Clients : Disconnect(c)

\* The threads run and time passes.  No wakeup is spurious for sure, and
\* nobody has to add packets, stop, or disconnect.
Fairness ==
  /\ WF_vars(WorkerStep /\ UNCHANGED <<main, runThread, idling, open, accepted>>)
  /\ WF_vars(NotifyAfterAdd) /\ WF_vars(NotifyStop) /\ WF_vars(Join)
  /\ WF_vars(TimePasses)

Spec == Init /\ [][Next]_vars /\ Fairness

-----------------------------------------------------------------------------
(***************************************************************************)
(* Properties.                                                             *)
(***************************************************************************)

\* The queue, the countdown list and the moves between them keep the order of
\* Outbox: above all, the delayed repeat of a removal never goes out before
\* the removal itself, or before what was sent ahead of it.
KeepsOrder == Promise!OutboxSpec

\* A worker that sleeps on the condition variable has nothing to send, unless
\* the notification for it is about to be given.
NoSleepOverPackets ==
  wpc \in {"blocking", "waiting"} /\ queue # <<>> => wpc = "waiting" /\ main = "notify"

\* Every packet added without a delay is sent, unless the sender is stopped or
\* put in its lower activity state again and again.
ImmediateIsSent ==
  \A p \in Packets \ Delayed :
    (p \in Promise!Among(accepted))
      ~> (p \in Promise!Among(out) \/ main \notin {"run", "notify"} \/ idling)

\* "send a 2nd time just in case": a packet added with a delay is sent too.
DelayedIsSent ==
  \A p \in Delayed :
    (p \in Promise!Among(accepted))
      ~> (p \in Promise!Among(out) \/ main \notin {"run", "notify"} \/ idling)

\* "we are checking if the thread quits in this CV": StopThread's join returns.
StopCompletes == (main = "stopping") ~> (main = "joined")

\* "something must have gone wrong - perhaps the player left?": what is queued
\* for a player that left is not sent through its closed socket.
NothingSentToThoseWhoLeft == ~freedUsed
=============================================================================

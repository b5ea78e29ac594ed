-------------------------- MODULE PacketSender_proofs --------------------------
(***************************************************************************)
(* Proofs about PacketSender, for any set of packets, any choice of those  *)
(* that are delayed, any delay and any clients: type correctness, that the *)
(* worker does not sleep over packets, and that queue and countdown list   *)
(* implement Outbox.                                                       *)
(***************************************************************************)
EXTENDS PacketSender, TLAPS

-----------------------------------------------------------------------------
(***************************************************************************)
(* The inductive invariant of the refinement.                              *)
(***************************************************************************)
Among(s) == Promise!Among(s)

PacketsOf(s) == {s[i].packet : i \in DOMAIN s}

Once(s) == \A i, j \in DOMAIN s : s[i].packet = s[j].packet => i = j

\* A packet is accepted once, and is then in one place: on the wire, in the
\* queue or in the countdown list.
AcceptedOnce == \A m, n \in DOMAIN accepted : accepted[m] = accepted[n] => m = n

InOnePlace ==
  /\ Once(queue) /\ Once(countdown)
  /\ Among(accepted) = Among(out) \union PacketsOf(queue) \union PacketsOf(countdown)
  /\ PacketsOf(queue) \intersect Among(out) = {}
  /\ PacketsOf(countdown) \intersect (Among(out) \union PacketsOf(queue)) = {}

OnlyDelayedCountDown == PacketsOf(countdown) \subseteq Delayed

\* The time an entry has left once the running pass over the list is over.
Remaining(i) ==
  countdown[i].left - (IF wpc = "countdown" /\ i >= cursor THEN lastFrameTime ELSE 0)

\* All delays are the same, so what was added first is due first.
SoonestFirst ==
  \A i, j \in DOMAIN countdown : i < j => Remaining(i) <= Remaining(j)

\* What must be sent before a queued packet is sent already, or queued ahead of
\* it; what was accepted before a packet of the countdown list is ahead of it too.
QueueInOrder ==
  \A j \in DOMAIN queue, m, n \in DOMAIN accepted :
    /\ accepted[m] = queue[j].packet /\ n < m
    /\ accepted[m] \in Delayed \/ accepted[n] \notin Delayed
    => \/ accepted[n] \in Among(out)
       \/ \E i \in DOMAIN queue : i < j /\ queue[i].packet = accepted[n]

CountdownInOrder ==
  \A j \in DOMAIN countdown, m, n \in DOMAIN accepted :
    accepted[m] = countdown[j].packet /\ n < m
    => \/ accepted[n] \in Among(out) \union PacketsOf(queue)
       \/ \E i \in DOMAIN countdown : i < j /\ countdown[i].packet = accepted[n]

InOrder ==
  /\ AcceptedOnce /\ InOnePlace /\ OnlyDelayedCountDown
  /\ SoonestFirst /\ QueueInOrder /\ CountdownInOrder

-----------------------------------------------------------------------------
(***************************************************************************)
(* Type correctness.                                                       *)
(***************************************************************************)
LEMMA InitType == Init => TypeOK
<1> SUFFICES ASSUME Init PROVE TypeOK
  OBVIOUS
<1> USE SenderAssumption DEF SenderAssumption, Init, Promise!OutboxInit
<1>1. queue \in Seq(Entry) /\ countdown \in Seq(Entry)
  OBVIOUS
<1>2. \A i \in DOMAIN countdown : countdown[i].left > 0
  OBVIOUS
<1>3. accepted \in Seq(Packets) /\ out \in Seq(Packets)
  OBVIOUS
<1>4. cursor \in IF wpc = "countdown" THEN 1..(Len(countdown) + 1) ELSE {0}
  OBVIOUS
<1>5. elapsed \in 0..Delay /\ lastFrameTime \in 0..Delay
  OBVIOUS
<1> QED BY <1>1, <1>2, <1>3, <1>4, <1>5 DEF TypeOK, MutexHeld

LEMMA RemoveAtType ==
  ASSUME NEW S, NEW s \in Seq(S), NEW i \in DOMAIN s
  PROVE  /\ RemoveAt(s, i) \in Seq(S)
         /\ Len(RemoveAt(s, i)) = Len(s) - 1
         /\ \A j \in DOMAIN RemoveAt(s, i) :
              RemoveAt(s, i)[j] = IF j < i THEN s[j] ELSE s[j + 1]
<1> DEFINE before == SubSeq(s, 1, i - 1)
           after  == SubSeq(s, i + 1, Len(s))
<1>1. /\ before \in Seq(S) /\ Len(before) = i - 1
      /\ \A j \in DOMAIN before : before[j] = s[j]
  OBVIOUS
<1>2. /\ after \in Seq(S) /\ Len(after) = Len(s) - i
      /\ \A j \in DOMAIN after : after[j] = s[i + j]
  OBVIOUS
<1>3. RemoveAt(s, i) = before \o after
  BY DEF RemoveAt
<1> HIDE DEF before, after
<1>4. /\ before \o after \in Seq(S)
      /\ Len(before \o after) = Len(s) - 1
  BY <1>1, <1>2
<1>5. ASSUME NEW j \in DOMAIN (before \o after)
      PROVE  (before \o after)[j] = IF j < i THEN s[j] ELSE s[j + 1]
  <2>1. CASE j < i
    BY <1>1, <1>2, <2>1
  <2>2. CASE ~ (j < i)
    <3>1. (before \o after)[j] = after[j - (i - 1)] /\ j - (i - 1) \in DOMAIN after
      BY <1>1, <1>2, <1>4, <2>2
    <3>2. i + (j - (i - 1)) = j + 1
      BY <1>4, <2>2
    <3> QED BY <1>2, <2>2, <3>1, <3>2
  <2> QED BY <2>1, <2>2
<1> QED BY <1>3, <1>4, <1>5

LEMMA MainType == TypeOK /\ Main => TypeOK'
<1> SUFFICES ASSUME TypeOK, Main PROVE TypeOK'
  OBVIOUS
<1> USE DEF TypeOK, MutexHeld, listVars, timeVars
<1>1. ASSUME NEW p \in Packets, AddPacketToSend(p) PROVE TypeOK'
  <2> DEFINE entry == [packet |-> p,
                       socket |-> IF To[p] \in open THEN To[p] ELSE NoSocket,
                       left   |-> IF p \in Delayed THEN Delay ELSE 0]
  <2>1. entry \in Entry
    BY SenderAssumption DEF SenderAssumption, Entry
  <2>2. p \in Delayed => entry.left > 0
    BY SenderAssumption DEF SenderAssumption
  <2>3. \/ p \in Delayed /\ countdown' = Append(countdown, entry) /\ UNCHANGED queue
        \/ queue' = Append(queue, entry) /\ UNCHANGED countdown
    BY <1>1 DEF AddPacketToSend
  <2> HIDE DEF entry
  <2>4. queue' \in Seq(Entry) /\ countdown' \in Seq(Entry)
    <3>1. CASE queue' = Append(queue, entry) /\ UNCHANGED countdown
      BY <2>1, <3>1
    <3>2. CASE countdown' = Append(countdown, entry) /\ UNCHANGED queue
      BY <2>1, <3>2
    <3> QED BY <2>3, <3>1, <3>2
  <2>5. \A i \in DOMAIN countdown' : countdown'[i].left > 0
    <3>1. CASE UNCHANGED countdown
      BY <3>1
    <3>2. CASE p \in Delayed /\ countdown' = Append(countdown, entry)
      <4> SUFFICES ASSUME NEW i \in DOMAIN countdown' PROVE countdown'[i].left > 0
        OBVIOUS
      <4>1. \/ i \in DOMAIN countdown /\ countdown'[i] = countdown[i]
            \/ countdown'[i] = entry
        BY <2>1, <3>2
      <4> QED BY <2>2, <3>2, <4>1
    <3> QED BY <2>3, <3>1, <3>2
  <2>6. accepted' \in Seq(Packets) /\ out' = out
    BY <1>1 DEF AddPacketToSend, Promise!Accept
  <2> QED BY <1>1, <2>4, <2>5, <2>6 DEF AddPacketToSend, MutexFree
<1>2. CASE NotifyAfterAdd
  BY <1>2 DEF NotifyAfterAdd, Wake
<1>3. CASE SetIsInLowerActivityState
  BY <1>3 DEF SetIsInLowerActivityState
<1>4. CASE StopThread
  BY <1>4 DEF StopThread
<1>5. CASE NotifyStop
  BY <1>5 DEF NotifyStop, Wake
<1>6. CASE Join
  BY <1>6 DEF Join
<1> QED BY <1>1, <1>2, <1>3, <1>4, <1>5, <1>6 DEF Main

LEMMA WorkerType == TypeOK /\ Worker => TypeOK'
<1> SUFFICES ASSUME TypeOK, Worker PROVE TypeOK'
  OBVIOUS
<1> USE SenderAssumption DEF SenderAssumption, TypeOK, MutexHeld, listVars, timeVars, Worker, Goto
<1>1. CASE ReadClock \/ TestRunThread \/ Lock
  BY <1>1 DEF ReadClock, TestRunThread, Lock
<1>2. CASE EvaluatePredicate \/ Block \/ SpuriousWakeup \/ Woken
  BY <1>2 DEF EvaluatePredicate, Block, SpuriousWakeup, Woken
<1>3. CASE SendPacket
  <2>1. Head(queue) \in Entry /\ Tail(queue) \in Seq(Entry)
    BY <1>3 DEF SendPacket
  <2>2. Head(queue).packet \in Packets
    BY <2>1 DEF Entry
  <2> QED BY <1>3, <2>1, <2>2 DEF SendPacket
<1>4. CASE QueueEmptied
  BY <1>4 DEF QueueEmptied
<1>5. CASE CountDown
  <2> DEFINE milliseconds == countdown[cursor].left - lastFrameTime
  <2>1. countdown[cursor] \in Entry
    BY <1>5 DEF CountDown
  <2>2. countdown[cursor].left \in 0..Delay
    BY <2>1 DEF Entry
  <2>3. CASE /\ milliseconds <= 0
             /\ queue' = Append(queue, countdown[cursor])
             /\ countdown' = RemoveAt(countdown, cursor)
             /\ UNCHANGED cursor
    <3>1. cursor \in DOMAIN countdown
      BY <1>5 DEF CountDown
    <3>2. /\ countdown' \in Seq(Entry) /\ Len(countdown') = Len(countdown) - 1
          /\ \A j \in DOMAIN countdown' :
               countdown'[j] = IF j < cursor THEN countdown[j] ELSE countdown[j + 1]
      BY <2>3, <3>1, RemoveAtType
    <3>3. ASSUME NEW j \in DOMAIN countdown' PROVE countdown'[j].left > 0
      <4>1. j \in DOMAIN countdown /\ j + 1 \in DOMAIN countdown
        BY <3>1, <3>2
      <4> QED BY <3>2, <4>1
    <3> QED BY <1>5, <2>1, <2>3, <3>1, <3>2, <3>3 DEF CountDown
  <2>4. CASE /\ milliseconds > 0
             /\ countdown' = [countdown EXCEPT ![cursor].left = milliseconds]
             /\ cursor' = cursor + 1
             /\ UNCHANGED queue
    <3>1. milliseconds \in 0..Delay
      BY <2>2, <2>4
    <3>2. [countdown[cursor] EXCEPT !.left = milliseconds] \in Entry
      BY <2>1, <3>1 DEF Entry
    <3>3. /\ countdown' \in Seq(Entry) /\ Len(countdown') = Len(countdown)
          /\ \A j \in DOMAIN countdown' : countdown'[j].left > 0
      BY <1>5, <2>1, <2>4, <3>2 DEF CountDown, Entry
    <3> QED BY <1>5, <2>4, <3>3 DEF CountDown
  <2> QED BY <1>5, <2>3, <2>4 DEF CountDown
<1>6. CASE CountedDown
  BY <1>6 DEF CountedDown
<1>7. CASE MeasureFrame
  BY <1>7 DEF MeasureFrame
<1> QED BY <1>1, <1>2, <1>3, <1>4, <1>5, <1>6, <1>7 DEF WorkerStep

LEMMA NextType == TypeOK /\ [Next]_vars => TypeOK'
<1> SUFFICES ASSUME TypeOK, [Next]_vars PROVE TypeOK'
  OBVIOUS
<1> USE DEF TypeOK, listVars, timeVars
<1>1. CASE Main
  BY <1>1, MainType
<1>2. CASE Worker
  BY <1>2, WorkerType
<1>3. CASE TimePasses
  BY <1>3, SenderAssumption DEF SenderAssumption, TimePasses
<1>4. ASSUME NEW c \in Clients, Disconnect(c) PROVE TypeOK'
  BY <1>4 DEF Disconnect
<1>5. CASE UNCHANGED vars
  BY <1>5 DEF vars
<1> QED BY <1>1, <1>2, <1>3, <1>4, <1>5 DEF Next

\* Every variable keeps its type: in particular no entry of the countdown list
\* ever has no time left, so a delayed packet is queued by the pass that finds
\* it due and by no later one.
THEOREM TypeCorrect == Spec => []TypeOK
<1>1. Init => TypeOK
  BY InitType
<1>2. TypeOK /\ [Next]_vars => TypeOK'
  BY NextType
<1> QED BY <1>1, <1>2, PTL DEF Spec

-----------------------------------------------------------------------------
(***************************************************************************)
(* The condition variable.                                                 *)
(***************************************************************************)
\* The worker never sleeps over a packet, unless the notification for it is
\* about to be given: between a false predicate and the wait it holds the mutex,
\* and whoever adds a packet notifies before anything else.
THEOREM NeverSleepsOverPackets == Spec => []NoSleepOverPackets
<1>1. Init => NoSleepOverPackets
  BY DEF Init, NoSleepOverPackets
<1>2. TypeOK /\ NoSleepOverPackets /\ [Next]_vars => NoSleepOverPackets'
  <2> SUFFICES ASSUME TypeOK, NoSleepOverPackets, [Next]_vars PROVE NoSleepOverPackets'
    OBVIOUS
  <2> USE DEF NoSleepOverPackets, listVars
  <2>1. ASSUME NEW p \in Packets, AddPacketToSend(p) PROVE NoSleepOverPackets'
    BY <2>1 DEF AddPacketToSend, MutexFree, MutexHeld
  <2>2. CASE NotifyAfterAdd \/ NotifyStop
    BY <2>2 DEF NotifyAfterAdd, NotifyStop, Wake
  <2>3. CASE SetIsInLowerActivityState \/ StopThread \/ Join
    BY <2>3 DEF SetIsInLowerActivityState, StopThread, Join
  <2>4. CASE Worker
    BY <2>4 DEF Worker, WorkerStep, Goto, ReadClock, TestRunThread, Lock, EvaluatePredicate,
         Block, SpuriousWakeup, Woken, SendPacket, QueueEmptied, CountDown, CountedDown,
         MeasureFrame
  <2>5. CASE TimePasses \/ \E c \in Clients : Disconnect(c)
    BY <2>5 DEF TimePasses, Disconnect
  <2>6. CASE UNCHANGED vars
    BY <2>6 DEF vars
  <2> QED BY <2>1, <2>2, <2>3, <2>4, <2>5, <2>6 DEF Next, Main
<1> QED BY <1>1, <1>2, TypeCorrect, PTL DEF Spec

-----------------------------------------------------------------------------
(***************************************************************************)
(* The order.                                                              *)
(***************************************************************************)
LEMMA AmongAppend ==
  ASSUME NEW S, NEW s \in Seq(S), NEW e \in S
  PROVE  Among(Append(s, e)) = Among(s) \union {e}
<1>1. \A i \in DOMAIN s : i \in DOMAIN Append(s, e) /\ Append(s, e)[i] = s[i]
  OBVIOUS
<1>2. Len(s) + 1 \in DOMAIN Append(s, e) /\ Append(s, e)[Len(s) + 1] = e
  OBVIOUS
<1>3. \A i \in DOMAIN Append(s, e) : i \in DOMAIN s \/ i = Len(s) + 1
  OBVIOUS
<1> QED BY <1>1, <1>2, <1>3 DEF Among, Promise!Among

LEMMA PacketsOfAppend ==
  ASSUME NEW s \in Seq(Entry), NEW e \in Entry
  PROVE  PacketsOf(Append(s, e)) = PacketsOf(s) \union {e.packet}
<1>1. \A i \in DOMAIN s : i \in DOMAIN Append(s, e) /\ Append(s, e)[i] = s[i]
  OBVIOUS
<1>2. Len(s) + 1 \in DOMAIN Append(s, e) /\ Append(s, e)[Len(s) + 1] = e
  OBVIOUS
<1>3. \A i \in DOMAIN Append(s, e) : i \in DOMAIN s \/ i = Len(s) + 1
  OBVIOUS
<1> QED BY <1>1, <1>2, <1>3 DEF PacketsOf

LEMMA OnceAppend ==
  ASSUME NEW s \in Seq(Entry), NEW e \in Entry, Once(s), e.packet \notin PacketsOf(s)
  PROVE  Once(Append(s, e))
BY DEF Once, PacketsOf

LEMMA FirstAndRest ==
  ASSUME NEW s \in Seq(Entry), s # <<>>, Once(s)
  PROVE  /\ PacketsOf(s) = {Head(s).packet} \union PacketsOf(Tail(s))
         /\ Head(s).packet \notin PacketsOf(Tail(s))
         /\ Once(Tail(s))
<1>1. /\ \A i \in DOMAIN Tail(s) : i + 1 \in DOMAIN s /\ Tail(s)[i] = s[i + 1]
      /\ \A i \in DOMAIN s : i # 1 => i - 1 \in DOMAIN Tail(s) /\ s[i] = Tail(s)[i - 1]
      /\ 1 \in DOMAIN s /\ Head(s) = s[1]
  OBVIOUS
<1>2. PacketsOf(s) = {Head(s).packet} \union PacketsOf(Tail(s))
  <2>1. \A i \in DOMAIN s :
           s[i] = Head(s) \/ \E j \in DOMAIN Tail(s) : s[i] = Tail(s)[j]
    BY <1>1
  <2> QED BY <1>1, <2>1 DEF PacketsOf
<1>3. Head(s).packet \notin PacketsOf(Tail(s))
  BY <1>1 DEF PacketsOf, Once
<1>4. Once(Tail(s))
  BY <1>1 DEF Once
<1> QED BY <1>2, <1>3, <1>4

LEMMA InitInOrder == Init => InOrder
BY DEF Init, Promise!OutboxInit, InOrder, AcceptedOnce, InOnePlace, Once, PacketsOf, Among,
       Promise!Among, OnlyDelayedCountDown, SoonestFirst, QueueInOrder, CountdownInOrder

\* A step that moves no packet and does not change the time an entry has left.
LEMMA QuietInOrder ==
  ASSUME InOrder, UNCHANGED <<queue, countdown, accepted, out>>,
         \A i \in DOMAIN countdown : Remaining(i)' = Remaining(i)
  PROVE  InOrder'
<1> USE DEF InOrder
<1>1. AcceptedOnce' /\ OnlyDelayedCountDown'
  BY DEF AcceptedOnce, PacketsOf, OnlyDelayedCountDown
<1>2. InOnePlace'
  <2>1. /\ PacketsOf(queue') = PacketsOf(queue) /\ PacketsOf(countdown') = PacketsOf(countdown)
        /\ Among(accepted') = Among(accepted) /\ Among(out') = Among(out)
        /\ Once(queue') = Once(queue) /\ Once(countdown') = Once(countdown)
    OBVIOUS
  <2> QED BY <2>1 DEF InOnePlace
<1>3. SoonestFirst'
  BY DEF SoonestFirst
<1>4. QueueInOrder' /\ CountdownInOrder'
  BY DEF QueueInOrder, CountdownInOrder, PacketsOf, Among, Promise!Among
<1> QED BY <1>1, <1>2, <1>3, <1>4

LEMMA AddInOrder ==
  ASSUME TypeOK, InOrder, NEW p \in Packets, AddPacketToSend(p)
  PROVE  InOrder'
<1> DEFINE entry == [packet |-> p,
                     socket |-> IF To[p] \in open THEN To[p] ELSE NoSocket,
                     left   |-> IF p \in Delayed THEN Delay ELSE 0]
<1>1. entry \in Entry /\ entry.packet = p
  BY SenderAssumption DEF SenderAssumption, Entry
<1>2. /\ queue \in Seq(Entry) /\ countdown \in Seq(Entry)
      /\ accepted \in Seq(Packets) /\ out \in Seq(Packets)
      /\ lastFrameTime \in 0..Delay
  BY DEF TypeOK
<1>3. /\ p \notin Among(accepted) /\ accepted' = Append(accepted, p)
      /\ out' = out
  BY DEF AddPacketToSend, Promise!Accept, Among
<1>4. wpc # "countdown" /\ wpc' = wpc
  BY DEF AddPacketToSend, MutexFree, MutexHeld
<1>5. p \notin Among(out) /\ p \notin PacketsOf(queue) /\ p \notin PacketsOf(countdown)
  BY <1>3 DEF InOrder, InOnePlace
<1>6. /\ Len(accepted') = Len(accepted) + 1 /\ accepted'[Len(accepted) + 1] = p
      /\ DOMAIN accepted = 1..Len(accepted) /\ DOMAIN accepted' = 1..(Len(accepted) + 1)
      /\ \A n \in DOMAIN accepted : accepted'[n] = accepted[n] /\ accepted[n] # p
  BY <1>2, <1>3 DEF Among, Promise!Among
<1>7. Among(accepted') = Among(accepted) \union {p} /\ Among(out') = Among(out)
  BY <1>2, <1>3, AmongAppend
<1>8. AcceptedOnce'
  BY <1>6 DEF InOrder, AcceptedOnce
<1>9. \A n \in DOMAIN accepted :
         accepted[n] \in Among(out) \union PacketsOf(queue) \union PacketsOf(countdown)
  BY DEF InOrder, InOnePlace, Among, Promise!Among
<1>10. CASE p \in Delayed
  <2>1. countdown' = Append(countdown, entry) /\ queue' = queue
    BY <1>10 DEF AddPacketToSend
  <2> HIDE DEF entry
  <2>2. PacketsOf(countdown') = PacketsOf(countdown) \union {p} /\ Once(countdown')
    BY <1>1, <1>2, <1>5, <2>1, PacketsOfAppend, OnceAppend DEF InOrder, InOnePlace
  <2>3. /\ Len(countdown') = Len(countdown) + 1 /\ countdown'[Len(countdown) + 1] = entry
        /\ \A i \in DOMAIN countdown : i \in DOMAIN countdown' /\ countdown'[i] = countdown[i]
        /\ \A i \in DOMAIN countdown' : i \in DOMAIN countdown \/ i = Len(countdown) + 1
        /\ countdown' \in Seq(Entry)
    BY <1>1, <1>2, <2>1
  <2>4. InOnePlace'
    BY <1>5, <1>7, <2>1, <2>2 DEF InOrder, InOnePlace
  <2>5. OnlyDelayedCountDown'
    BY <1>10, <2>2 DEF InOrder, OnlyDelayedCountDown
  <2>6. SoonestFirst'
    <3>1. ASSUME NEW i \in DOMAIN countdown PROVE countdown[i].left \in 0..Delay
      <4>1. countdown[i] \in Entry
        BY <1>2
      <4> QED BY <4>1 DEF Entry
    <3>2. ASSUME NEW i \in DOMAIN countdown
          PROVE  /\ Remaining(i) = countdown[i].left /\ Remaining(i)' = Remaining(i)
                 /\ Remaining(i) \in 0..Delay
      BY <1>4, <2>3, <3>1, SenderAssumption DEF Remaining, SenderAssumption
    <3>3. ASSUME NEW i \in DOMAIN countdown', i \notin DOMAIN countdown
          PROVE  Remaining(i)' = Delay
      <4>1. countdown'[i].left = Delay /\ Delay \in Nat
        BY <1>10, <2>3, <3>3, SenderAssumption DEF SenderAssumption, entry
      <4> QED BY <1>4, <4>1 DEF Remaining
    <3> SUFFICES ASSUME NEW i \in DOMAIN countdown', NEW j \in DOMAIN countdown', i < j
                 PROVE  Remaining(i)' <= Remaining(j)'
      BY DEF SoonestFirst
    <3>4. i \in DOMAIN countdown
      BY <1>2, <2>3
    <3>5. CASE j \in DOMAIN countdown
      BY <3>2, <3>4, <3>5 DEF InOrder, SoonestFirst
    <3>6. CASE j \notin DOMAIN countdown
      BY <3>2, <3>3, <3>4, <3>6
    <3> QED BY <3>5, <3>6
  <2>7. QueueInOrder'
    <3> SUFFICES ASSUME NEW j \in DOMAIN queue, NEW m \in DOMAIN accepted', NEW n \in DOMAIN accepted',
                        accepted'[m] = queue[j].packet, n < m,
                        accepted'[m] \in Delayed \/ accepted'[n] \notin Delayed
                 PROVE  \/ accepted'[n] \in Among(out)
                        \/ \E i \in DOMAIN queue : i < j /\ queue[i].packet = accepted'[n]
      BY <1>7, <2>1 DEF QueueInOrder
    <3>1. m \in DOMAIN accepted /\ n \in DOMAIN accepted
      BY <1>5, <1>6 DEF PacketsOf
    <3> QED BY <1>6, <3>1 DEF InOrder, QueueInOrder
  <2>8. CountdownInOrder'
    <3> SUFFICES ASSUME NEW j \in DOMAIN countdown', NEW m \in DOMAIN accepted', NEW n \in DOMAIN accepted',
                        accepted'[m] = countdown'[j].packet, n < m
                 PROVE  \/ accepted'[n] \in Among(out) \union PacketsOf(queue)
                        \/ \E i \in DOMAIN countdown' : i < j /\ countdown'[i].packet = accepted'[n]
      BY <1>7, <2>1 DEF CountdownInOrder
    <3>1. n \in DOMAIN accepted
      BY <1>6
    <3>2. CASE j \in DOMAIN countdown
      <4>1. m \in DOMAIN accepted
        BY <1>5, <1>6, <2>3, <3>2 DEF PacketsOf
      <4> QED BY <1>6, <2>3, <3>1, <3>2, <4>1 DEF InOrder, CountdownInOrder
    <3>3. CASE j = Len(countdown) + 1
      <4>1. \A i \in DOMAIN countdown : i < j
        BY <1>2, <3>3
      <4>2. accepted[n] \in Among(out) \union PacketsOf(queue) \union PacketsOf(countdown)
        BY <1>9, <3>1
      <4> QED BY <1>6, <2>3, <3>1, <4>1, <4>2 DEF PacketsOf
    <3> QED BY <2>3, <3>2, <3>3
  <2> QED BY <1>8, <2>4, <2>5, <2>6, <2>7, <2>8 DEF InOrder
<1>11. CASE p \notin Delayed
  <2>1. queue' = Append(queue, entry) /\ countdown' = countdown
    BY <1>11 DEF AddPacketToSend
  <2> HIDE DEF entry
  <2>2. PacketsOf(queue') = PacketsOf(queue) \union {p} /\ Once(queue')
    BY <1>1, <1>2, <1>5, <2>1, PacketsOfAppend, OnceAppend DEF InOrder, InOnePlace
  <2>3. /\ Len(queue') = Len(queue) + 1 /\ queue'[Len(queue) + 1] = entry
        /\ \A i \in DOMAIN queue : i \in DOMAIN queue' /\ queue'[i] = queue[i]
        /\ \A i \in DOMAIN queue' : i \in DOMAIN queue \/ i = Len(queue) + 1
    BY <1>1, <1>2, <2>1
  <2>4. InOnePlace'
    BY <1>5, <1>7, <2>1, <2>2 DEF InOrder, InOnePlace
  <2>5. OnlyDelayedCountDown'
    BY <2>1 DEF InOrder, OnlyDelayedCountDown
  <2>6. SoonestFirst'
    BY <1>4, <2>1 DEF InOrder, SoonestFirst, Remaining
  <2>7. QueueInOrder'
    <3> SUFFICES ASSUME NEW j \in DOMAIN queue', NEW m \in DOMAIN accepted', NEW n \in DOMAIN accepted',
                        accepted'[m] = queue'[j].packet, n < m,
                        accepted'[m] \in Delayed \/ accepted'[n] \notin Delayed
                 PROVE  \/ accepted'[n] \in Among(out)
                        \/ \E i \in DOMAIN queue' : i < j /\ queue'[i].packet = accepted'[n]
      BY <1>7 DEF QueueInOrder
    <3>1. n \in DOMAIN accepted
      BY <1>6
    <3>2. CASE j \in DOMAIN queue
      <4>1. m \in DOMAIN accepted
        BY <1>5, <1>6, <2>3, <3>2 DEF PacketsOf
      <4> QED BY <1>6, <2>3, <3>1, <3>2, <4>1 DEF InOrder, QueueInOrder
    <3>3. CASE j = Len(queue) + 1
      <4>1. \A i \in DOMAIN queue : i < j
        BY <1>2, <3>3
      <4>2. accepted[n] \notin Delayed
        BY <1>1, <1>6, <1>11, <2>3, <3>1, <3>3
      <4>3. accepted[n] \in Among(out) \union PacketsOf(queue)
        BY <1>9, <3>1, <4>2 DEF InOrder, OnlyDelayedCountDown
      <4> QED BY <1>6, <2>3, <3>1, <4>1, <4>3 DEF PacketsOf
    <3> QED BY <2>3, <3>2, <3>3
  <2>8. CountdownInOrder'
    <3> SUFFICES ASSUME NEW j \in DOMAIN countdown, NEW m \in DOMAIN accepted', NEW n \in DOMAIN accepted',
                        accepted'[m] = countdown[j].packet, n < m
                 PROVE  \/ accepted'[n] \in Among(out) \union PacketsOf(queue')
                        \/ \E i \in DOMAIN countdown : i < j /\ countdown[i].packet = accepted'[n]
      BY <1>7, <2>1 DEF CountdownInOrder
    <3>1. m \in DOMAIN accepted /\ n \in DOMAIN accepted
      BY <1>5, <1>6 DEF PacketsOf
    <3> QED BY <1>6, <2>2, <3>1 DEF InOrder, CountdownInOrder
  <2> QED BY <1>8, <2>4, <2>5, <2>6, <2>7, <2>8 DEF InOrder
<1> QED BY <1>10, <1>11

LEMMA SendInOrder ==
  ASSUME TypeOK, InOrder, SendPacket, accepted' = accepted
  PROVE  InOrder'
<1>1. /\ queue \in Seq(Entry) /\ out \in Seq(Packets) /\ queue # <<>>
      /\ queue' = Tail(queue) /\ out' = Append(out, Head(queue).packet)
      /\ UNCHANGED <<countdown, cursor, wpc, lastFrameTime>>
  BY DEF TypeOK, SendPacket, timeVars
<1>2. Head(queue) \in Entry /\ Head(queue).packet \in Packets
  <2>1. Head(queue) \in Entry
    BY <1>1
  <2> QED BY <2>1 DEF Entry
<1>3. Among(out') = Among(out) \union {Head(queue).packet}
  BY <1>1, <1>2, AmongAppend
<1>4. /\ PacketsOf(queue) = {Head(queue).packet} \union PacketsOf(queue')
      /\ Head(queue).packet \notin PacketsOf(queue')
      /\ Once(queue')
  BY <1>1, FirstAndRest DEF InOrder, InOnePlace
<1>5. /\ \A j \in DOMAIN queue' : j + 1 \in DOMAIN queue /\ queue'[j] = queue[j + 1]
      /\ \A i \in DOMAIN queue : \/ queue[i] = Head(queue)
                                 \/ i - 1 \in DOMAIN queue' /\ queue'[i - 1] = queue[i]
      /\ DOMAIN queue \subseteq Nat /\ DOMAIN queue' \subseteq Nat
  BY <1>1
<1>6. AcceptedOnce' /\ OnlyDelayedCountDown' /\ SoonestFirst'
  BY <1>1 DEF InOrder, AcceptedOnce, OnlyDelayedCountDown, SoonestFirst, Remaining
<1>7. InOnePlace'
  BY <1>1, <1>3, <1>4 DEF InOrder, InOnePlace
<1>8. QueueInOrder'
  <2> SUFFICES ASSUME NEW j \in DOMAIN queue', NEW m \in DOMAIN accepted, NEW n \in DOMAIN accepted,
                      accepted[m] = queue'[j].packet, n < m,
                      accepted[m] \in Delayed \/ accepted[n] \notin Delayed
               PROVE  \/ accepted[n] \in Among(out')
                      \/ \E i \in DOMAIN queue' : i < j /\ queue'[i].packet = accepted[n]
    BY DEF QueueInOrder
  <2>1. j + 1 \in DOMAIN queue /\ accepted[m] = queue[j + 1].packet
    BY <1>5
  <2>2. CASE accepted[n] \in Among(out)
    BY <1>3, <2>2
  <2>3. ASSUME NEW i \in DOMAIN queue, i < j + 1, queue[i].packet = accepted[n]
        PROVE  \/ accepted[n] \in Among(out')
               \/ \E k \in DOMAIN queue' : k < j /\ queue'[k].packet = accepted[n]
    BY <1>3, <1>5, <2>3
  <2> QED BY <2>1, <2>2, <2>3 DEF InOrder, QueueInOrder
<1>9. CountdownInOrder'
  BY <1>1, <1>3, <1>4 DEF InOrder, CountdownInOrder
<1> QED BY <1>6, <1>7, <1>8, <1>9 DEF InOrder

\* The pass over the list begins: every entry is charged what it will be charged.
LEMMA EmptiedInOrder ==
  ASSUME TypeOK, InOrder, QueueEmptied, accepted' = accepted
  PROVE  InOrder'
<1>1. /\ UNCHANGED <<queue, countdown, lastFrameTime, out>>
      /\ wpc = "send" /\ wpc' = "countdown" /\ cursor' = 1
      /\ countdown \in Seq(Entry) /\ lastFrameTime \in Nat
  BY SenderAssumption DEF TypeOK, SenderAssumption, QueueEmptied, Goto, timeVars
<1>2. ASSUME NEW i \in DOMAIN countdown
      PROVE  /\ i >= 1 /\ countdown[i].left \in Nat
             /\ Remaining(i) = countdown[i].left
             /\ Remaining(i)' = countdown[i].left - lastFrameTime
  <2>1. countdown[i] \in Entry /\ i >= 1
    BY <1>1
  <2>2. countdown[i].left \in Nat
    BY <2>1, SenderAssumption DEF Entry, SenderAssumption
  <2> QED BY <1>1, <2>1, <2>2 DEF Remaining
<1>3. AcceptedOnce' /\ OnlyDelayedCountDown' /\ InOnePlace'
  BY <1>1 DEF InOrder, AcceptedOnce, OnlyDelayedCountDown, InOnePlace
<1>4. SoonestFirst'
  BY <1>1, <1>2 DEF InOrder, SoonestFirst
<1>5. QueueInOrder' /\ CountdownInOrder'
  BY <1>1 DEF InOrder, QueueInOrder, CountdownInOrder
<1> QED BY <1>3, <1>4, <1>5 DEF InOrder

\* What is due is the first of the list: an earlier one would have been due in
\* this pass too, and an entry that was passed has time left.
LEMMA DueIsFirst ==
  ASSUME TypeOK, InOrder, wpc = "countdown", cursor \in DOMAIN countdown,
         countdown[cursor].left - lastFrameTime <= 0
  PROVE  cursor = 1
<1>1. countdown \in Seq(Entry) /\ lastFrameTime \in Nat /\ cursor \in Nat \ {0}
  BY SenderAssumption DEF TypeOK, SenderAssumption
<1>2. ASSUME NEW i \in DOMAIN countdown PROVE countdown[i].left \in Nat /\ countdown[i].left > 0
  <2>1. countdown[i] \in Entry
    BY <1>1
  <2> QED BY <2>1, SenderAssumption DEF Entry, SenderAssumption, TypeOK
<1> SUFFICES ASSUME 1 < cursor PROVE FALSE
  BY <1>1
<1>3. 1 \in DOMAIN countdown
  BY <1>1
<1>4. Remaining(1) <= Remaining(cursor)
  BY <1>3 DEF InOrder, SoonestFirst
<1>5. Remaining(cursor) <= 0
  BY <1>1, <1>2 DEF Remaining
<1>6. Remaining(1) > 0
  BY <1>1, <1>2, <1>3 DEF Remaining
<1> QED BY <1>1, <1>2, <1>3, <1>4, <1>5, <1>6 DEF Remaining

LEMMA DueInOrder ==
  ASSUME TypeOK, InOrder, wpc = "countdown", cursor \in DOMAIN countdown,
         countdown[cursor].left - lastFrameTime <= 0,
         queue' = Append(queue, countdown[cursor]),
         countdown' = RemoveAt(countdown, cursor),
         UNCHANGED <<wpc, cursor, lastFrameTime, accepted, out>>
  PROVE  InOrder'
<1>1. /\ queue \in Seq(Entry) /\ countdown \in Seq(Entry)
      /\ cursor = 1 /\ countdown # <<>> /\ lastFrameTime \in Nat
  BY DueIsFirst, SenderAssumption DEF TypeOK, SenderAssumption
<1> DEFINE entry == Head(countdown)
<1>2. /\ entry = countdown[1] /\ entry \in Entry
      /\ queue' = Append(queue, entry) /\ countdown' = Tail(countdown)
  <2>1. RemoveAt(countdown, 1) = Tail(countdown)
    BY <1>1 DEF RemoveAt
  <2> QED BY <1>1, <2>1
<1>3. /\ PacketsOf(countdown) = {entry.packet} \union PacketsOf(countdown')
      /\ entry.packet \notin PacketsOf(countdown')
      /\ Once(countdown')
  <2>1. Once(countdown)
    BY DEF InOrder, InOnePlace
  <2>2. /\ PacketsOf(countdown) = {Head(countdown).packet} \union PacketsOf(Tail(countdown))
        /\ Head(countdown).packet \notin PacketsOf(Tail(countdown))
        /\ Once(Tail(countdown))
    BY <1>1, <2>1, FirstAndRest
  <2> QED BY <1>2, <2>2
<1>4. entry.packet \notin Among(out) \union PacketsOf(queue)
  BY <1>3 DEF InOrder, InOnePlace
<1>5. /\ PacketsOf(queue') = PacketsOf(queue) \union {entry.packet}
      /\ Once(queue')
  BY <1>1, <1>2, <1>4, PacketsOfAppend, OnceAppend DEF InOrder, InOnePlace
<1>6. /\ \A j \in DOMAIN countdown' : j + 1 \in DOMAIN countdown /\ countdown'[j] = countdown[j + 1]
      /\ \A i \in DOMAIN countdown : \/ i = 1
                                     \/ i - 1 \in DOMAIN countdown' /\ countdown'[i - 1] = countdown[i]
      /\ DOMAIN countdown \subseteq Nat \ {0} /\ DOMAIN countdown' \subseteq Nat \ {0}
      /\ 1 \in DOMAIN countdown
  <2>1. DOMAIN countdown = 1..Len(countdown) /\ Len(countdown) \in Nat \ {0}
    BY <1>1
  <2>2. DOMAIN Tail(countdown) = 1..(Len(countdown) - 1)
    BY <1>1
  <2>3. \A j \in DOMAIN Tail(countdown) : Tail(countdown)[j] = countdown[j + 1]
    BY <1>1
  <2> QED BY <1>2, <2>1, <2>2, <2>3
<1>7. /\ Len(queue') = Len(queue) + 1 /\ queue'[Len(queue) + 1] = entry
      /\ \A i \in DOMAIN queue : i \in DOMAIN queue' /\ queue'[i] = queue[i] /\ i < Len(queue) + 1
      /\ \A i \in DOMAIN queue' : i \in DOMAIN queue \/ i = Len(queue) + 1
      /\ Len(queue) + 1 \in Nat
  BY <1>1, <1>2
<1> HIDE DEF entry
<1>8. AcceptedOnce'
  BY DEF InOrder, AcceptedOnce
<1>9. OnlyDelayedCountDown' /\ InOnePlace'
  BY <1>3, <1>4, <1>5 DEF InOrder, OnlyDelayedCountDown, InOnePlace
<1>10. SoonestFirst'
  <2>1. \A i \in DOMAIN countdown : Remaining(i) = countdown[i].left - lastFrameTime
    BY <1>1, <1>6 DEF Remaining
  <2>2. \A i \in DOMAIN countdown' : Remaining(i)' = countdown[i + 1].left - lastFrameTime
    BY <1>1, <1>6 DEF Remaining
  <2> QED BY <1>6, <2>1, <2>2 DEF InOrder, SoonestFirst
<1>11. QueueInOrder'
  <2> SUFFICES ASSUME NEW j \in DOMAIN queue', NEW m \in DOMAIN accepted, NEW n \in DOMAIN accepted,
                      accepted[m] = queue'[j].packet, n < m,
                      accepted[m] \in Delayed \/ accepted[n] \notin Delayed
               PROVE  \/ accepted[n] \in Among(out)
                      \/ \E i \in DOMAIN queue' : i < j /\ queue'[i].packet = accepted[n]
    BY DEF QueueInOrder
  <2>1. CASE j \in DOMAIN queue
    BY <1>7, <2>1 DEF InOrder, QueueInOrder
  <2>2. CASE j = Len(queue) + 1
    <3>1. accepted[m] = countdown[1].packet
      BY <1>2, <1>7, <2>2
    <3>2. ~ \E i \in DOMAIN countdown : i < 1
      BY <1>1
    <3>3. accepted[n] \in Among(out) \union PacketsOf(queue)
      BY <1>6, <3>1, <3>2 DEF InOrder, CountdownInOrder
    <3> QED BY <1>7, <2>2, <3>3 DEF PacketsOf
  <2> QED BY <1>7, <2>1, <2>2
<1>12. CountdownInOrder'
  <2> SUFFICES ASSUME NEW j \in DOMAIN countdown', NEW m \in DOMAIN accepted, NEW n \in DOMAIN accepted,
                      accepted[m] = countdown'[j].packet, n < m
               PROVE  \/ accepted[n] \in Among(out) \union PacketsOf(queue')
                      \/ \E i \in DOMAIN countdown' : i < j /\ countdown'[i].packet = accepted[n]
    BY DEF CountdownInOrder
  <2>1. j + 1 \in DOMAIN countdown /\ accepted[m] = countdown[j + 1].packet
    BY <1>6
  <2>2. CASE accepted[n] \in Among(out) \union PacketsOf(queue)
    BY <1>5, <2>2
  <2>3. ASSUME NEW i \in DOMAIN countdown, i < j + 1, countdown[i].packet = accepted[n]
        PROVE  \/ accepted[n] \in PacketsOf(queue')
               \/ \E k \in DOMAIN countdown' : k < j /\ countdown'[k].packet = accepted[n]
    <3>1. CASE i = 1
      BY <1>2, <1>5, <2>3, <3>1
    <3>2. CASE i # 1
      <4>1. i - 1 \in DOMAIN countdown' /\ countdown'[i - 1].packet = accepted[n] /\ i - 1 < j
        BY <1>6, <2>3, <3>2
      <4> QED BY <4>1
    <3> QED BY <3>1, <3>2
  <2> QED BY <2>1, <2>2, <2>3 DEF InOrder, CountdownInOrder
<1> QED BY <1>8, <1>9, <1>10, <1>11, <1>12 DEF InOrder

LEMMA ChargedInOrder ==
  ASSUME TypeOK, InOrder, wpc = "countdown", cursor \in DOMAIN countdown,
         countdown[cursor].left - lastFrameTime > 0,
         countdown' = [countdown EXCEPT ![cursor].left = countdown[cursor].left - lastFrameTime],
         cursor' = cursor + 1,
         UNCHANGED <<wpc, queue, lastFrameTime, accepted, out>>
  PROVE  InOrder'
<1>1. countdown \in Seq(Entry) /\ lastFrameTime \in Nat /\ cursor \in Nat
  BY SenderAssumption DEF TypeOK, SenderAssumption
<1>2. ASSUME NEW i \in DOMAIN countdown PROVE countdown[i] \in Entry /\ countdown[i].left \in Nat
  <2>1. countdown[i] \in Entry
    BY <1>1
  <2> QED BY <2>1, SenderAssumption DEF Entry, SenderAssumption
<1>3. /\ DOMAIN countdown' = DOMAIN countdown /\ DOMAIN countdown \subseteq Nat
      /\ \A i \in DOMAIN countdown : countdown'[i].packet = countdown[i].packet
      /\ \A i \in DOMAIN countdown : i # cursor => countdown'[i].left = countdown[i].left
      /\ countdown'[cursor].left = countdown[cursor].left - lastFrameTime
  BY <1>1, <1>2 DEF Entry
<1>4. PacketsOf(countdown') = PacketsOf(countdown) /\ (Once(countdown) => Once(countdown'))
  BY <1>3 DEF PacketsOf, Once
<1>5. ASSUME NEW i \in DOMAIN countdown PROVE Remaining(i)' = Remaining(i)
  BY <1>1, <1>2, <1>3 DEF Remaining
<1>6. AcceptedOnce' /\ OnlyDelayedCountDown' /\ InOnePlace'
  BY <1>4 DEF InOrder, AcceptedOnce, OnlyDelayedCountDown, InOnePlace
<1>7. SoonestFirst'
  BY <1>3, <1>5 DEF InOrder, SoonestFirst
<1>8. QueueInOrder'
  BY DEF InOrder, QueueInOrder
<1>9. CountdownInOrder'
  BY <1>3 DEF InOrder, CountdownInOrder
<1> QED BY <1>6, <1>7, <1>8, <1>9 DEF InOrder

LEMMA NextInOrder == TypeOK /\ InOrder /\ [Next]_vars => InOrder'
<1> SUFFICES ASSUME TypeOK, InOrder, [Next]_vars PROVE InOrder'
  OBVIOUS
<1> DEFINE Quiet == /\ UNCHANGED <<queue, countdown, accepted, out>>
                    /\ \A i \in DOMAIN countdown : Remaining(i)' = Remaining(i)
<1>q. Quiet => InOrder'
  BY QuietInOrder
<1>1. ASSUME NEW p \in Packets, AddPacketToSend(p) PROVE InOrder'
  BY <1>1, AddInOrder
<1>2. CASE NotifyAfterAdd \/ NotifyStop
  <2>1. UNCHANGED <<queue, countdown, cursor, lastFrameTime, accepted, out>>
    BY <1>2 DEF NotifyAfterAdd, NotifyStop, listVars, timeVars
  <2>2. wpc' = "countdown" <=> wpc = "countdown"
    BY <1>2 DEF NotifyAfterAdd, NotifyStop, Wake
  <2> QED BY <1>q, <2>1, <2>2 DEF Remaining
<1>3. CASE SetIsInLowerActivityState \/ StopThread \/ Join
  BY <1>q, <1>3 DEF SetIsInLowerActivityState, StopThread, Join, listVars, timeVars, Remaining
<1>4. CASE Worker
  <2>1. accepted' = accepted
    BY <1>4 DEF Worker
  <2>2. CASE \/ ReadClock \/ TestRunThread \/ Lock \/ EvaluatePredicate \/ Block
             \/ SpuriousWakeup \/ Woken \/ MeasureFrame
    <3>1. UNCHANGED <<queue, countdown, out>> /\ wpc # "countdown" /\ wpc' # "countdown"
      BY <2>2 DEF ReadClock, TestRunThread, Lock, EvaluatePredicate, Block, SpuriousWakeup,
         Woken, MeasureFrame, Goto, listVars
    <3> QED BY <1>q, <2>1, <3>1 DEF Remaining
  <2>3. CASE SendPacket
    BY <2>1, <2>3, SendInOrder
  <2>4. CASE QueueEmptied
    BY <2>1, <2>4, EmptiedInOrder
  <2>5. CASE CountDown
    <3>1. /\ wpc = "countdown" /\ cursor \in DOMAIN countdown
          /\ UNCHANGED <<wpc, lastFrameTime, out>>
      BY <2>5 DEF CountDown, timeVars
    <3>2. CASE /\ countdown[cursor].left - lastFrameTime <= 0
               /\ queue' = Append(queue, countdown[cursor])
               /\ countdown' = RemoveAt(countdown, cursor)
               /\ UNCHANGED cursor
      BY <2>1, <3>1, <3>2, DueInOrder
    <3>3. CASE /\ countdown[cursor].left - lastFrameTime > 0
               /\ countdown' = [countdown EXCEPT ![cursor].left = countdown[cursor].left - lastFrameTime]
               /\ cursor' = cursor + 1
               /\ UNCHANGED queue
      BY <2>1, <3>1, <3>3, ChargedInOrder
    <3> QED BY <2>5, <3>2, <3>3 DEF CountDown
  <2>6. CASE CountedDown
    <3>1. /\ UNCHANGED <<queue, countdown, lastFrameTime, out>>
          /\ wpc = "countdown" /\ wpc' = "clock" /\ cursor \notin DOMAIN countdown
      BY <2>6 DEF CountedDown, Goto, timeVars
    <3>2. \A i \in DOMAIN countdown : i < cursor /\ i \in Nat /\ cursor \in Nat
      BY <3>1 DEF TypeOK
    <3>3. \A i \in DOMAIN countdown : Remaining(i)' = Remaining(i)
      BY <3>1, <3>2 DEF Remaining
    <3> QED BY <1>q, <2>1, <3>1, <3>3
  <2> QED BY <1>4, <2>2, <2>3, <2>4, <2>5, <2>6 DEF Worker, WorkerStep
<1>5. CASE TimePasses \/ \E c \in Clients : Disconnect(c)
  BY <1>q, <1>5 DEF TimePasses, Disconnect, listVars, timeVars, Remaining
<1>6. CASE UNCHANGED vars
  BY <1>q, <1>6 DEF vars, listVars, timeVars, Remaining
<1> QED BY <1>1, <1>2, <1>3, <1>4, <1>5, <1>6 DEF Next, Main

\* A packet that was added is in exactly one of wire, queue and countdown list,
\* and each of the two lists has what must be sent before an entry ahead of it.
THEOREM OrderHolds == Spec => []InOrder
<1>1. Init => InOrder
  BY InitInOrder
<1>2. TypeOK /\ InOrder /\ [Next]_vars => InOrder'
  BY NextInOrder
<1> QED BY <1>1, <1>2, TypeCorrect, PTL DEF Spec

-----------------------------------------------------------------------------
(***************************************************************************)
(* The refinement.                                                         *)
(***************************************************************************)
LEMMA PredecessorsAre ==
  ASSUME InOrder, NEW m \in DOMAIN accepted, accepted \in Seq(Packets)
  PROVE  Promise!Predecessors(accepted[m]) =
           {accepted[n] : n \in {k \in 1..(m - 1) : accepted[m] \in Delayed \/ accepted[k] \notin Delayed}}
<1> DEFINE i == CHOOSE n \in DOMAIN accepted : accepted[n] = accepted[m]
<1>1. i = m
  BY DEF InOrder, AcceptedOnce
<1> HIDE DEF i
<1>2. Promise!Predecessors(accepted[m]) =
        IF accepted[m] \in Delayed THEN {accepted[n] : n \in 1..(i - 1)}
                                   ELSE {accepted[n] : n \in 1..(i - 1)} \ Delayed
  BY DEF Promise!Predecessors, i
<1> QED BY <1>1, <1>2

LEMMA StepRefines ==
  TypeOK /\ InOrder /\ [Next]_vars => [Promise!OutboxNext]_(Promise!outboxVars)
<1> SUFFICES ASSUME TypeOK, InOrder, [Next]_vars
             PROVE  [Promise!OutboxNext]_(Promise!outboxVars)
  OBVIOUS
<1> USE DEF Promise!outboxVars
<1>1. ASSUME NEW p \in Packets, AddPacketToSend(p) PROVE Promise!OutboxNext
  BY <1>1 DEF AddPacketToSend, Promise!OutboxNext
<1>2. CASE SendPacket /\ accepted' = accepted
  <2> DEFINE p == Head(queue).packet
  <2>1. queue \in Seq(Entry) /\ accepted \in Seq(Packets) /\ queue # <<>>
    BY <1>2 DEF TypeOK, SendPacket
  <2>2. 1 \in DOMAIN queue /\ p = queue[1].packet /\ Head(queue) \in Entry
    BY <2>1
  <2>3. p \in Packets
    BY <2>2 DEF Entry
  <2>4. p \in Among(accepted) \ Among(out)
    BY <2>2 DEF InOrder, InOnePlace, PacketsOf
  <2>5. PICK m \in DOMAIN accepted : accepted[m] = p
    BY <2>4 DEF Among, Promise!Among
  <2>6. ASSUME NEW n \in 1..(m - 1), p \in Delayed \/ accepted[n] \notin Delayed
        PROVE  accepted[n] \in Among(out)
    <3>1. n \in DOMAIN accepted /\ n < m
      BY <2>1
    <3>2. ~ \E i \in DOMAIN queue : i < 1
      BY <2>1
    <3> QED BY <2>2, <2>5, <2>6, <3>1, <3>2 DEF InOrder, QueueInOrder
  <2>7. Promise!Predecessors(p) \subseteq Among(out)
    BY <2>1, <2>5, <2>6, PredecessorsAre
  <2>8. out' = Append(out, p) /\ UNCHANGED accepted
    BY <1>2 DEF SendPacket
  <2>9. Promise!Send(p)
    BY <2>4, <2>7, <2>8 DEF Promise!Send, Among
  <2> QED BY <2>3, <2>9 DEF Promise!OutboxNext
<1>3. CASE Worker /\ ~ SendPacket
  BY <1>3 DEF Worker, WorkerStep, ReadClock, TestRunThread, Lock, EvaluatePredicate, Block,
     SpuriousWakeup, Woken, QueueEmptied, CountDown, CountedDown, MeasureFrame
<1>4. CASE NotifyAfterAdd \/ SetIsInLowerActivityState \/ StopThread \/ NotifyStop \/ Join
  BY <1>4 DEF NotifyAfterAdd, SetIsInLowerActivityState, StopThread, NotifyStop, Join
<1>5. CASE TimePasses \/ \E c \in Clients : Disconnect(c)
  BY <1>5 DEF TimePasses, Disconnect
<1>6. CASE UNCHANGED vars
  BY <1>6 DEF vars
<1> QED BY <1>1, <1>2, <1>3, <1>4, <1>5, <1>6 DEF Next, Main, Worker

\* The sender implements Outbox: whatever the interleaving of callers, worker,
\* clock and closing sockets, a packet is sent at most once and only if it was
\* added, packets without a delay go out in the order they were added, and the
\* delayed repeat of a removal overtakes nothing that was added before it.
THEOREM Refinement == Spec => KeepsOrder
<1>1. Init => Promise!OutboxInit
  BY DEF Init
<1>2. TypeOK /\ InOrder /\ [Next]_vars => [Promise!OutboxNext]_(Promise!outboxVars)
  BY StepRefines
<1> QED BY <1>1, <1>2, TypeCorrect, OrderHolds, PTL DEF Spec, KeepsOrder, Promise!OutboxSpec
=============================================================================

----------------------- MODULE ClientConnections_proofs -----------------------
(***************************************************************************)
(* Proofs about ClientConnections, for any number of connections, packets  *)
(* and datagrams and any socket set: type correctness, the flag over the   *)
(* vectors, the agreement of worker, vectors and server, and from these    *)
(* that the connection layer implements ClientFeed.                        *)
(***************************************************************************)
EXTENDS ClientConnections, TLAPS

-----------------------------------------------------------------------------
(***************************************************************************)
(* Sequences as the vectors use them: Append and Tail.                     *)
(***************************************************************************)
LEMMA ToSetAppend ==
  ASSUME NEW S, NEW s \in Seq(S), NEW e \in S
  PROVE  ToSet(Append(s, e)) = ToSet(s) \union {e}
<1>1. \A i \in DOMAIN s : i \in DOMAIN Append(s, e) /\ Append(s, e)[i] = s[i]
  OBVIOUS
<1>2. Len(s) + 1 \in DOMAIN Append(s, e) /\ Append(s, e)[Len(s) + 1] = e
  OBVIOUS
<1>3. \A i \in DOMAIN Append(s, e) : i \in DOMAIN s \/ i = Len(s) + 1
  OBVIOUS
<1> QED BY <1>1, <1>2, <1>3 DEF ToSet

LEMMA ToSetTail ==
  ASSUME NEW S, NEW s \in Seq(S), s # <<>>
  PROVE  ToSet(s) = {Head(s)} \union ToSet(Tail(s))
<1>1. ToSet(s) \subseteq {Head(s)} \union ToSet(Tail(s))
  <2> SUFFICES ASSUME NEW i \in DOMAIN s
               PROVE  s[i] = Head(s) \/ \E j \in DOMAIN Tail(s) : s[i] = Tail(s)[j]
    BY DEF ToSet
  <2>1. CASE i = 1
    BY <2>1
  <2>2. CASE i # 1
    <3>1. i - 1 \in DOMAIN Tail(s) /\ Tail(s)[i - 1] = s[i]
      BY <2>2
    <3> QED BY <3>1
  <2> QED BY <2>1, <2>2
<1>2. {Head(s)} \union ToSet(Tail(s)) \subseteq ToSet(s)
  BY DEF ToSet
<1> QED BY <1>1, <1>2

LEMMA InjectiveAppend ==
  ASSUME NEW S, NEW s \in Seq(S), NEW e \in S, IsInjective(s), e \notin ToSet(s)
  PROVE  IsInjective(Append(s, e))
BY DEF ToSet, IsInjective

LEMMA InjectiveTail ==
  ASSUME NEW S, NEW s \in Seq(S), s # <<>>, IsInjective(s)
  PROVE  /\ IsInjective(Tail(s))
         /\ Head(s) \notin ToSet(Tail(s))
BY DEF ToSet, IsInjective

LEMMA ToSetEmpty ==
  ASSUME NEW S, NEW s \in Seq(S)
  PROVE  ToSet(s) = {} <=> s = <<>>
BY DEF ToSet

-----------------------------------------------------------------------------
(***************************************************************************)
(* Type correctness.                                                       *)
(***************************************************************************)
LEMMA InitType == Init => TypeOK
<1> SUFFICES ASSUME Init PROVE TypeOK
  OBVIOUS
<1>1. Feed!FeedTypeOK
  BY ConnectionsAssumption
     DEF ConnectionsAssumption, Init, Feed!FeedInit, Feed!FeedTypeOK, Feed!Phases, Feed!Statuses
<1>2. /\ peer \in [Clients -> {"none", "open", "closed", "reset"}]
      /\ sent \in [Clients -> 0..MaxPackets]
      /\ read \in [Clients -> 0..MaxPackets]
      /\ conn \in [Clients -> {"waiting", "accepted", "dropped"}]
  BY ConnectionsAssumption DEF ConnectionsAssumption, Init
<1>3. /\ datagrams \in 0..datagramsSent
      /\ datagramsSent \in 0..MaxDatagrams
  BY ConnectionsAssumption DEF ConnectionsAssumption, Init
<1>4. /\ toRemove \in Seq(Clients) /\ clientsToAdd \in Seq(Clients)
      /\ clientsToRemove \in Seq(Clients) /\ packetsToProcess \in Seq(PacketItem)
  BY DEF Init
<1> QED BY <1>1, <1>2, <1>3, <1>4 DEF Init, TypeOK

LEMMA NetworkType == TypeOK /\ Network => TypeOK'
<1> SUFFICES ASSUME TypeOK, Network PROVE TypeOK'
  OBVIOUS
<1> USE ConnectionsAssumption
    DEF ConnectionsAssumption, TypeOK, Network, workerVars, queueVars, feedVars,
        Feed!FeedTypeOK, Feed!Phases, Feed!Statuses
<1>1. CASE SendUdp
  BY <1>1 DEF SendUdp
<1>2. CASE LoseUdp
  BY <1>2 DEF LoseUdp
<1>3. ASSUME NEW c \in Clients, Connect(c) PROVE TypeOK'
  BY <1>3 DEF Connect
<1>4. ASSUME NEW c \in Clients, SendTcp(c) PROVE TypeOK'
  BY <1>4 DEF SendTcp
<1>5. ASSUME NEW c \in Clients, HangUp(c) PROVE TypeOK'
  BY <1>5 DEF HangUp
<1> QED BY <1>1, <1>2, <1>3, <1>4, <1>5

LEMMA WorkerType == TypeOK /\ Worker => TypeOK'
<1> SUFFICES ASSUME TypeOK, Worker PROVE TypeOK'
  OBVIOUS
<1> USE ConnectionsAssumption
    DEF ConnectionsAssumption, TypeOK, Worker, WorkerButUdp, feedVars, queueVars, NoCallback,
        Feed!FeedTypeOK, Feed!Phases, Feed!Statuses
<1>1. CASE InitializeWorker /\ UNCHANGED datagrams
  BY <1>1 DEF InitializeWorker
<1>2. CASE ThreadWorkerLoop /\ UNCHANGED datagrams
  BY <1>2 DEF ThreadWorkerLoop
<1>3. CASE CheckForNewClients /\ UNCHANGED datagrams
  <2>1. CASE NoCallback /\ UNCHANGED <<conn, clients, socketSet>>
    BY <1>3, <2>1 DEF CheckForNewClients
  <2>2. ASSUME NEW c \in Clients, AddSocket(c), OnClientAdd(c),
               clients' = clients \union {c}, conn' = [conn EXCEPT ![c] = "accepted"]
        PROVE  TypeOK'
    BY <1>3, <2>2 DEF CheckForNewClients, AddSocket, OnClientAdd
  <2> QED BY <1>3, <2>1, <2>2 DEF CheckForNewClients, Backlog
<1>4. CASE CheckSockets /\ UNCHANGED datagrams
  BY <1>4 DEF CheckSockets
<1>5. CASE ProcessClientsTCP /\ UNCHANGED datagrams
  <2>1. CASE ready = {}
    BY <1>5, <2>1 DEF ProcessClientsTCP
  <2>2. ASSUME NEW c \in ready, CheckTCPSocket(c), ready' = ready \ {c}, UNCHANGED wpc
        PROVE  TypeOK'
    <3>1. CASE /\ read[c] < sent[c]
               /\ read' = [read EXCEPT ![c] = @ + 1]
               /\ OnPacketReceive([client |-> c, n |-> read[c] + 1])
               /\ UNCHANGED toRemove
      <4>1. c \in Clients /\ read[c] + 1 \in 0..MaxPackets
        BY <3>1
      <4>2. [client |-> c, n |-> read[c] + 1] \in PacketItem
        BY <4>1 DEF PacketItem
      <4> QED BY <1>5, <2>2, <3>1, <4>1, <4>2 DEF ProcessClientsTCP, OnPacketReceive
    <3>2. CASE toRemove' = Append(toRemove, c) /\ NoCallback /\ UNCHANGED read
      BY <1>5, <2>2, <3>2 DEF ProcessClientsTCP
    <3> QED BY <2>2, <3>1, <3>2 DEF CheckTCPSocket
  <2> QED BY <1>5, <2>1, <2>2 DEF ProcessClientsTCP
<1>6. CASE ProcessClientsToRemove /\ UNCHANGED datagrams
  <2>1. CASE toRemove # <<>>
    <3>1. Head(toRemove) \in Clients /\ Tail(toRemove) \in Seq(Clients)
      BY <2>1
    <3>2. RemoveClient(Head(toRemove)) /\ toRemove' = Tail(toRemove)
      BY <1>6, <2>1 DEF ProcessClientsToRemove
    <3>3. /\ clientsToRemove' \in Seq(Clients)
          /\ UNCHANGED <<clientsToAdd, packetsToProcess>>
          /\ hasItems' \in BOOLEAN
      BY <3>1, <3>2 DEF RemoveClient, OnClientRemove
    <3>4. /\ conn' \in [Clients -> {"waiting", "accepted", "dropped"}]
          /\ clients' \in SUBSET Clients /\ socketSet' \in SUBSET Clients
          /\ UNCHANGED <<wpc, ready, read>>
      BY <3>1, <3>2 DEF RemoveClient
    <3> QED BY <1>6, <3>1, <3>2, <3>3, <3>4
  <2>2. CASE toRemove = <<>>
    BY <1>6, <2>2 DEF ProcessClientsToRemove
  <2> QED BY <2>1, <2>2
<1>7. CASE Shutdown /\ UNCHANGED datagrams
  <2>1. ASSUME NEW c \in clients, RemoveClient(c) PROVE TypeOK'
    <3>1. c \in Clients
      OBVIOUS
    <3> QED BY <1>7, <2>1, <3>1 DEF Shutdown, RemoveClient, OnClientRemove
  <2>2. CASE clients = {} /\ wpc' = "stopped" /\ NoCallback
             /\ UNCHANGED <<conn, clients, socketSet, ready, read>>
    BY <1>7, <2>2 DEF Shutdown
  <2> QED BY <1>7, <2>1, <2>2 DEF Shutdown
<1>8. CASE ProcessClientsUDP
  <2>1. [client |-> Udp, n |-> 0] \in PacketItem
    BY DEF PacketItem
  <2>2. CASE datagrams = 0
    BY <1>8, <2>2 DEF ProcessClientsUDP
  <2>3. CASE datagrams > 0
    <3>1. datagrams' = datagrams - 1 /\ datagramsSent' = datagramsSent
      BY <1>8, <2>3 DEF ProcessClientsUDP
    <3>2. OnPacketReceive([client |-> Udp, n |-> 0])
      BY <1>8, <2>3 DEF ProcessClientsUDP
    <3>3. packetsToProcess' \in Seq(PacketItem) /\ hasItems' \in BOOLEAN
      BY <2>1, <3>2 DEF OnPacketReceive
    <3>4. datagrams' \in 0..datagramsSent'
      BY <2>3, <3>1
    <3> QED BY <1>8, <2>3, <3>1, <3>2, <3>3, <3>4 DEF ProcessClientsUDP, OnPacketReceive
  <2> QED BY <2>2, <2>3
<1> QED BY <1>1, <1>2, <1>3, <1>4, <1>5, <1>6, <1>7, <1>8

LEMMA TickType == TypeOK /\ Tick => TypeOK'
<1> SUFFICES ASSUME TypeOK, Tick PROVE TypeOK'
  OBVIOUS
<1> USE DEF TypeOK, Tick, netVars, workerVars, queueVars,
        Feed!FeedTypeOK, Feed!Phases, Feed!Statuses
<1>1. CASE TickBegin
  BY <1>1 DEF TickBegin, Feed!BeginBatch
<1>2. CASE TickAdd
  BY <1>2 DEF TickAdd
<1>3. CASE TickAddsDone
  BY <1>3 DEF TickAddsDone, Feed!BeginRemoves
<1>4. CASE TickRemove
  BY <1>4 DEF TickRemove
<1>5. CASE TickRemovesDone
  BY <1>5 DEF TickRemovesDone, Feed!BeginPackets
<1>6. CASE TickPacket
  <2>1. Head(packetsToProcess) \in PacketItem /\ Tail(packetsToProcess) \in Seq(PacketItem)
    BY <1>6 DEF TickPacket
  <2>2. Head(packetsToProcess).n \in 0..MaxPackets
    BY <2>1 DEF PacketItem
  <2> QED BY <1>6, <2>1, <2>2 DEF TickPacket
<1>7. CASE TickEnd
  BY <1>7 DEF TickEnd, Feed!EndBatch
<1> QED BY <1>1, <1>2, <1>3, <1>4, <1>5, <1>6, <1>7

LEMMA NextType == TypeOK /\ [Next]_vars => TypeOK'
<1> SUFFICES ASSUME TypeOK, [Next]_vars PROVE TypeOK'
  OBVIOUS
<1>1. CASE Network
  BY <1>1, NetworkType
<1>2. CASE Worker
  BY <1>2, WorkerType
<1>3. CASE Tick
  BY <1>3, TickType
<1>4. CASE StopThread
  BY <1>4 DEF StopThread, TypeOK, netVars, workerVars, queueVars, feedVars,
     Feed!FeedTypeOK
<1>5. CASE Join
  BY <1>5 DEF Join, TypeOK, netVars, workerVars, queueVars, feedVars, Feed!FeedTypeOK
<1>6. CASE UNCHANGED vars
  BY <1>6 DEF vars, TypeOK, netVars, workerVars, queueVars, feedVars, Feed!FeedTypeOK
<1> QED BY <1>1, <1>2, <1>3, <1>4, <1>5, <1>6 DEF Next, Exited

\* Every variable keeps its type: in particular no client sends, and the worker
\* reads and hands over, no more packets than were written.
THEOREM TypeCorrect == Spec => []TypeOK
<1>1. Init => TypeOK
  BY InitType
<1>2. TypeOK /\ [Next]_vars => TypeOK'
  BY NextType
<1> QED BY <1>1, <1>2, PTL DEF Spec

-----------------------------------------------------------------------------
(***************************************************************************)
(* Agreement.  Each lemma takes one action through the nine parts; the     *)
(* parts an action leaves alone are proved from what it leaves unchanged.  *)
(***************************************************************************)
LEMMA PacketIsItsFields ==
  ASSUME NEW item \in PacketItem
  PROVE  /\ item = [client |-> item.client, n |-> item.n]
         /\ item.client \in Clients \union {Udp}
         /\ item.n \in 0..MaxPackets
BY DEF PacketItem

LEMMA InitAgrees == Init => Agreement
<1> SUFFICES ASSUME Init PROVE Agreement
  OBVIOUS
<1> USE ConnectionsAssumption DEF ConnectionsAssumption, Init, Feed!FeedInit
<1>1. ToSet(<<>>) = {} /\ IsInjective(<<>>)
  BY DEF ToSet, IsInjective
<1>2. WaitingIsUntouched /\ DroppedIsForgotten /\ ReadyAreClients
  BY <1>1 DEF WaitingIsUntouched, DroppedIsForgotten, ReadyAreClients
<1>3. RemovalsAreClients /\ AddsArePending /\ RemovesArePending
  BY <1>1 DEF RemovalsAreClients, AddsArePending, RemovesArePending
<1>4. PacketsArePending
  BY <1>1 DEF PacketsArePending
<1>5. PhaseEmptiesVectors /\ RemovedIsDropped
  BY DEF PhaseEmptiesVectors, RemovedIsDropped
<1> QED BY <1>2, <1>3, <1>4, <1>5 DEF Agreement

\* A step that changes none of the variables Agreement speaks of, except that
\* the worker may move on where no list restrains it.
LEMMA QuietAgrees ==
  ASSUME TypeOK, Agreement,
         UNCHANGED <<conn, clients, socketSet, ready, toRemove, read>>,
         UNCHANGED queueVars, UNCHANGED feedVars,
         wpc' = "tcp" \/ ready = {},
         wpc' \in {"tcp", "udp", "remove"} \/ toRemove = <<>>
  PROVE  Agreement'
<1> USE DEF Agreement, queueVars, feedVars
<1>1. WaitingIsUntouched' /\ DroppedIsForgotten'
  BY DEF WaitingIsUntouched, DroppedIsForgotten
<1>2. ReadyAreClients' /\ RemovalsAreClients'
  BY DEF ReadyAreClients, RemovalsAreClients
<1>3. AddsArePending' /\ RemovesArePending'
  BY DEF AddsArePending, RemovesArePending
<1>4. PacketsArePending'
  BY DEF PacketsArePending
<1>5. PhaseEmptiesVectors' /\ RemovedIsDropped'
  BY DEF PhaseEmptiesVectors, RemovedIsDropped
<1> QED BY <1>1, <1>2, <1>3, <1>4, <1>5

LEMMA AcceptAgrees ==
  ASSUME TypeOK, Agreement, wpc = "accept", wpc' = "check",
         NEW c \in Clients, conn[c] = "waiting",
         AddSocket(c), OnClientAdd(c),
         clients' = clients \union {c}, conn' = [conn EXCEPT ![c] = "accepted"],
         UNCHANGED <<ready, toRemove, read>>, UNCHANGED feedVars
  PROVE  Agreement'
<1>1. /\ phase = "idle"
      /\ clientsToAdd' = Append(clientsToAdd, c)
      /\ UNCHANGED <<clientsToRemove, packetsToProcess>>
  BY DEF OnClientAdd, MutexFree
<1>2. conn \in [Clients -> {"waiting", "accepted", "dropped"}] /\ clientsToAdd \in Seq(Clients)
  BY DEF TypeOK
<1>3. /\ status[c] = "unknown" /\ read[c] = 0
      /\ c \notin clients \union ready \union ToSet(toRemove)
  BY DEF Agreement, WaitingIsUntouched
<1>4. c \notin ToSet(clientsToAdd)
  BY DEF Agreement, AddsArePending
<1>5. ToSet(clientsToAdd') = ToSet(clientsToAdd) \union {c}
  BY <1>1, <1>2, ToSetAppend
<1>6. IsInjective(clientsToAdd')
  BY <1>1, <1>2, <1>4, InjectiveAppend DEF Agreement, AddsArePending
<1> USE DEF Agreement, feedVars
<1>7. WaitingIsUntouched'
  BY <1>2 DEF WaitingIsUntouched
<1>8. DroppedIsForgotten'
  BY <1>2 DEF DroppedIsForgotten, AddSocket
<1>9. ReadyAreClients' /\ RemovalsAreClients'
  BY DEF ReadyAreClients, RemovalsAreClients
<1>10. AddsArePending'
  BY <1>2, <1>3, <1>5, <1>6 DEF AddsArePending
<1>11. RemovesArePending'
  BY <1>1, <1>2 DEF RemovesArePending
<1>12. PacketsArePending'
  BY <1>1 DEF PacketsArePending
<1>13. PhaseEmptiesVectors' /\ RemovedIsDropped'
  BY <1>1, <1>2, <1>3 DEF PhaseEmptiesVectors, RemovedIsDropped
<1> QED BY <1>7, <1>8, <1>9, <1>10, <1>11, <1>12, <1>13

\* Reading packet number read[c] + 1: the newest of its client.
LEMMA ReadAgrees ==
  ASSUME TypeOK, Agreement, wpc = "tcp", UNCHANGED wpc,
         NEW c \in ready, read[c] + 1 \in 0..MaxPackets,
         ready' = ready \ {c}, read' = [read EXCEPT ![c] = @ + 1],
         OnPacketReceive([client |-> c, n |-> read[c] + 1]),
         UNCHANGED <<toRemove, conn, clients, socketSet>>, UNCHANGED feedVars
  PROVE  Agreement'
<1> DEFINE item == [client |-> c, n |-> read[c] + 1]
<1>1. c \in Clients /\ c \in clients /\ conn[c] = "accepted" /\ c # Udp
  BY ConnectionsAssumption
     DEF ConnectionsAssumption, TypeOK, Agreement, ReadyAreClients, DroppedIsForgotten,
         WaitingIsUntouched
<1>2. /\ phase = "idle"
      /\ packetsToProcess' = Append(packetsToProcess, item)
      /\ UNCHANGED <<clientsToAdd, clientsToRemove>>
  BY DEF OnPacketReceive, MutexFree
<1>3. /\ packetsToProcess \in Seq(PacketItem) /\ item \in PacketItem
      /\ read \in [Clients -> 0..MaxPackets] /\ handed \in [Clients -> 0..MaxPackets]
      /\ MaxPackets \in Nat
  BY <1>1, ConnectionsAssumption DEF ConnectionsAssumption, TypeOK, PacketItem, Feed!FeedTypeOK
<1>4. ToSet(packetsToProcess') = ToSet(packetsToProcess) \union {item}
  BY <1>2, <1>3, ToSetAppend
<1>5. ASSUME NEW i \in DOMAIN packetsToProcess, packetsToProcess[i].client = c
      PROVE  packetsToProcess[i].n < item.n
  <2>1. packetsToProcess[i] \in PacketItem /\ packetsToProcess[i] \in ToSet(packetsToProcess)
    BY <1>3 DEF ToSet
  <2>2. /\ packetsToProcess[i] = [client |-> c, n |-> packetsToProcess[i].n]
        /\ packetsToProcess[i].n \in 0..MaxPackets
    BY <1>5, <2>1, PacketIsItsFields
  <2>3. packetsToProcess[i].n <= read[c]
    BY <1>1, <2>1, <2>2 DEF Agreement, PacketsArePending
  <2> QED BY <1>1, <1>3, <2>2, <2>3
<1> USE DEF Agreement, feedVars
<1>6. WaitingIsUntouched' /\ DroppedIsForgotten' /\ ReadyAreClients' /\ RemovalsAreClients'
  BY <1>1, <1>3 DEF WaitingIsUntouched, DroppedIsForgotten, ReadyAreClients, RemovalsAreClients
<1>7. AddsArePending' /\ RemovesArePending'
  BY <1>2 DEF AddsArePending, RemovesArePending
<1>8. PacketsArePending'
  <2>1. ASSUME NEW i \in DOMAIN packetsToProcess', NEW j \in DOMAIN packetsToProcess', i < j,
               packetsToProcess'[i].client = packetsToProcess'[j].client,
               packetsToProcess'[i].client # Udp
        PROVE  packetsToProcess'[i].n < packetsToProcess'[j].n
    <3>1. i \in DOMAIN packetsToProcess /\ packetsToProcess'[i] = packetsToProcess[i]
      BY <1>2, <1>3, <2>1
    <3>2. CASE j \in DOMAIN packetsToProcess
      <4>1. packetsToProcess'[j] = packetsToProcess[j]
        BY <1>2, <1>3, <3>2
      <4> QED BY <2>1, <3>1, <3>2, <4>1 DEF PacketsArePending
    <3>3. CASE j \notin DOMAIN packetsToProcess
      <4>1. packetsToProcess'[j] = item
        BY <1>2, <1>3, <3>3
      <4>2. packetsToProcess[i].client = c
        BY <2>1, <3>1, <4>1
      <4> QED BY <1>5, <3>1, <4>1, <4>2
    <3> QED BY <3>2, <3>3
  <2>2. ASSUME NEW d \in Clients
        PROVE  handed'[d] <= read'[d]
    BY <1>1, <1>3, <2>2 DEF PacketsArePending
  <2>3. ASSUME NEW d \in Clients, NEW n \in 0..MaxPackets
        PROVE  [client |-> d, n |-> n] \in ToSet(packetsToProcess')
                 <=> handed'[d] < n /\ n <= read'[d]
    <3>1. [client |-> d, n |-> n] \in ToSet(packetsToProcess)
            <=> handed[d] < n /\ n <= read[d]
      BY DEF PacketsArePending
    <3>2. [client |-> d, n |-> n] = item <=> d = c /\ n = read[c] + 1
      OBVIOUS
    <3>3. handed[c] <= read[c]
      BY <1>1 DEF PacketsArePending
    <3> QED BY <1>1, <1>3, <1>4, <3>1, <3>2, <3>3
  <2> QED BY <2>1, <2>2, <2>3 DEF PacketsArePending
<1>9. PhaseEmptiesVectors' /\ RemovedIsDropped'
  BY <1>1, <1>2, <1>3 DEF PhaseEmptiesVectors, RemovedIsDropped
<1> QED BY <1>6, <1>7, <1>8, <1>9

\* A failed read puts its client on the worker's list, once.
LEMMA FailedReadAgrees ==
  ASSUME TypeOK, Agreement, wpc = "tcp", UNCHANGED wpc, NEW c \in ready,
         ready' = ready \ {c}, toRemove' = Append(toRemove, c),
         UNCHANGED <<read, conn, clients, socketSet>>,
         UNCHANGED queueVars, UNCHANGED feedVars
  PROVE  Agreement'
<1>1. c \in Clients /\ c \in clients /\ c \notin ToSet(toRemove) /\ toRemove \in Seq(Clients)
  BY DEF TypeOK, Agreement, ReadyAreClients
<1>2. conn[c] # "waiting"
  BY <1>1 DEF Agreement, WaitingIsUntouched
<1>3. ToSet(toRemove') = ToSet(toRemove) \union {c}
  BY <1>1, ToSetAppend
<1>4. IsInjective(toRemove')
  BY <1>1, InjectiveAppend DEF Agreement, RemovalsAreClients
<1> USE DEF Agreement, queueVars, feedVars
<1>5. WaitingIsUntouched' /\ DroppedIsForgotten'
  BY <1>2, <1>3 DEF WaitingIsUntouched, DroppedIsForgotten
<1>6. ReadyAreClients' /\ RemovalsAreClients'
  BY <1>1, <1>3, <1>4 DEF ReadyAreClients, RemovalsAreClients
<1>7. AddsArePending' /\ RemovesArePending'
  BY DEF AddsArePending, RemovesArePending
<1>8. PacketsArePending'
  BY DEF PacketsArePending
<1>9. PhaseEmptiesVectors' /\ RemovedIsDropped'
  BY DEF PhaseEmptiesVectors, RemovedIsDropped
<1> QED BY <1>5, <1>6, <1>7, <1>8, <1>9

LEMMA DatagramAgrees ==
  ASSUME TypeOK, Agreement, wpc = "udp", wpc' = "remove",
         OnPacketReceive([client |-> Udp, n |-> 0]),
         UNCHANGED <<conn, clients, socketSet, ready, toRemove, read>>, UNCHANGED feedVars
  PROVE  Agreement'
<1> DEFINE item == [client |-> Udp, n |-> 0]
<1>1. /\ packetsToProcess' = Append(packetsToProcess, item)
      /\ UNCHANGED <<clientsToAdd, clientsToRemove>>
  BY DEF OnPacketReceive
<1>2. packetsToProcess \in Seq(PacketItem) /\ item \in PacketItem
  BY ConnectionsAssumption DEF ConnectionsAssumption, TypeOK, PacketItem
<1>3. ToSet(packetsToProcess') = ToSet(packetsToProcess) \union {item}
  BY <1>1, <1>2, ToSetAppend
<1>4. \A c \in Clients : \A n \in 0..MaxPackets : [client |-> c, n |-> n] # item
  BY ConnectionsAssumption DEF ConnectionsAssumption
<1> USE DEF Agreement, feedVars
<1>5. WaitingIsUntouched' /\ DroppedIsForgotten' /\ ReadyAreClients' /\ RemovalsAreClients'
  BY DEF WaitingIsUntouched, DroppedIsForgotten, ReadyAreClients, RemovalsAreClients
<1>6. AddsArePending' /\ RemovesArePending'
  BY <1>1 DEF AddsArePending, RemovesArePending
<1>7. PacketsArePending'
  <2>1. ASSUME NEW i \in DOMAIN packetsToProcess', NEW j \in DOMAIN packetsToProcess', i < j,
               packetsToProcess'[i].client = packetsToProcess'[j].client,
               packetsToProcess'[i].client # Udp
        PROVE  packetsToProcess'[i].n < packetsToProcess'[j].n
    <3>1. j \in DOMAIN packetsToProcess
      BY <1>1, <1>2, <2>1
    <3>2. /\ i \in DOMAIN packetsToProcess
          /\ packetsToProcess'[i] = packetsToProcess[i]
          /\ packetsToProcess'[j] = packetsToProcess[j]
      BY <1>1, <1>2, <2>1, <3>1
    <3> QED BY <2>1, <3>1, <3>2 DEF PacketsArePending
  <2> QED BY <1>3, <1>4, <2>1 DEF PacketsArePending
<1>8. PhaseEmptiesVectors' /\ RemovedIsDropped'
  BY <1>1 DEF PhaseEmptiesVectors, RemovedIsDropped
<1> QED BY <1>5, <1>6, <1>7, <1>8

\* Removal of a client of the worker's list, from the front of _clientsToRemove
\* or, in Shutdown, of whoever is left.
LEMMA RemoveClientAgrees ==
  ASSUME TypeOK, Agreement, NEW c \in clients, RemoveClient(c),
         \/ wpc = "remove" /\ toRemove # <<>> /\ c = Head(toRemove) /\ toRemove' = Tail(toRemove)
         \/ wpc = "shutdown" /\ UNCHANGED toRemove,
         UNCHANGED feedVars
  PROVE  Agreement'
<1>1. /\ phase = "idle"
      /\ clientsToRemove' = Append(clientsToRemove, c)
      /\ UNCHANGED <<clientsToAdd, packetsToProcess>>
  BY DEF RemoveClient, OnClientRemove, MutexFree
<1>2. /\ socketSet' = socketSet \ {c} /\ clients' = clients \ {c}
      /\ conn' = [conn EXCEPT ![c] = "dropped"]
      /\ UNCHANGED <<wpc, ready, read>>
  BY DEF RemoveClient
<1>3. /\ c \in Clients /\ clientsToRemove \in Seq(Clients) /\ toRemove \in Seq(Clients)
      /\ conn \in [Clients -> {"waiting", "accepted", "dropped"}]
      /\ status \in [Clients -> {"unknown", "live", "draining", "gone"}]
  BY DEF TypeOK, Feed!FeedTypeOK, Feed!Statuses
<1>4. conn[c] = "accepted"
  BY <1>3 DEF Agreement, WaitingIsUntouched, DroppedIsForgotten
<1>5. status[c] \in {"unknown", "live"} /\ c \notin ToSet(clientsToRemove)
  BY <1>3, <1>4 DEF Agreement, RemovedIsDropped, RemovesArePending
<1>6. ToSet(clientsToRemove') = ToSet(clientsToRemove) \union {c}
  BY <1>1, <1>3, ToSetAppend
<1>7. IsInjective(clientsToRemove')
  BY <1>1, <1>3, <1>5, InjectiveAppend DEF Agreement, RemovesArePending
<1>8. ready = {}
  BY DEF Agreement, ReadyAreClients
<1>9. /\ ToSet(toRemove') \subseteq ToSet(toRemove) /\ c \notin ToSet(toRemove')
      /\ IsInjective(toRemove')
      /\ toRemove = <<>> => toRemove' = <<>>
  <2>1. CASE wpc = "remove" /\ toRemove # <<>> /\ c = Head(toRemove) /\ toRemove' = Tail(toRemove)
    BY <1>3, <2>1, ToSetTail, InjectiveTail DEF Agreement, RemovalsAreClients
  <2>2. CASE wpc = "shutdown" /\ UNCHANGED toRemove
    BY <1>3, <2>2, ToSetEmpty DEF Agreement, RemovalsAreClients
  <2> QED BY <2>1, <2>2
<1> USE DEF Agreement, feedVars
<1>10. WaitingIsUntouched' /\ DroppedIsForgotten'
  BY <1>2, <1>3, <1>9 DEF WaitingIsUntouched, DroppedIsForgotten
<1>11. ReadyAreClients' /\ RemovalsAreClients'
  BY <1>2, <1>8, <1>9 DEF ReadyAreClients, RemovalsAreClients
<1>12. AddsArePending'
  BY <1>1, <1>2, <1>3, <1>4 DEF AddsArePending
<1>13. RemovesArePending'
  BY <1>1, <1>2, <1>3, <1>5, <1>6, <1>7 DEF RemovesArePending
<1>14. PacketsArePending'
  BY <1>1, <1>2 DEF PacketsArePending
<1>15. PhaseEmptiesVectors' /\ RemovedIsDropped'
  BY <1>1, <1>2, <1>3 DEF PhaseEmptiesVectors, RemovedIsDropped
<1> QED BY <1>10, <1>11, <1>12, <1>13, <1>14, <1>15

LEMMA WorkerAgrees == TypeOK /\ Agreement /\ Worker => Agreement'
<1> SUFFICES ASSUME TypeOK, Agreement, Worker PROVE Agreement'
  OBVIOUS
<1>1. UNCHANGED feedVars
  BY DEF Worker
<1>2. (wpc # "tcp" => ready = {}) /\ (wpc \notin {"tcp", "udp", "remove"} => toRemove = <<>>)
  BY DEF Agreement, ReadyAreClients, RemovalsAreClients
<1>3. CASE InitializeWorker \/ ThreadWorkerLoop \/ CheckSockets
  <2>1. CASE CheckSockets
    <3>1. /\ ready' \subseteq clients /\ wpc' = "tcp" /\ toRemove = <<>>
          /\ UNCHANGED <<conn, clients, socketSet, toRemove, read>> /\ UNCHANGED queueVars
      BY <1>2, <2>1 DEF CheckSockets, NoCallback
    <3>2. ToSet(toRemove) = {} /\ clients \subseteq Clients
      BY <3>1, ToSetEmpty DEF TypeOK
    <3>3. ReadyAreClients'
      BY <3>1, <3>2 DEF ReadyAreClients
    <3>4. WaitingIsUntouched' /\ DroppedIsForgotten'
      BY <1>1, <3>1, <3>2 DEF Agreement, feedVars, WaitingIsUntouched, DroppedIsForgotten
    <3>5. RemovalsAreClients' /\ AddsArePending' /\ RemovesArePending'
      BY <1>1, <3>1
         DEF Agreement, feedVars, queueVars, RemovalsAreClients, AddsArePending, RemovesArePending
    <3>6. PacketsArePending' /\ PhaseEmptiesVectors' /\ RemovedIsDropped'
      BY <1>1, <3>1
         DEF Agreement, feedVars, queueVars, PacketsArePending, PhaseEmptiesVectors,
             RemovedIsDropped
    <3> QED BY <3>3, <3>4, <3>5, <3>6 DEF Agreement
  <2>2. CASE InitializeWorker \/ ThreadWorkerLoop
    BY <1>1, <1>2, <2>2, QuietAgrees DEF InitializeWorker, ThreadWorkerLoop, NoCallback
  <2> QED BY <1>3, <2>1, <2>2
<1>4. CASE CheckForNewClients
  <2>1. CASE NoCallback /\ UNCHANGED <<conn, clients, socketSet>>
    BY <1>1, <1>2, <1>4, <2>1, QuietAgrees DEF CheckForNewClients, NoCallback
  <2>2. CASE \E c \in Backlog :
               /\ AddSocket(c) /\ OnClientAdd(c)
               /\ clients' = clients \union {c} /\ conn' = [conn EXCEPT ![c] = "accepted"]
    BY <1>1, <1>4, <2>2, AcceptAgrees DEF CheckForNewClients, Backlog
  <2> QED BY <1>4, <2>1, <2>2 DEF CheckForNewClients
<1>5. CASE ProcessClientsTCP
  <2>1. CASE ready = {}
    BY <1>1, <1>5, <2>1, QuietAgrees DEF ProcessClientsTCP, NoCallback
  <2>2. ASSUME NEW c \in ready, ready' = ready \ {c}, CheckTCPSocket(c), UNCHANGED wpc
        PROVE  Agreement'
    <3>1. wpc = "tcp" /\ UNCHANGED <<conn, clients, socketSet>>
      BY <1>5 DEF ProcessClientsTCP
    <3>2. CASE /\ read[c] < sent[c]
               /\ read' = [read EXCEPT ![c] = @ + 1]
               /\ OnPacketReceive([client |-> c, n |-> read[c] + 1])
               /\ UNCHANGED toRemove
      <4>1. read[c] + 1 \in 0..MaxPackets
        BY <3>2, ConnectionsAssumption DEF ConnectionsAssumption, TypeOK
      <4> QED BY <1>1, <2>2, <3>1, <3>2, <4>1, ReadAgrees
    <3>3. CASE toRemove' = Append(toRemove, c) /\ NoCallback /\ UNCHANGED read
      BY <1>1, <2>2, <3>1, <3>3, FailedReadAgrees DEF NoCallback
    <3> QED BY <2>2, <3>2, <3>3 DEF CheckTCPSocket
  <2> QED BY <1>5, <2>1, <2>2 DEF ProcessClientsTCP
<1>6. CASE ProcessClientsUDP
  <2>1. CASE datagrams = 0
    BY <1>1, <1>2, <1>6, <2>1, QuietAgrees DEF ProcessClientsUDP, NoCallback
  <2>2. CASE OnPacketReceive([client |-> Udp, n |-> 0])
    BY <1>1, <1>6, <2>2, DatagramAgrees DEF ProcessClientsUDP
  <2> QED BY <1>6, <2>1, <2>2 DEF ProcessClientsUDP
<1>7. CASE ProcessClientsToRemove
  <2>1. CASE toRemove # <<>>
    <3>1. Head(toRemove) \in clients
      BY <2>1, ToSetTail DEF TypeOK, Agreement, RemovalsAreClients
    <3>2. RemoveClient(Head(toRemove)) /\ toRemove' = Tail(toRemove) /\ wpc = "remove"
      BY <1>7, <2>1 DEF ProcessClientsToRemove
    <3> QED BY <1>1, <2>1, <3>1, <3>2, RemoveClientAgrees
  <2>2. CASE toRemove = <<>>
    BY <1>1, <1>2, <1>7, <2>2, QuietAgrees DEF ProcessClientsToRemove, NoCallback
  <2> QED BY <2>1, <2>2
<1>8. CASE Shutdown
  <2>1. ASSUME NEW c \in clients, RemoveClient(c) PROVE Agreement'
    BY <1>1, <1>8, <2>1, RemoveClientAgrees DEF Shutdown
  <2>2. CASE NoCallback /\ UNCHANGED <<conn, clients, socketSet, ready, read>>
    BY <1>1, <1>2, <1>8, <2>2, QuietAgrees DEF Shutdown, NoCallback
  <2> QED BY <1>8, <2>1, <2>2 DEF Shutdown
<1> QED BY <1>3, <1>4, <1>5, <1>6, <1>7, <1>8 DEF Worker, WorkerButUdp

-----------------------------------------------------------------------------
(***************************************************************************)
(* Tick.  What Agreement says of the element at the front of a vector is   *)
(* also what makes the step one of ClientFeed's.                           *)
(***************************************************************************)
LEMMA HeadOfAdds ==
  ASSUME TypeOK, Agreement, clientsToAdd # <<>>
  PROVE  /\ Head(clientsToAdd) \in Clients
         /\ status[Head(clientsToAdd)] = "unknown"
         /\ conn[Head(clientsToAdd)] # "waiting"
         /\ ToSet(Tail(clientsToAdd)) = ToSet(clientsToAdd) \ {Head(clientsToAdd)}
         /\ IsInjective(Tail(clientsToAdd))
<1>1. clientsToAdd \in Seq(Clients)
  BY DEF TypeOK
<1>2. Head(clientsToAdd) \in Clients
  BY <1>1
<1>3. IsInjective(clientsToAdd)
  BY DEF Agreement, AddsArePending
<1>4. ToSet(clientsToAdd) = {Head(clientsToAdd)} \union ToSet(Tail(clientsToAdd))
  BY <1>1, ToSetTail
<1>5. IsInjective(Tail(clientsToAdd)) /\ Head(clientsToAdd) \notin ToSet(Tail(clientsToAdd))
  BY <1>1, <1>3, InjectiveTail
<1> QED BY <1>2, <1>4, <1>5 DEF Agreement, AddsArePending

LEMMA HeadOfRemoves ==
  ASSUME TypeOK, Agreement, clientsToRemove # <<>>, phase = "removes"
  PROVE  /\ Head(clientsToRemove) \in Clients
         /\ status[Head(clientsToRemove)] = "live"
         /\ conn[Head(clientsToRemove)] = "dropped"
         /\ ToSet(Tail(clientsToRemove)) = ToSet(clientsToRemove) \ {Head(clientsToRemove)}
         /\ IsInjective(Tail(clientsToRemove))
<1>1. clientsToRemove \in Seq(Clients)
  BY DEF TypeOK
<1>2. Head(clientsToRemove) \in Clients
  BY <1>1
<1>3. IsInjective(clientsToRemove)
  BY DEF Agreement, RemovesArePending
<1>4. ToSet(clientsToRemove) = {Head(clientsToRemove)} \union ToSet(Tail(clientsToRemove))
  BY <1>1, ToSetTail
<1>5. /\ IsInjective(Tail(clientsToRemove))
      /\ Head(clientsToRemove) \notin ToSet(Tail(clientsToRemove))
  BY <1>1, <1>3, InjectiveTail
<1>6. /\ conn[Head(clientsToRemove)] = "dropped"
      /\ status[Head(clientsToRemove)] \in {"unknown", "live"}
  BY <1>2, <1>4 DEF Agreement, RemovesArePending
<1>7. ToSet(clientsToAdd) = {}
  BY ToSetEmpty DEF TypeOK, Agreement, PhaseEmptiesVectors
<1>8. status[Head(clientsToRemove)] # "unknown"
  BY <1>2, <1>6, <1>7 DEF Agreement, AddsArePending
<1> QED BY <1>2, <1>4, <1>5, <1>6, <1>8

\* The packet in front is the next one of its client, and those behind it are
\* the ones that come after.
LEMMA HeadOfPackets ==
  ASSUME TypeOK, Agreement, packetsToProcess # <<>>,
         NEW c, NEW n, c = Head(packetsToProcess).client, n = Head(packetsToProcess).n,
         c # Udp
  PROVE  /\ c \in Clients /\ n \in 0..MaxPackets
         /\ n = handed[c] + 1 /\ n <= read[c]
         /\ \A m \in 0..MaxPackets :
              [client |-> c, n |-> m] \in ToSet(Tail(packetsToProcess)) <=> n < m /\ m <= read[c]
<1>1. /\ packetsToProcess \in Seq(PacketItem)
      /\ read \in [Clients -> 0..MaxPackets] /\ handed \in [Clients -> 0..MaxPackets]
      /\ MaxPackets \in Nat
  BY ConnectionsAssumption DEF ConnectionsAssumption, TypeOK, Feed!FeedTypeOK
<1>2. Head(packetsToProcess) \in PacketItem /\ Head(packetsToProcess) = packetsToProcess[1]
  BY <1>1
<1>3. /\ c \in Clients /\ n \in 0..MaxPackets
      /\ packetsToProcess[1] = [client |-> c, n |-> n]
  BY <1>2, PacketIsItsFields
<1>4. ToSet(packetsToProcess) = {packetsToProcess[1]} \union ToSet(Tail(packetsToProcess))
  BY <1>1, <1>2, ToSetTail
<1>5. handed[c] < n /\ n <= read[c]
  BY <1>3, <1>4 DEF Agreement, PacketsArePending
<1>6. ASSUME NEW m \in 0..MaxPackets, [client |-> c, n |-> m] \in ToSet(Tail(packetsToProcess))
      PROVE  n < m
  <2>1. PICK j \in DOMAIN Tail(packetsToProcess) :
               Tail(packetsToProcess)[j] = [client |-> c, n |-> m]
    BY <1>6 DEF ToSet
  <2>2. /\ j + 1 \in DOMAIN packetsToProcess /\ 1 \in DOMAIN packetsToProcess /\ 1 < j + 1
        /\ packetsToProcess[j + 1] = Tail(packetsToProcess)[j]
    BY <1>1, <2>1
  <2>3. packetsToProcess[j + 1].client = c /\ packetsToProcess[j + 1].n = m
    BY <2>1, <2>2
  <2>4. packetsToProcess[1].client = c /\ packetsToProcess[1].n = n
    BY <1>3
  <2> QED BY <2>2, <2>3, <2>4 DEF Agreement, PacketsArePending
<1>7. n = handed[c] + 1
  <2>1. handed[c] + 1 \in 0..MaxPackets
    BY <1>1, <1>3, <1>5
  <2>2. [client |-> c, n |-> handed[c] + 1] \in ToSet(packetsToProcess)
    BY <1>1, <1>3, <1>5, <2>1 DEF Agreement, PacketsArePending
  <2>3. CASE [client |-> c, n |-> handed[c] + 1] = packetsToProcess[1]
    BY <1>3, <2>3
  <2>4. CASE [client |-> c, n |-> handed[c] + 1] \in ToSet(Tail(packetsToProcess))
    BY <1>1, <1>3, <1>5, <1>6, <2>1, <2>4
  <2> QED BY <1>4, <2>2, <2>3, <2>4
<1>8. ASSUME NEW m \in 0..MaxPackets
      PROVE  [client |-> c, n |-> m] \in ToSet(Tail(packetsToProcess)) <=> n < m /\ m <= read[c]
  <2>1. [client |-> c, n |-> m] \in ToSet(packetsToProcess) <=> handed[c] < m /\ m <= read[c]
    BY <1>3 DEF Agreement, PacketsArePending
  <2>2. [client |-> c, n |-> m] = packetsToProcess[1] <=> m = n
    BY <1>3
  <2> QED BY <1>1, <1>3, <1>4, <1>5, <1>6, <2>1, <2>2
<1> QED BY <1>3, <1>5, <1>7, <1>8

LEMMA TickAddAgrees ==
  ASSUME TypeOK, Agreement, UNCHANGED workerVars, TickAdd
  PROVE  Agreement'
<1> DEFINE c == Head(clientsToAdd)
<1>1. /\ c \in Clients /\ status[c] = "unknown" /\ conn[c] # "waiting"
      /\ ToSet(clientsToAdd') = ToSet(clientsToAdd) \ {c}
      /\ IsInjective(clientsToAdd')
  BY HeadOfAdds DEF TickAdd
<1>2. /\ phase = "adds" /\ phase' = "adds"
      /\ status' = [status EXCEPT ![c] = "live"]
      /\ UNCHANGED <<clientsToRemove, packetsToProcess, handed>>
  BY DEF TickAdd
<1>3. status \in [Clients -> {"unknown", "live", "draining", "gone"}]
  BY DEF TypeOK, Feed!FeedTypeOK, Feed!Statuses
<1> HIDE DEF c
<1> USE DEF Agreement, workerVars
<1>4. WaitingIsUntouched' /\ DroppedIsForgotten' /\ ReadyAreClients' /\ RemovalsAreClients'
  BY <1>1, <1>2, <1>3
     DEF WaitingIsUntouched, DroppedIsForgotten, ReadyAreClients, RemovalsAreClients
<1>5. AddsArePending' /\ RemovesArePending'
  BY <1>1, <1>2, <1>3 DEF AddsArePending, RemovesArePending
<1>6. PacketsArePending'
  BY <1>2 DEF PacketsArePending
<1>7. PhaseEmptiesVectors' /\ RemovedIsDropped'
  BY <1>1, <1>2, <1>3 DEF PhaseEmptiesVectors, RemovedIsDropped
<1> QED BY <1>4, <1>5, <1>6, <1>7

LEMMA TickRemoveAgrees ==
  ASSUME TypeOK, Agreement, UNCHANGED workerVars, TickRemove
  PROVE  Agreement'
<1> DEFINE c == Head(clientsToRemove)
<1>1. /\ c \in Clients /\ status[c] = "live" /\ conn[c] = "dropped"
      /\ ToSet(clientsToRemove') = ToSet(clientsToRemove) \ {c}
      /\ IsInjective(clientsToRemove')
  BY HeadOfRemoves DEF TickRemove
<1>2. /\ phase = "removes" /\ phase' = "removes"
      /\ status' = [status EXCEPT ![c] = "draining"]
      /\ UNCHANGED <<clientsToAdd, packetsToProcess, handed>>
  BY DEF TickRemove
<1>3. status \in [Clients -> {"unknown", "live", "draining", "gone"}]
  BY DEF TypeOK, Feed!FeedTypeOK, Feed!Statuses
<1> HIDE DEF c
<1> USE DEF Agreement, workerVars
<1>4. WaitingIsUntouched' /\ DroppedIsForgotten' /\ ReadyAreClients' /\ RemovalsAreClients'
  BY <1>1, <1>2, <1>3
     DEF WaitingIsUntouched, DroppedIsForgotten, ReadyAreClients, RemovalsAreClients
<1>5. AddsArePending' /\ RemovesArePending'
  BY <1>1, <1>2, <1>3 DEF AddsArePending, RemovesArePending
<1>6. PacketsArePending'
  BY <1>2 DEF PacketsArePending
<1>7. PhaseEmptiesVectors' /\ RemovedIsDropped'
  BY <1>1, <1>2, <1>3 DEF PhaseEmptiesVectors, RemovedIsDropped
<1> QED BY <1>4, <1>5, <1>6, <1>7

LEMMA TickPacketAgrees ==
  ASSUME TypeOK, Agreement, UNCHANGED workerVars, TickPacket
  PROVE  Agreement'
<1> DEFINE item == Head(packetsToProcess)
<1>1. /\ packetsToProcess \in Seq(PacketItem) /\ packetsToProcess # <<>>
      /\ packetsToProcess' = Tail(packetsToProcess)
      /\ handed' = IF item.client = Udp THEN handed ELSE [handed EXCEPT ![item.client] = item.n]
      /\ phase = "packets"
      /\ UNCHANGED <<clientsToAdd, clientsToRemove, phase, status>>
  BY DEF TickPacket, TypeOK
<1>2. handed \in [Clients -> 0..MaxPackets] /\ read \in [Clients -> 0..MaxPackets]
  BY DEF TypeOK, Feed!FeedTypeOK
<1>3. ToSet(packetsToProcess) = {item} \union ToSet(packetsToProcess')
  BY <1>1, ToSetTail
<1>4. item \in PacketItem
  BY <1>1
<1> HIDE DEF item
<1> USE DEF Agreement, workerVars
<1>5. WaitingIsUntouched' /\ DroppedIsForgotten' /\ ReadyAreClients' /\ RemovalsAreClients'
  BY <1>1 DEF WaitingIsUntouched, DroppedIsForgotten, ReadyAreClients, RemovalsAreClients
<1>6. AddsArePending' /\ RemovesArePending'
  BY <1>1 DEF AddsArePending, RemovesArePending
<1>7. ASSUME NEW c \in Clients
      PROVE  /\ handed'[c] <= read[c]
             /\ \A n \in 0..MaxPackets :
                  [client |-> c, n |-> n] \in ToSet(packetsToProcess')
                    <=> handed'[c] < n /\ n <= read[c]
  <2>1. CASE item.client = c
    <3>1. c # Udp
      BY ConnectionsAssumption DEF ConnectionsAssumption
    <3>2. /\ item.n <= read[c]
          /\ \A m \in 0..MaxPackets :
               [client |-> c, n |-> m] \in ToSet(packetsToProcess') <=> item.n < m /\ m <= read[c]
      BY <1>1, <2>1, <3>1, HeadOfPackets DEF item
    <3>3. handed'[c] = item.n
      BY <1>1, <1>2, <2>1, <3>1
    <3> QED BY <3>2, <3>3
  <2>2. CASE item.client # c
    <3>1. handed'[c] = handed[c]
      BY <1>1, <1>2, <2>2
    <3>2. \A n \in 0..MaxPackets : [client |-> c, n |-> n] # item
      BY <2>2
    <3> QED BY <1>3, <3>1, <3>2 DEF PacketsArePending
  <2> QED BY <2>1, <2>2
<1>8. PacketsArePending'
  <2>1. ASSUME NEW i \in DOMAIN packetsToProcess', NEW j \in DOMAIN packetsToProcess', i < j,
               packetsToProcess'[i].client = packetsToProcess'[j].client,
               packetsToProcess'[i].client # Udp
        PROVE  packetsToProcess'[i].n < packetsToProcess'[j].n
    <3>1. /\ i + 1 \in DOMAIN packetsToProcess /\ j + 1 \in DOMAIN packetsToProcess
          /\ i + 1 < j + 1
          /\ packetsToProcess'[i] = packetsToProcess[i + 1]
          /\ packetsToProcess'[j] = packetsToProcess[j + 1]
      BY <1>1, <2>1
    <3> QED BY <2>1, <3>1 DEF PacketsArePending
  <2> QED BY <1>7, <2>1 DEF PacketsArePending
<1>9. PhaseEmptiesVectors'
  BY <1>1 DEF PhaseEmptiesVectors
<1>10. RemovedIsDropped'
  <2> SUFFICES ASSUME NEW c \in Clients, status[c] = "gone"
               PROVE  handed'[c] = read[c]
    BY <1>1 DEF RemovedIsDropped
  <2>1. handed[c] = read[c]
    BY DEF RemovedIsDropped
  <2>2. handed'[c] = handed[c] \/ handed'[c] = handed[c] + 1
    BY <1>1, <1>2, HeadOfPackets DEF item
  <2> QED BY <1>2, <1>7, <2>1, <2>2
<1> QED BY <1>5, <1>6, <1>8, <1>9, <1>10

\* When the last vector is empty everything read has been handed over, to the
\* clients removed in this batch as well.
LEMMA TickEndAgrees ==
  ASSUME TypeOK, Agreement, UNCHANGED workerVars, TickEnd
  PROVE  Agreement'
<1>1. /\ phase = "packets" /\ phase' = "idle"
      /\ status' = [c \in Clients |-> IF status[c] = "draining" THEN "gone" ELSE status[c]]
      /\ packetsToProcess = <<>>
      /\ UNCHANGED <<clientsToAdd, clientsToRemove, packetsToProcess, handed>>
  BY DEF TickEnd, Feed!EndBatch, queueVars
<1>2. /\ status \in [Clients -> {"unknown", "live", "draining", "gone"}]
      /\ handed \in [Clients -> 0..MaxPackets] /\ read \in [Clients -> 0..MaxPackets]
      /\ MaxPackets \in Nat
  BY ConnectionsAssumption
     DEF ConnectionsAssumption, TypeOK, Feed!FeedTypeOK, Feed!Statuses
<1>3. ToSet(packetsToProcess) = {}
  BY <1>1 DEF ToSet
<1>4. \A c \in Clients : handed[c] = read[c]
  BY <1>2, <1>3 DEF Agreement, PacketsArePending
<1> USE DEF Agreement, workerVars
<1>5. WaitingIsUntouched' /\ DroppedIsForgotten' /\ ReadyAreClients' /\ RemovalsAreClients'
  BY <1>1, <1>2 DEF WaitingIsUntouched, DroppedIsForgotten, ReadyAreClients, RemovalsAreClients
<1>6. AddsArePending' /\ RemovesArePending'
  BY <1>1, <1>2 DEF AddsArePending, RemovesArePending
<1>7. PacketsArePending'
  BY <1>1 DEF PacketsArePending
<1>8. PhaseEmptiesVectors' /\ RemovedIsDropped'
  BY <1>1, <1>2, <1>4 DEF PhaseEmptiesVectors, RemovedIsDropped
<1> QED BY <1>5, <1>6, <1>7, <1>8

\* TickBegin, TickAddsDone, TickRemovesDone: only the phase moves.
LEMMA PhaseAgrees ==
  ASSUME TypeOK, Agreement, UNCHANGED workerVars, UNCHANGED queueVars,
         UNCHANGED <<status, handed>>,
         \/ phase = "idle" /\ phase' = "adds"
         \/ phase = "adds" /\ phase' = "removes" /\ clientsToAdd = <<>>
         \/ phase = "removes" /\ phase' = "packets" /\ clientsToRemove = <<>>
  PROVE  Agreement'
<1> USE DEF Agreement, workerVars, queueVars
<1>1. WaitingIsUntouched' /\ DroppedIsForgotten' /\ ReadyAreClients' /\ RemovalsAreClients'
  BY DEF WaitingIsUntouched, DroppedIsForgotten, ReadyAreClients, RemovalsAreClients
<1>2. AddsArePending' /\ RemovesArePending' /\ PacketsArePending'
  BY DEF AddsArePending, RemovesArePending, PacketsArePending
<1>3. PhaseEmptiesVectors' /\ RemovedIsDropped'
  BY DEF PhaseEmptiesVectors, RemovedIsDropped
<1> QED BY <1>1, <1>2, <1>3

LEMMA TickAgrees == TypeOK /\ Agreement /\ Tick => Agreement'
<1> SUFFICES ASSUME TypeOK, Agreement, Tick PROVE Agreement'
  OBVIOUS
<1>1. UNCHANGED workerVars
  BY DEF Tick
<1>2. CASE TickBegin \/ TickAddsDone \/ TickRemovesDone
  BY <1>1, <1>2, PhaseAgrees
     DEF TickBegin, TickAddsDone, TickRemovesDone, Feed!BeginBatch, Feed!BeginRemoves,
         Feed!BeginPackets
<1>3. CASE TickAdd
  BY <1>1, <1>3, TickAddAgrees
<1>4. CASE TickRemove
  BY <1>1, <1>4, TickRemoveAgrees
<1>5. CASE TickPacket
  BY <1>1, <1>5, TickPacketAgrees
<1>6. CASE TickEnd
  BY <1>1, <1>6, TickEndAgrees
<1> QED BY <1>2, <1>3, <1>4, <1>5, <1>6 DEF Tick

LEMMA NextAgrees == TypeOK /\ Agreement /\ [Next]_vars => Agreement'
<1> SUFFICES ASSUME TypeOK, Agreement, [Next]_vars PROVE Agreement'
  OBVIOUS
<1>1. CASE Worker
  BY <1>1, WorkerAgrees
<1>2. CASE Tick
  BY <1>2, TickAgrees
<1>3. CASE Network \/ StopThread \/ Join \/ UNCHANGED vars
  <2>1. UNCHANGED workerVars /\ UNCHANGED queueVars /\ UNCHANGED feedVars
    BY <1>3 DEF Network, StopThread, Join, vars
  <2> QED BY <2>1, QuietAgrees
          DEF workerVars, Agreement, ReadyAreClients, RemovalsAreClients
<1> QED BY <1>1, <1>2, <1>3 DEF Next, Exited

\* The worker, the manager's vectors and the Server object agree about every
\* connection in every reachable state.
THEOREM AgreementHolds == Spec => []Agreement
<1>1. Init => Agreement
  BY InitAgrees
<1>2. TypeOK /\ Agreement /\ [Next]_vars => Agreement'
  BY NextAgrees
<1> QED BY <1>1, <1>2, TypeCorrect, PTL DEF Spec

-----------------------------------------------------------------------------
(***************************************************************************)
(* What Agreement gives.                                                   *)
(***************************************************************************)
LEMMA NextFlag ==
  TypeOK /\ Agreement /\ FlagCoversQueues /\ [Next]_vars => FlagCoversQueues'
<1> SUFFICES ASSUME TypeOK, Agreement, FlagCoversQueues, [Next]_vars PROVE FlagCoversQueues'
  OBVIOUS
<1> USE DEF FlagCoversQueues
<1>1. CASE NoCallback
  BY <1>1 DEF NoCallback, queueVars
<1>2. CASE hasItems' = TRUE
  BY <1>2
<1>3. CASE Worker
  BY <1>1, <1>2, <1>3
     DEF Worker, WorkerButUdp, InitializeWorker, ThreadWorkerLoop, CheckForNewClients,
         CheckSockets, ProcessClientsTCP, CheckTCPSocket, ProcessClientsUDP,
         ProcessClientsToRemove, RemoveClient, Shutdown, OnClientAdd, OnClientRemove,
         OnPacketReceive
<1>4. CASE TickBegin \/ TickAddsDone \/ TickRemovesDone
  BY <1>4 DEF TickBegin, TickAddsDone, TickRemovesDone, queueVars
<1>5. CASE TickAdd \/ TickRemove \/ TickPacket
  BY <1>5 DEF TickAdd, TickRemove, TickPacket
<1>6. CASE TickEnd
  \* By now the two earlier vectors are empty too, and no callback came between.
  BY <1>6 DEF TickEnd, Feed!EndBatch, queueVars, Agreement, PhaseEmptiesVectors
<1>7. CASE Network \/ StopThread \/ Join \/ UNCHANGED vars
  BY <1>7 DEF Network, StopThread, Join, vars, queueVars
<1> QED BY <1>3, <1>4, <1>5, <1>6, <1>7 DEF Next, Tick, Exited

\* A Tick that finds the flag clear, without the lock, misses nothing: TickEnd
\* clears it only over three empty vectors.
THEOREM FlagCorrect == Spec => []FlagCoversQueues
<1>1. Init => FlagCoversQueues
  BY DEF Init, FlagCoversQueues
<1>2. TypeOK /\ Agreement /\ FlagCoversQueues /\ [Next]_vars => FlagCoversQueues'
  BY NextFlag
<1> QED BY <1>1, <1>2, TypeCorrect, AgreementHolds, PTL DEF Spec

LEMMA AgreementLeavesNothing == TypeOK /\ Agreement => GoneLeavesNothing
<1> SUFFICES ASSUME TypeOK, Agreement, NEW c \in Clients, status[c] = "gone"
             PROVE  /\ c \notin socketSet
                    /\ c \notin clients \union ready \union ToSet(toRemove)
                    /\ \A item \in ToSet(packetsToProcess) : item.client # c
  BY DEF GoneLeavesNothing
<1>1. conn[c] = "dropped" /\ handed[c] = read[c]
  BY DEF Agreement, RemovedIsDropped
<1>2. c \notin clients /\ c \notin socketSet
  BY <1>1 DEF Agreement, DroppedIsForgotten
<1>3. c \notin ready \union ToSet(toRemove)
  BY <1>2 DEF Agreement, ReadyAreClients, RemovalsAreClients
<1>4. ASSUME NEW item \in ToSet(packetsToProcess), item.client = c
      PROVE  FALSE
  <2>1. item \in PacketItem
    BY DEF ToSet, TypeOK
  <2>2. item.n \in 0..MaxPackets /\ [client |-> c, n |-> item.n] \in ToSet(packetsToProcess)
    BY <1>4, <2>1, PacketIsItsFields
  <2>3. handed[c] < item.n /\ item.n <= read[c]
    BY <2>2 DEF Agreement, PacketsArePending
  <2> QED BY <1>1, <2>2, <2>3, ConnectionsAssumption
          DEF ConnectionsAssumption, TypeOK, Feed!FeedTypeOK
<1> QED BY <1>2, <1>3, <1>4

\* After the batch that told the server of a removal, nothing of the connection
\* is left: no socket in the set, no entry in the worker, no packet to come.
THEOREM NothingLeft == Spec => []GoneLeavesNothing
<1>1. TypeOK /\ Agreement => GoneLeavesNothing
  BY AgreementLeavesNothing
<1> QED BY <1>1, TypeCorrect, AgreementHolds, PTL

-----------------------------------------------------------------------------
(***************************************************************************)
(* Refinement: every step is one of ClientFeed's or leaves feedVars alone. *)
(***************************************************************************)
LEMMA StepRefines == TypeOK /\ Agreement /\ [Next]_vars => [Feed!FeedNext]_(Feed!feedVars)
<1> SUFFICES ASSUME TypeOK, Agreement, [Next]_vars
             PROVE  Feed!FeedNext \/ UNCHANGED Feed!feedVars
  OBVIOUS
<1>1. CASE Network \/ Worker \/ StopThread \/ Join \/ UNCHANGED vars
  BY <1>1 DEF Network, Worker, StopThread, Join, vars, feedVars, Feed!feedVars
<1>2. CASE TickBegin \/ TickAddsDone \/ TickRemovesDone \/ TickEnd
  BY <1>2 DEF TickBegin, TickAddsDone, TickRemovesDone, TickEnd, Feed!FeedNext
<1>3. CASE TickAdd
  <2>1. Head(clientsToAdd) \in Clients /\ Feed!HandAdd(Head(clientsToAdd))
    BY <1>3, HeadOfAdds DEF TickAdd, Feed!HandAdd
  <2> QED BY <2>1 DEF Feed!FeedNext
<1>4. CASE TickRemove
  <2>1. Head(clientsToRemove) \in Clients /\ Feed!HandRemove(Head(clientsToRemove))
    BY <1>4, HeadOfRemoves DEF TickRemove, Feed!HandRemove
  <2> QED BY <2>1 DEF Feed!FeedNext
<1>5. CASE TickPacket
  <2> DEFINE c == Head(packetsToProcess).client
  <2>1. CASE c = Udp
    BY <1>5, <2>1 DEF TickPacket, Feed!feedVars
  <2>2. CASE c # Udp
    <3>1. /\ c \in Clients /\ Head(packetsToProcess).n \in 0..MaxPackets
          /\ Head(packetsToProcess).n = handed[c] + 1
          /\ handed[c] + 1 <= read[c]
      BY <1>5, <2>2, HeadOfPackets DEF TickPacket
    <3>2. /\ handed \in [Clients -> 0..MaxPackets] /\ MaxPackets \in Nat
          /\ read \in [Clients -> 0..MaxPackets]
          /\ status \in [Clients -> {"unknown", "live", "draining", "gone"}]
      BY ConnectionsAssumption
         DEF ConnectionsAssumption, TypeOK, Feed!FeedTypeOK, Feed!Statuses
    <3>3. phase = "packets" /\ handed' = [handed EXCEPT ![c] = handed[c] + 1]
          /\ UNCHANGED <<phase, status>>
      BY <1>5, <2>2, <3>1 DEF TickPacket
    <3>4. clientsToAdd = <<>>
      BY <3>3 DEF Agreement, PhaseEmptiesVectors
    <3>5. c \notin ToSet(clientsToAdd)
      BY <3>4 DEF ToSet
    <3>6. conn[c] # "waiting"
      BY <3>1, <3>2 DEF Agreement, WaitingIsUntouched
    <3>7. status[c] # "unknown"
      BY <3>1, <3>5, <3>6 DEF Agreement, AddsArePending
    <3>8. status[c] # "gone"
      BY <3>1, <3>2 DEF Agreement, RemovedIsDropped
    <3>9. Feed!HandPacket(c)
      BY <3>1, <3>2, <3>3, <3>7, <3>8 DEF Feed!HandPacket
    <3> QED BY <3>1, <3>9 DEF Feed!FeedNext
  <2> QED BY <2>1, <2>2
<1> QED BY <1>1, <1>2, <1>3, <1>4, <1>5 DEF Next, Tick, Exited

\* The connection layer keeps ClientFeed's promise to the Server object.
THEOREM Refinement == Spec => ImplementsFeed
<1>1. Init => Feed!FeedInit
  BY DEF Init
<1>2. TypeOK /\ Agreement /\ [Next]_vars => [Feed!FeedNext]_(Feed!feedVars)
  BY StepRefines
<1> QED BY <1>1, <1>2, TypeCorrect, AgreementHolds, PTL DEF Spec, ImplementsFeed, Feed!FeedSpec
=============================================================================

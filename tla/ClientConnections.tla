-------------------------- MODULE ClientConnections --------------------------
(***************************************************************************)
(* The server's connection layer: the worker thread that owns the sockets  *)
(* (ClientConnectionManagerWorker), the three vectors it fills under       *)
(* _itemsMutex, and the main thread that empties them in Tick.             *)
(*                                                                         *)
(* The mutex is not a variable: a worker callback is one step that needs   *)
(* it free, and Tick holds it exactly while phase # "idle".  The feed      *)
(* variables (phase, status, handed) record what the Server object has     *)
(* been told; the detailed specification implements ClientFeed.            *)
(***************************************************************************)
EXTENDS Naturals, Sequences, FiniteSets, SequencesExt

CONSTANTS Clients,         \* every connection ever made to the server
          MaxPackets,      \* bound: TCP packets one client sends
          MaxDatagrams,    \* bound: UDP datagrams sent to the server
          SocketSetSize,   \* capacity of _tcpSocketSet
          Udp              \* the null client of a packet that came over UDP

ASSUME ConnectionsAssumption ==
  /\ MaxPackets \in Nat
  /\ MaxDatagrams \in Nat
  /\ SocketSetSize \in Nat
  /\ Udp \notin Clients

VARIABLES
  peer,              \* the remote end of each connection
  sent,              \* TCP packets each remote end has written
  datagrams,         \* UDP datagrams in flight, not yet lost or received
  datagramsSent,     \* UDP datagrams sent so far
  wpc,               \* where the worker thread is in ThreadWorker
  conn,              \* what the worker did with each connection
  clients,           \* _clients; no property depends on the list's order
  socketSet,         \* clients whose socket is in _tcpSocketSet
  ready,             \* clients whose ready socket this pass has not visited
  toRemove,          \* the worker's own _clientsToRemove
  read,              \* TCP packets the worker has read from each client
  runThread,         \* _runThread
  clientsToAdd, clientsToRemove, packetsToProcess,   \* the manager's vectors
  hasItems,          \* _hasItemsToProcess
  main,              \* the main thread: MainLoop, StopThread, after the join
  phase, status, handed                              \* see ClientFeed

netVars    == <<peer, sent, datagrams, datagramsSent>>
workerVars == <<wpc, conn, clients, socketSet, ready, toRemove, read>>
queueVars  == <<clientsToAdd, clientsToRemove, packetsToProcess>>
feedVars   == <<phase, status, handed>>
vars == <<netVars, workerVars, queueVars, hasItems, feedVars, main, runThread>>

Feed == INSTANCE ClientFeed
  WITH Clients <- Clients, MaxPackets <- MaxPackets,
       phase <- phase, status <- status, handed <- handed

PacketItem == [client : Clients \union {Udp}, n : 0..MaxPackets]

TypeOK ==
  /\ peer \in [Clients -> {"none", "open", "closed", "reset"}]
  /\ sent \in [Clients -> 0..MaxPackets]
  /\ datagrams \in 0..datagramsSent
  /\ datagramsSent \in 0..MaxDatagrams
  /\ wpc \in {"start", "loop", "accept", "check", "tcp", "udp", "remove",
              "shutdown", "stopped"}
  /\ conn \in [Clients -> {"waiting", "accepted", "dropped"}]
  /\ clients \in SUBSET Clients
  /\ socketSet \in SUBSET Clients
  /\ ready \in SUBSET Clients
  /\ toRemove \in Seq(Clients)
  /\ read \in [Clients -> 0..MaxPackets]
  /\ runThread \in BOOLEAN
  /\ clientsToAdd \in Seq(Clients)
  /\ clientsToRemove \in Seq(Clients)
  /\ packetsToProcess \in Seq(PacketItem)
  /\ hasItems \in BOOLEAN
  /\ main \in {"loop", "stopping", "joined"}
  /\ Feed!FeedTypeOK

Init ==
  /\ peer = [c \in Clients |-> "none"]
  /\ sent = [c \in Clients |-> 0]
  /\ datagrams = 0
  /\ datagramsSent = 0
  /\ wpc = "start"
  /\ conn = [c \in Clients |-> "waiting"]
  /\ clients = {}
  /\ socketSet = {}
  /\ ready = {}
  /\ toRemove = <<>>
  /\ read = [c \in Clients |-> 0]
  /\ runThread = TRUE
  /\ clientsToAdd = <<>>
  /\ clientsToRemove = <<>>
  /\ packetsToProcess = <<>>
  /\ hasItems = FALSE
  /\ main = "loop"
  /\ Feed!FeedInit

-----------------------------------------------------------------------------
(***************************************************************************)
(* The network and the remote ends.                                        *)
(***************************************************************************)
Connect(c) ==
  /\ peer[c] = "none"
  /\ peer' = [peer EXCEPT ![c] = "open"]
  /\ UNCHANGED <<sent, datagrams, datagramsSent>>

SendTcp(c) ==
  /\ peer[c] = "open"
  /\ sent[c] < MaxPackets
  /\ sent' = [sent EXCEPT ![c] = @ + 1]
  /\ UNCHANGED <<peer, datagrams, datagramsSent>>

\* An orderly close leaves what was written readable; a reset discards it.
HangUp(c) ==
  /\ peer[c] = "open"
  /\ \E how \in {"closed", "reset"} : peer' = [peer EXCEPT ![c] = how]
  /\ UNCHANGED <<sent, datagrams, datagramsSent>>

SendUdp ==
  /\ datagramsSent < MaxDatagrams
  /\ datagramsSent' = datagramsSent + 1
  /\ datagrams' = datagrams + 1
  /\ UNCHANGED <<peer, sent>>

LoseUdp ==
  /\ datagrams > 0
  /\ datagrams' = datagrams - 1
  /\ UNCHANGED <<peer, sent, datagramsSent>>

Network ==
  /\ \/ SendUdp \/ LoseUdp
     \/ \E c \in Clients : Connect(c) \/ SendTcp(c) \/ HangUp(c)
  /\ UNCHANGED <<workerVars, queueVars, hasItems, feedVars, main, runThread>>

-----------------------------------------------------------------------------
(***************************************************************************)
(* The callbacks the worker calls: one critical section of _itemsMutex.    *)
(***************************************************************************)
MutexFree == phase = "idle"

OnClientAdd(c) ==
  /\ MutexFree
  /\ clientsToAdd' = Append(clientsToAdd, c)
  /\ hasItems' = TRUE
  /\ UNCHANGED <<clientsToRemove, packetsToProcess>>

\* Faulty variant: the flag is left to the other callbacks.
OnClientRemoveUnflagged(c) ==
  /\ MutexFree
  /\ clientsToRemove' = Append(clientsToRemove, c)
  /\ UNCHANGED <<clientsToAdd, packetsToProcess, hasItems>>

\* Faulty variant: a client that leaves before Tick announced it is no longer
\* announced, but its removal is.
OnClientRemoveUnannounced(c) ==
  /\ MutexFree
  /\ clientsToAdd' = Remove(clientsToAdd, c)
  /\ clientsToRemove' = Append(clientsToRemove, c)
  /\ hasItems' = TRUE
  /\ UNCHANGED packetsToProcess

OnClientRemove(c) ==
  /\ MutexFree
  /\ clientsToRemove' = Append(clientsToRemove, c)
  /\ hasItems' = TRUE
  /\ UNCHANGED <<clientsToAdd, packetsToProcess>>

\* Faulty variant: the flag is left to the other callbacks.
OnPacketReceiveUnflagged(item) ==
  /\ MutexFree
  /\ packetsToProcess' = Append(packetsToProcess, item)
  /\ UNCHANGED <<clientsToAdd, clientsToRemove, hasItems>>

OnPacketReceive(item) ==
  /\ MutexFree
  /\ packetsToProcess' = Append(packetsToProcess, item)
  /\ hasItems' = TRUE
  /\ UNCHANGED <<clientsToAdd, clientsToRemove>>

NoCallback == UNCHANGED <<queueVars, hasItems>>

-----------------------------------------------------------------------------
(***************************************************************************)
(* The worker thread.                                                      *)
(***************************************************************************)

\* Any of CreateTCP, CreateUDP, SDLNet_AllocSocketSet may fail; the thread
\* then returns and the server runs on without a network.
InitializeWorker ==
  /\ wpc = "start"
  /\ wpc' \in {"loop", "stopped"}
  /\ NoCallback
  /\ UNCHANGED <<conn, clients, socketSet, ready, toRemove, read>>

\* while (_runThread), else Shutdown.
ThreadWorkerLoop ==
  /\ wpc = "loop"
  /\ wpc' = IF runThread THEN "accept" ELSE "shutdown"
  /\ NoCallback
  /\ UNCHANGED <<conn, clients, socketSet, ready, toRemove, read>>

\* A full socket set refuses the socket; the result is not looked at.
AddSocket(c) ==
  socketSet' = IF Cardinality(socketSet) < SocketSetSize
                 THEN socketSet \union {c}
                 ELSE socketSet

Backlog == {c \in Clients : peer[c] # "none" /\ conn[c] = "waiting"}

CheckForNewClients ==
  /\ wpc = "accept"
  /\ wpc' = "check"
  /\ \/ /\ Backlog = {}
        /\ NoCallback
        /\ UNCHANGED <<conn, clients, socketSet>>
     \/ \E c \in Backlog :
          /\ AddSocket(c)
          /\ OnClientAdd(c)
          /\ clients' = clients \union {c}
          /\ conn' = [conn EXCEPT ![c] = "accepted"]
  /\ UNCHANGED <<ready, toRemove, read>>

SocketReady(c) ==
  /\ c \in socketSet
  /\ read[c] < sent[c] \/ peer[c] \in {"closed", "reset"}

\* SDLNet_CheckSockets marks the ready sockets once for the whole pass.
CheckSockets ==
  /\ wpc = "check"
  /\ wpc' = "tcp"
  /\ ready' = {c \in clients : SocketReady(c)}
  /\ NoCallback
  /\ UNCHANGED <<conn, clients, socketSet, toRemove, read>>

\* CheckTCPSocket on one client: a packet, or failure when the connection is
\* gone; only a failure puts it on the list of those to remove.
CheckTCPSocket(c) ==
  \/ /\ peer[c] # "reset" /\ read[c] < sent[c]
     /\ read' = [read EXCEPT ![c] = @ + 1]
     /\ OnPacketReceive([client |-> c, n |-> read[c] + 1])
     /\ UNCHANGED toRemove
  \/ /\ peer[c] = "reset" \/ read[c] = sent[c]
     /\ toRemove' = Append(toRemove, c)
     /\ NoCallback
     /\ UNCHANGED read

ProcessClientsTCP ==
  /\ wpc = "tcp"
  /\ \/ /\ ready = {}
        /\ wpc' = "udp"
        /\ NoCallback
        /\ UNCHANGED <<ready, toRemove, read>>
     \/ \E c \in ready :
          /\ ready' = ready \ {c}
          /\ CheckTCPSocket(c)
          /\ UNCHANGED wpc
  /\ UNCHANGED <<conn, clients, socketSet>>

\* Faulty variant: CheckUDPSocket reports a packet when there is none.
ProcessClientsUDPUnchecked ==
  /\ wpc = "udp"
  /\ wpc' = "remove"
  /\ datagrams' = datagrams - 1
  /\ OnPacketReceive([client |-> Udp, n |-> 0])
  /\ UNCHANGED <<conn, clients, socketSet, ready, toRemove, read>>

ProcessClientsUDP ==
  /\ wpc = "udp"
  /\ wpc' = "remove"
  /\ \/ /\ datagrams = 0
        /\ NoCallback
        /\ UNCHANGED datagrams
     \/ /\ datagrams > 0
        /\ datagrams' = datagrams - 1
        /\ OnPacketReceive([client |-> Udp, n |-> 0])
  /\ UNCHANGED <<conn, clients, socketSet, ready, toRemove, read>>

\* Faulty variant: without SDLNet_TCP_DelSocket.
RemoveClientKeepsSocket(c) ==
  /\ OnClientRemove(c)
  /\ clients' = clients \ {c}
  /\ conn' = [conn EXCEPT ![c] = "dropped"]
  /\ UNCHANGED <<wpc, socketSet, ready, read>>

\* Callback, SDLNet_TCP_DelSocket, Disconnect and erasure of one client.
RemoveClient(c) ==
  /\ OnClientRemove(c)
  /\ socketSet' = socketSet \ {c}
  /\ clients' = clients \ {c}
  /\ conn' = [conn EXCEPT ![c] = "dropped"]
  /\ UNCHANGED <<wpc, ready, read>>

ProcessClientsToRemove ==
  /\ wpc = "remove"
  /\ \/ /\ toRemove # <<>>
        /\ RemoveClient(Head(toRemove))
        /\ toRemove' = Tail(toRemove)
     \/ /\ toRemove = <<>>
        /\ wpc' = "loop"
        /\ NoCallback
        /\ UNCHANGED <<conn, clients, socketSet, ready, toRemove, read>>

\* Faulty variant: Shutdown forgets the clients that did not hang up.
ShutdownForgets ==
  /\ wpc = "shutdown"
  /\ wpc' = "stopped"
  /\ NoCallback
  /\ UNCHANGED <<conn, clients, socketSet, ready, toRemove, read>>

\* Every client left is queued for removal and removed.
Shutdown ==
  /\ wpc = "shutdown"
  /\ \/ \E c \in clients : RemoveClient(c)
     \/ /\ clients = {}
        /\ wpc' = "stopped"
        /\ NoCallback
        /\ UNCHANGED <<conn, clients, socketSet, ready, read>>
  /\ UNCHANGED toRemove

WorkerButUdp ==
  /\ \/ InitializeWorker \/ ThreadWorkerLoop \/ CheckForNewClients
     \/ CheckSockets \/ ProcessClientsTCP
     \/ ProcessClientsToRemove \/ Shutdown
  /\ UNCHANGED datagrams

Worker ==
  /\ WorkerButUdp \/ ProcessClientsUDP
  /\ UNCHANGED <<peer, sent, datagramsSent, feedVars, main, runThread>>

-----------------------------------------------------------------------------
(***************************************************************************)
(* The main thread: Tick, one vector element at a time, and shutdown.      *)
(***************************************************************************)

\* Tick returns without the lock when the flag is clear.
TickBegin ==
  /\ main = "loop"
  /\ hasItems
  /\ Feed!BeginBatch
  /\ UNCHANGED <<queueVars, hasItems>>

TickAdd ==
  /\ clientsToAdd # <<>>
  /\ phase = "adds"
  /\ status' = [status EXCEPT ![Head(clientsToAdd)] = "live"]
  /\ clientsToAdd' = Tail(clientsToAdd)
  /\ UNCHANGED <<clientsToRemove, packetsToProcess, hasItems, phase, handed>>

TickAddsDone ==
  /\ clientsToAdd = <<>>
  /\ Feed!BeginRemoves
  /\ UNCHANGED <<queueVars, hasItems>>

TickRemove ==
  /\ clientsToRemove # <<>>
  /\ phase = "removes"
  /\ status' = [status EXCEPT ![Head(clientsToRemove)] = "draining"]
  /\ clientsToRemove' = Tail(clientsToRemove)
  /\ UNCHANGED <<clientsToAdd, packetsToProcess, hasItems, phase, handed>>

TickRemovesDone ==
  /\ clientsToRemove = <<>>
  /\ Feed!BeginPackets
  /\ UNCHANGED <<queueVars, hasItems>>

TickPacket ==
  /\ packetsToProcess # <<>>
  /\ phase = "packets"
  /\ packetsToProcess' = Tail(packetsToProcess)
  /\ LET item == Head(packetsToProcess) IN
       handed' = IF item.client = Udp THEN handed
                 ELSE [handed EXCEPT ![item.client] = item.n]
  /\ UNCHANGED <<clientsToAdd, clientsToRemove, hasItems, phase, status>>

TickEnd ==
  /\ packetsToProcess = <<>>
  /\ Feed!EndBatch
  /\ hasItems' = FALSE
  /\ UNCHANGED queueVars

Tick ==
  /\ \/ TickBegin \/ TickAdd \/ TickAddsDone \/ TickRemove \/ TickRemovesDone
     \/ TickPacket \/ TickEnd
  /\ UNCHANGED <<netVars, workerVars, main, runThread>>

\* The main loop sees _shouldQuit between two Ticks; Shutdown stops the worker.
StopThread ==
  /\ main = "loop"
  /\ phase = "idle"
  /\ main' = "stopping"
  /\ runThread' = FALSE
  /\ UNCHANGED <<netVars, workerVars, queueVars, hasItems, feedVars>>

Join ==
  /\ main = "stopping"
  /\ wpc = "stopped"
  /\ main' = "joined"
  /\ UNCHANGED <<netVars, workerVars, queueVars, hasItems, feedVars, runThread>>

Exited == main = "joined" /\ UNCHANGED vars

Next == Network \/ Worker \/ Tick \/ StopThread \/ Join \/ Exited

\* Both threads run: neither loop sleeps or waits for anything but the mutex.
Fairness == WF_vars(Worker) /\ WF_vars(Tick) /\ WF_vars(Join)

Spec == Init /\ [][Next]_vars /\ Fairness

-----------------------------------------------------------------------------
(***************************************************************************)
(* Properties.                                                             *)
(***************************************************************************)
\* Tick looks at the flag without the lock and returns when it is clear, so a
\* clear flag over a filled vector would leave a client unserved until some
\* other client happens to cause traffic.
FlagCoversQueues ==
  hasItems \/ (clientsToAdd = <<>> /\ clientsToRemove = <<>> /\ packetsToProcess = <<>>)

\* The same connection as the worker, the vectors and the server see it.
WaitingIsUntouched ==
  \A c \in Clients : conn[c] = "waiting" =>
    /\ status[c] = "unknown"
    /\ read[c] = 0
    /\ c \notin clients \union ready \union ToSet(toRemove)

DroppedIsForgotten ==
  /\ \A c \in Clients : conn[c] = "dropped" => c \notin clients
  /\ socketSet \subseteq clients

ReadyAreClients ==
  /\ ready \subseteq clients
  /\ wpc # "tcp" => ready = {}
  /\ \A c \in ready : c \notin ToSet(toRemove)

RemovalsAreClients ==
  /\ ToSet(toRemove) \subseteq clients
  /\ IsInjective(toRemove)
  /\ wpc \notin {"tcp", "udp", "remove"} => toRemove = <<>>

\* A client waits to be added, or removed, exactly when the worker is past the
\* callback and the server is not, and then only once.
AddsArePending ==
  /\ IsInjective(clientsToAdd)
  /\ \A c \in Clients :
       c \in ToSet(clientsToAdd) <=> conn[c] # "waiting" /\ status[c] = "unknown"

RemovesArePending ==
  /\ IsInjective(clientsToRemove)
  /\ \A c \in Clients :
       c \in ToSet(clientsToRemove)
         <=> conn[c] = "dropped" /\ status[c] \in {"unknown", "live"}

\* Queued are exactly the packets read and not yet handed over, oldest first.
PacketsArePending ==
  /\ \A i, j \in DOMAIN packetsToProcess :
       i < j /\ packetsToProcess[i].client = packetsToProcess[j].client
             /\ packetsToProcess[i].client # Udp
         => packetsToProcess[i].n < packetsToProcess[j].n
  /\ \A c \in Clients :
       /\ handed[c] <= read[c]
       /\ \A n \in 0..MaxPackets :
            [client |-> c, n |-> n] \in ToSet(packetsToProcess)
              <=> handed[c] < n /\ n <= read[c]

PhaseEmptiesVectors ==
  /\ phase \in {"removes", "packets"} => clientsToAdd = <<>>
  /\ phase = "packets" => clientsToRemove = <<>>
  /\ phase \in {"idle", "adds"} => \A c \in Clients : status[c] # "draining"

RemovedIsDropped ==
  \A c \in Clients :
    /\ status[c] \in {"draining", "gone"} => conn[c] = "dropped"
    /\ status[c] = "gone" => handed[c] = read[c]

\* The worker, the vectors and the server agree about every connection: the
\* invariant by which the connection layer keeps ClientFeed's promise.
Agreement ==
  /\ WaitingIsUntouched
  /\ DroppedIsForgotten
  /\ ReadyAreClients
  /\ RemovalsAreClients
  /\ AddsArePending
  /\ RemovesArePending
  /\ PacketsArePending
  /\ PhaseEmptiesVectors
  /\ RemovedIsDropped

\* Whatever the threads do in between, the server sees for each client one
\* add, its TCP packets in order with none missing, one removal, and nothing
\* after the batch that held the removal.
ImplementsFeed == Feed!FeedSpec

\* A connection the server was told to forget has nothing left behind: no
\* socket, no place in the worker's list or in the socket set, and no packet
\* in the vector that would be handed over in a later batch.
GoneLeavesNothing ==
  \A c \in Clients : status[c] = "gone" =>
    /\ c \notin socketSet
    /\ c \notin clients \union ready \union ToSet(toRemove)
    /\ \A item \in ToSet(packetsToProcess) : item.client # c

\* A packet the worker took off a socket reaches the server unless the server
\* is stopped.
PacketsAreHanded ==
  \A c \in Clients : \A n \in 1..MaxPackets :
    (read[c] >= n) ~> (handed[c] >= n \/ main # "loop")

\* A connection that ends is reported to the server, provided its socket went
\* into the socket set (AddSocket's refusal is not looked at).
HangUpIsReported ==
  \A c \in Clients :
    (peer[c] \in {"closed", "reset"} /\ c \in socketSet)
      ~> (status[c] = "gone" \/ main # "loop")

\* StopThread's join returns, and by then every connection is dropped.
StopCompletes ==
  (main = "stopping") ~> (main = "joined" /\ clients = {} /\ socketSet = {})
=============================================================================

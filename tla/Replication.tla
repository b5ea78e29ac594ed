----------------------------- MODULE Replication -----------------------------
(***************************************************************************)
(* How the entities of the server's worlds reach one client's screen.      *)
(*                                                                         *)
(* The server tells a client what to load, whom to show, with which        *)
(* appearance, and whom to remove over TCP, and sends the state of each    *)
(* entity over UDP, where it may be lost or overtaken.  A removal is sent  *)
(* twice, the second time after 100 ms, since an older update that comes   *)
(* after the first makes the client show the entity again.                 *)
(*                                                                         *)
(* The server side is seen by one client: it is listed in exactly the      *)
(* world its character is in (ServerSessions: WorldMembership), and gets   *)
(* what World::SendPacketToAllPlayers sends there.  A character that joins *)
(* or leaves the game is, for the client, one that comes from or goes to a *)
(* world the client is not in.                                             *)
(***************************************************************************)
EXTENDS ClientScenes

CONSTANTS StartingWorld,
          MaxMoves,     \* bound: transfers of characters and reports of other clients
          MaxUpdates,   \* bound: broadcasts that are not forced
          Timely,       \* do datagrams arrive, if at all, before the second removal?
          SlowReturn    \* does nobody return before the second removal is sent?

ASSUME ReplicationAssumption ==
  /\ StartingWorld \in Worlds
  /\ MaxMoves \in Nat /\ MaxUpdates \in Nat
  /\ Timely \in BOOLEAN /\ SlowReturn \in BOOLEAN
  /\ IsFiniteSet(Entities)

VARIABLES
  where,       \* the world whose _entities has the character
  force,       \* Entity::_forceSendToOwningPlayer
  time,        \* of the last broadcast
  arrived,     \* history: the time at which each character came to its world
  tcp,         \* the TCP stream to the client
  udp,         \* datagrams to the client
  delayed,     \* second removals held by the packet sender
  moves, updates

serverVars  == <<where, force, time, arrived, moves, updates>>
networkVars == <<tcp, udp, delayed>>
vars == <<sceneVars, serverVars, networkVars>>

TypeOK ==
  /\ ScenesTypeOK
  /\ where \in [Entities -> Worlds]
  /\ force \in [Entities -> BOOLEAN]
  /\ time \in Nat
  /\ arrived \in [Entities -> 0..time]
  /\ tcp \in Seq(Packet)
  /\ udp \subseteq UpdatePacket
  /\ delayed \in Seq([packet : Packet, since : Nat])
  /\ moves \in 0..MaxMoves
  /\ updates \in 0..MaxUpdates

\* The client has passed the UDP test: its player has just been added.
Init ==
  /\ ScenesInit
  /\ where \in [Entities -> Worlds] /\ where[Own] = StartingWorld
  /\ force = [e \in Entities |-> TRUE]
  /\ time = 0
  /\ arrived = [e \in Entities |-> 0]
  /\ tcp = <<LoadWorld(StartingWorld)>>
  /\ udp = {}
  /\ delayed = <<>>
  /\ moves = 0 /\ updates = 0

-----------------------------------------------------------------------------
(***************************************************************************)
(* The server.                                                             *)
(***************************************************************************)

\* What SendPacketToAllPlayers of world w sends to this client.
ToListed(w, packets) == IF where[Own] = w THEN packets ELSE <<>>

\* AddCharacter makes a new object, which is to be sent to everybody once.
Arrive(e, w) ==
  /\ where' = [where EXCEPT ![e] = w]
  /\ force' = [force EXCEPT ![e] = TRUE]
  /\ arrived' = [arrived EXCEPT ![e] = time]

\* Faulty variant: the removal is sent only once.
RemoveWorldEntityOnce(e, w) ==
  [now |-> ToListed(w, <<Removal(e, w)>>), later |-> <<>>]

\* RemoveWorldEntity: the removal, at once and again after 100 ms.
RemoveWorldEntity(e, w) ==
  [now   |-> ToListed(w, <<Removal(e, w)>>),
   later |-> ToListed(w, <<[packet |-> Removal(e, w), since |-> time]>>)]

IsPending(p) == \E i \in DOMAIN delayed : delayed[i].packet = p

\* TransferPlayerToWorld of another player, or TransferCharacterToWorld.
TransferOther(e, w) ==
  LET removal == RemoveWorldEntity(e, where[e]) IN
    /\ e # Own /\ where[e] # w
    /\ SlowReturn => ~IsPending(Removal(e, w))
    /\ moves < MaxMoves /\ moves' = moves + 1
    /\ Arrive(e, w)
    /\ tcp' = tcp \o removal.now \o ToListed(w, <<SetDetails(e, w)>>)
    /\ delayed' = delayed \o removal.later
    /\ UNCHANGED <<sceneVars, time, updates, udp>>

\* Faulty variant: the player is still listed when its character is removed.
TransferOwnStillListed(w) ==
  LET removal == RemoveWorldEntity(Own, where[Own]) IN
    /\ where[Own] # w
    /\ Timely => udp = {}
    /\ moves < MaxMoves /\ moves' = moves + 1
    /\ Arrive(Own, w)
    /\ tcp' = tcp \o removal.now \o <<LoadWorld(w)>>
    /\ delayed' = delayed \o removal.later
    /\ UNCHANGED <<sceneVars, time, updates, udp>>

\* TransferPlayerToWorld of this client's player: it is taken off the list
\* before its character is removed, and is not yet listed where it arrives, so
\* all it gets is the request to load the world.  A player has to walk before
\* it can be transferred again, which takes longer than a timely datagram.
TransferOwn(w) ==
  /\ where[Own] # w
  /\ Timely => udp = {}
  /\ moves < MaxMoves /\ moves' = moves + 1
  /\ Arrive(Own, w)
  /\ tcp' = Append(tcp, LoadWorld(w))
  /\ UNCHANGED <<sceneVars, time, updates, udp, delayed>>

\* The details of every character in the world.
AllDetails(w) ==
  SetToSeq({SetDetails(e, w) : e \in {f \in Entities : where[f] = w}})

\* Faulty variant: the owner's next update is not forced.
WorldLoadedUnforced(e) ==
  /\ tcp' = tcp \o ToListed(where[e], AllDetails(where[e]))
  /\ UNCHANGED <<force, client, where, time, arrived, updates, udp, delayed>>

\* HandleClientServerWorldLoadedPacket in the world the player is in now,
\* whichever world its client reports.
WorldLoaded(e) ==
  /\ tcp' = tcp \o ToListed(where[e], AllDetails(where[e]))
  /\ force' = [force EXCEPT ![e] = TRUE]
  /\ UNCHANGED <<client, where, time, arrived, updates, udp, delayed>>

HandleOwnWorldLoaded ==
  /\ reports > 0 /\ reports' = reports - 1
  /\ WorldLoaded(Own)
  /\ UNCHANGED moves

HandleOtherWorldLoaded(e) ==
  /\ e # Own
  /\ moves < MaxMoves /\ moves' = moves + 1
  /\ WorldLoaded(e)
  /\ UNCHANGED reports

\* BroadcastEntityState.  Players get no updates of their own character, unless
\* forced; a forced update goes to everybody, over TCP.
BroadcastEntityState(e) ==
  /\ force[e] \/ updates < MaxUpdates
  /\ updates' = IF force[e] THEN updates ELSE updates + 1
  /\ force' = [force EXCEPT ![e] = FALSE]
  /\ IF where[Own] # where[e] \/ (e = Own /\ ~force[e])
       THEN force[e] /\ UNCHANGED <<time, tcp, udp>>
       ELSE LET p == Update(e, where[e], time + 1) IN
              /\ time' = time + 1
              /\ tcp' = IF force[e] THEN Append(tcp, p) ELSE tcp
              /\ udp' = IF force[e] THEN udp ELSE udp \union {p}
  /\ UNCHANGED <<sceneVars, where, arrived, moves, delayed>>

\* The packet sender's countdown list, see PacketSender.
SendSecondRemoval ==
  /\ delayed # <<>>
  /\ Timely => \A p \in udp : p.time > Head(delayed).since
  /\ tcp' = Append(tcp, Head(delayed).packet)
  /\ delayed' = Tail(delayed)
  /\ UNCHANGED <<sceneVars, serverVars, udp>>

-----------------------------------------------------------------------------
(***************************************************************************)
(* The network, and the client's network thread.                           *)
(***************************************************************************)
ReceiveTcp ==
  /\ tcp # <<>>
  /\ ProcessPacket(Head(tcp))
  /\ tcp' = Tail(tcp)
  /\ UNCHANGED <<serverVars, udp, delayed>>

ReceiveUdp(p) ==
  /\ ProcessPacket(p)
  /\ udp' = udp \ {p}
  /\ UNCHANGED <<serverVars, tcp, delayed>>

LoseUdp(p) ==
  /\ udp' = udp \ {p}
  /\ UNCHANGED <<sceneVars, serverVars, tcp, delayed>>

ClientFrame == EndOfFrame /\ UNCHANGED <<serverVars, networkVars>>

ClientFails == WorldFailsToLoad /\ UNCHANGED <<serverVars, networkVars>>

-----------------------------------------------------------------------------
\* With the client's process its connection ends; what the server does then is
\* OnClientRemove, see ServerSessions.
Next ==
  /\ Running
  /\ \/ \E e \in Entities, w \in Worlds : TransferOther(e, w)
     \/ \E w \in Worlds : TransferOwn(w)
     \/ HandleOwnWorldLoaded
     \/ \E e \in Entities : HandleOtherWorldLoaded(e)
     \/ \E e \in Entities : BroadcastEntityState(e)
     \/ SendSecondRemoval
     \/ ReceiveTcp
     \/ \E p \in udp : ReceiveUdp(p) \/ LoseUdp(p)
     \/ ClientFrame
     \/ ClientFails

Spec == Init /\ [][Next]_vars

\* Both main loops and the network thread run, TCP delivers, and the worlds
\* broadcast every 50 ms; no datagram need arrive and no removal be repeated.
Fairness ==
  /\ WF_vars(Running /\ HandleOwnWorldLoaded)
  /\ WF_vars(Running /\ force[Own] /\ BroadcastEntityState(Own))
  /\ WF_vars(Running /\ ReceiveTcp)
  /\ WF_vars(Running /\ ClientFrame)

FairSpec == Spec /\ Fairness

-----------------------------------------------------------------------------
(***************************************************************************)
(* Properties.                                                             *)
(***************************************************************************)
InFlight(p) == Contains(tcp, p)

Shown(e) == client.scene = "world" /\ client.shown[e] > 0

\* The client has been asked to load a world since it loaded this one.
Leaving == client.queued # NoScene \/ \E w \in Worlds : InFlight(LoadWorld(w))

\* What a client shows of e is not from e's present stay in that world.
Stale(e) == where[e] # client.world \/ client.shown[e] <= arrived[e]

\* "send a 2nd time just in case an entity update packet was received after
\* this packet was, thus re-creating the just removed entity": a client never
\* goes on showing an entity that has left its world, nor the state in which it
\* left after it has come back.  Whenever it shows one, its removal, a newer
\* update that cannot be lost, or another world is still to come.
NoGhosts ==
  \A e \in Entities : Shown(e) /\ Stale(e) =>
    \/ Leaving
    \/ InFlight(Removal(e, client.world))
    \/ IsPending(Removal(e, client.world))
    \/ where[e] = client.world /\ force[e]
    \/ \E t \in arrived[e] + 1 .. time : InFlight(Update(e, client.world, t))

\* "make sure we have an appearance until the server gives us one": whoever is
\* shown without its appearance is about to get it, by details on their way or
\* in answer to the client's report.
AppearanceKnown ==
  \A e \in Entities : Shown(e) /\ where[e] = client.world /\ e \notin client.detailed =>
    \/ Leaving
    \/ reports > 0
    \/ InFlight(SetDetails(e, client.world))

\* The character the player controls is one of those the world shows.
ControlledCharacterIsShown == client.hasCharacter => Shown(Own)

\* "perhaps the world on the client took a while to load; ensure that they get a
\* creation message to create the player": in the end the client shows the world
\* its player is in, and the player controls its character there, unless a world
\* could not be loaded.
ClientArrives ==
  []<>(Running => client.scene = "world" /\ client.world = where[Own] /\ client.hasCharacter)
=============================================================================

-------------------------- MODULE Replication_proofs --------------------------
(***************************************************************************)
(* Proofs about Replication, for any worlds, any finite set of characters  *)
(* and any number of moves and updates.  Each theorem names what it needs  *)
(* of the environment: nothing, timely datagrams, or no quick return.      *)
(***************************************************************************)
EXTENDS Replication, FiniteSetTheorems, TLAPS

-----------------------------------------------------------------------------
(***************************************************************************)
(* The invariants.                                                         *)
(***************************************************************************)

\* A change of scene is requested with the world it is for.
ScenesAgree ==
  /\ client.queued # "authenticate"
  /\ client.queued # NoScene => client.parameter \in Worlds
  /\ client.scene = "loading" =>
       /\ client.toLoad \in Worlds
       /\ client.isLoading <=> client.queued # NoScene

IsLoad(p) == p.type = "loadWorld"
LoadsComing == \E i \in DOMAIN tcp : IsLoad(tcp[i])

\* The world the client is on its way to, or in.
Target ==
  IF client.queued # NoScene THEN client.parameter
  ELSE IF client.scene = "loading" THEN client.toLoad
  ELSE client.world

\* The last world the client is told to load is the one its player is in.
HeadingHome ==
  /\ \A i \in DOMAIN tcp : IsLoad(tcp[i]) =>
       tcp[i].world = where[Own] \/ \E j \in DOMAIN tcp : i < j /\ IsLoad(tcp[j])
  /\ ~LoadsComing /\ Running => Target = where[Own]

\* Updates are stamped when they are sent, and the first stamp is 1.
Stamped(p) == p.type = "update" => p.time \in 1..time
PastUpdates ==
  /\ \A i \in DOMAIN tcp : Stamped(tcp[i])
  /\ \A p \in udp : Stamped(p)

IsRemovalOf(p, e) == p.type = "remove" /\ p.entity = e

\* A player is taken off its world's list before its character is removed.
OwnNeverRemoved ==
  /\ \A i \in DOMAIN tcp : ~IsRemovalOf(tcp[i], Own)
  /\ \A i \in DOMAIN delayed :
       delayed[i].packet.type = "remove" /\ ~IsRemovalOf(delayed[i].packet, Own)

Current(p) == where[p.entity] = p.world /\ p.time > arrived[p.entity] /\ where[Own] = p.world

\* An update on the TCP stream is of its entity's present stay, or has the
\* entity's removal, or another world to load, behind it.
TcpUpdatesFollowed ==
  \A i \in DOMAIN tcp : tcp[i].type = "update" =>
    \/ Current(tcp[i])
    \/ \E j \in DOMAIN tcp : /\ i < j
                             /\ IsLoad(tcp[j]) \/ tcp[j] = Removal(tcp[i].entity, tcp[i].world)

\* A datagram is of its entity's present stay, or the second removal is still
\* held back.
UdpUpdatesFollowed ==
  \A p \in udp :
    /\ p.world = where[Own]
    /\ \/ Current(p)
       \/ \E i \in DOMAIN delayed : /\ delayed[i].packet = Removal(p.entity, p.world)
                                    /\ delayed[i].since >= p.time

\* No second removal is held back for an entity that is there.
PendingAreAway ==
  \A i \in DOMAIN delayed : where[delayed[i].packet.entity] # delayed[i].packet.world

\* A removal of an entity that is there has its details behind it, or another
\* world to load.
RemovalsFollowed ==
  \A i \in DOMAIN tcp, e \in Entities :
    IsRemovalOf(tcp[i], e) /\ where[e] = tcp[i].world /\ where[Own] = tcp[i].world =>
      \E j \in DOMAIN tcp : i < j /\ (IsLoad(tcp[j]) \/ tcp[j] = SetDetails(e, tcp[i].world))

CachedAreHidden == \A e \in client.cached : client.shown[e] = 0

\* The client has, or will get, the details of everyone in its world.
DetailsKnown ==
  \A e \in Entities : client.scene = "world" /\ where[e] = client.world =>
    \/ Leaving
    \/ reports > 0
    \/ InFlight(SetDetails(e, client.world))
    \/ e \in client.detailed \union client.cached

\* What holds whatever the environment does, where datagrams are timely, and
\* where nobody returns quickly.
Always == ScenesAgree /\ HeadingHome /\ PastUpdates /\ OwnNeverRemoved
IfTimely == TcpUpdatesFollowed /\ UdpUpdatesFollowed
IfSlow == PendingAreAway /\ RemovalsFollowed /\ CachedAreHidden /\ DetailsKnown

-----------------------------------------------------------------------------
(***************************************************************************)
(* Sequences: what is added at the end, what is left without the head.     *)
(***************************************************************************)
LEMMA Appended ==
  ASSUME NEW S, NEW s \in Seq(S), NEW x \in S
  PROVE  /\ Append(s, x) \in Seq(S) /\ Len(Append(s, x)) = Len(s) + 1
         /\ DOMAIN Append(s, x) = 1..(Len(s) + 1) /\ DOMAIN s = 1..Len(s) /\ Len(s) \in Nat
         /\ \A i \in DOMAIN s : Append(s, x)[i] = s[i]
         /\ Append(s, x)[Len(s) + 1] = x
OBVIOUS

LEMMA Joined ==
  ASSUME NEW S, NEW s \in Seq(S), NEW t \in Seq(S)
  PROVE  /\ s \o t \in Seq(S)
         /\ DOMAIN (s \o t) = 1..(Len(s) + Len(t)) /\ Len(s) \in Nat /\ Len(t) \in Nat
         /\ DOMAIN s = 1..Len(s) /\ DOMAIN t = 1..Len(t)
         /\ \A i \in DOMAIN s : (s \o t)[i] = s[i]
         /\ \A i \in DOMAIN t : (s \o t)[Len(s) + i] = t[i]
         /\ \A i \in DOMAIN (s \o t) \ DOMAIN s :
              i - Len(s) \in DOMAIN t /\ (s \o t)[i] = t[i - Len(s)]
OBVIOUS

LEMMA Shortened ==
  ASSUME NEW S, NEW s \in Seq(S), s # <<>>
  PROVE  /\ Head(s) \in S /\ Head(s) = s[1] /\ Tail(s) \in Seq(S)
         /\ Len(s) \in Nat \ {0} /\ DOMAIN s = 1..Len(s) /\ DOMAIN Tail(s) = 1..(Len(s) - 1)
         /\ \A i \in DOMAIN Tail(s) : i + 1 \in DOMAIN s /\ Tail(s)[i] = s[i + 1]
OBVIOUS

LEMMA AtMostOne ==
  ASSUME NEW S, NEW x \in S
  PROVE  <<>> \in Seq(S) /\ <<x>> \in Seq(S) /\ Len(<<x>>) = 1 /\ Len(<<>>) = 0
OBVIOUS

-----------------------------------------------------------------------------
(***************************************************************************)
(* What one packet does to the client.                                     *)
(***************************************************************************)
LEMMA PacketKinds ==
  ASSUME NEW p \in Packet
  PROVE  /\ p.world \in Worlds
         /\ p.type \in {"loadWorld", "remove", "setDetails", "update"}
         /\ p.type # "loadWorld" => p.entity \in Entities
         /\ p.type = "update" => p.time \in Nat /\ p = Update(p.entity, p.world, p.time)
         /\ p.type = "remove" => p = Removal(p.entity, p.world)
         /\ p.type = "setDetails" => p = SetDetails(p.entity, p.world)
<1>1. CASE p \in [type : {"loadWorld"}, world : Worlds]
  BY <1>1
<1>2. CASE p \in [type : {"remove", "setDetails"}, entity : Entities, world : Worlds]
  BY <1>2 DEF Removal, SetDetails
<1>3. CASE p \in UpdatePacket
  BY <1>3 DEF UpdatePacket, Update
<1> QED BY <1>1, <1>2, <1>3 DEF Packet

LEMMA PacketsMade ==
  ASSUME NEW e \in Entities, NEW w \in Worlds, NEW t \in Nat
  PROVE  /\ LoadWorld(w) \in Packet /\ Removal(e, w) \in Packet
         /\ SetDetails(e, w) \in Packet /\ Update(e, w, t) \in UpdatePacket
         /\ UpdatePacket \subseteq Packet
BY DEF Packet, UpdatePacket, LoadWorld, Removal, SetDetails, Update

LEMMA LoadPacketEffect ==
  ASSUME client \in ClientType, Running, NEW p \in Packet, IsLoad(p), ProcessPacket(p)
  PROVE  /\ client' = [client EXCEPT !.parameter = p.world, !.queued = client'.queued,
                                     !.isLoading = client'.isLoading]
         /\ client' \in ClientType
         /\ client'.queued \in {"loading", "world"}
         /\ client.scene = "loading" => client'.isLoading
<1>1. p.world \in Worlds
  BY PacketKinds
<1> USE DEF ProcessPacket, ProcessInScene, QueueLoadScene, ClientType, SceneTypes, IsLoad,
            NoScene, Ended, Running
<1>2. CASE client.scene = "authenticate"
  BY <1>1, <1>2 DEF ProcessInAuthenticateScene
<1>3. CASE client.scene = "loading"
  BY <1>1, <1>3 DEF ProcessInLoadingScene, LoadNewWorld
<1>4. CASE client.scene = "world"
  <2>1. client' = QueueLoadScene(client, "loading", p.world)
    BY <1>4 DEF ProcessInWorldScene
  <2> QED BY <1>1, <1>4, <2>1
<1> QED BY <1>2, <1>3, <1>4

LEMMA DroppedPacketEffect ==
  ASSUME client \in ClientType, Running, NEW p \in Packet, ~IsLoad(p), ProcessPacket(p),
         client.scene # "world" \/ p.world # client.world
  PROVE  client' = client
<1>1. CASE client.scene = "authenticate"
  BY <1>1 DEF ProcessPacket, ProcessInScene, ProcessInAuthenticateScene, IsLoad
<1>2. CASE client.scene = "loading"
  BY <1>2 DEF ProcessPacket, ProcessInScene, ProcessInLoadingScene, IsLoad
<1>3. CASE client.scene = "world"
  <2>1. client' = ProcessInWorldScene(client, p)
    BY <1>3 DEF ProcessPacket, ProcessInScene
  <2> QED BY <1>3, <2>1 DEF ProcessInWorldScene, IsLoad
<1> QED BY <1>1, <1>2, <1>3 DEF ClientType, SceneTypes, Running

LEMMA UpdateEffect ==
  ASSUME client \in ClientType, NEW p \in UpdatePacket, ProcessPacket(p),
         client.scene = "world", p.world = client.world
  PROVE  LET e == p.entity IN
         /\ client' \in ClientType
         /\ client'.shown = [client.shown EXCEPT ![e] = IF p.time > @ THEN p.time ELSE @]
         /\ client'.hasCharacter => client.hasCharacter \/ e = Own
         /\ client'.detailed = IF e \in client.cached THEN client.detailed \union {e}
                               ELSE client.detailed
         /\ client'.cached = client.cached \ {e}
         /\ client'.scene = client.scene /\ client'.world = client.world
         /\ client'.queued = client.queued /\ client'.parameter = client.parameter
         /\ client'.toLoad = client.toLoad /\ client'.isLoading = client.isLoading
<1>1. p.type = "update" /\ p.entity \in Entities /\ p.time \in Nat
  BY DEF UpdatePacket
<1>2. client' = ApplyCachedDetails(UpdateEntity(client, p.entity, p.time), p.entity)
  BY <1>1 DEF ProcessPacket, ProcessInScene, ProcessInWorldScene
<1> DEFINE u == UpdateEntity(client, p.entity, p.time)
<1>3. /\ u \in ClientType /\ u.cached = client.cached /\ u.detailed = client.detailed
      /\ u.shown = [client.shown EXCEPT ![p.entity] = IF p.time > @ THEN p.time ELSE @]
      /\ u.hasCharacter => client.hasCharacter \/ p.entity = Own
      /\ u.scene = client.scene /\ u.world = client.world
      /\ u.queued = client.queued /\ u.parameter = client.parameter
      /\ u.toLoad = client.toLoad /\ u.isLoading = client.isLoading
  BY <1>1 DEF UpdateEntity, ClientType
<1>4. client' = IF p.entity \in client.cached
                  THEN [u EXCEPT !.detailed = @ \union {p.entity}, !.cached = @ \ {p.entity}]
                  ELSE u
  BY <1>2, <1>3 DEF ApplyCachedDetails
<1> HIDE DEF u
<1>5. CASE p.entity \in client.cached
  BY <1>1, <1>3, <1>4, <1>5 DEF ClientType
<1>6. CASE p.entity \notin client.cached
  BY <1>1, <1>3, <1>4, <1>6 DEF ClientType
<1> QED BY <1>5, <1>6

LEMMA RemovalEffect ==
  ASSUME client \in ClientType, NEW p \in Packet, p.type = "remove", ProcessPacket(p),
         client.scene = "world", p.world = client.world
  PROVE  /\ client' \in ClientType
         /\ client' = [client EXCEPT !.shown[p.entity] = 0, !.detailed = @ \ {p.entity}]
<1>1. p.entity \in Entities
  BY PacketKinds
<1>2. client' = RemoveEntity(client, p.entity)
  BY DEF ProcessPacket, ProcessInScene, ProcessInWorldScene
<1> QED BY <1>1, <1>2 DEF RemoveEntity, ClientType

LEMMA DetailsEffect ==
  ASSUME client \in ClientType, NEW p \in Packet, p.type = "setDetails", ProcessPacket(p),
         client.scene = "world", p.world = client.world
  PROVE  /\ client' \in ClientType
         /\ client' = IF client.shown[p.entity] = 0
                        THEN [client EXCEPT !.cached = @ \union {p.entity}]
                        ELSE [client EXCEPT !.detailed = @ \union {p.entity}]
<1>1. p.entity \in Entities
  BY PacketKinds
<1>2. client' = HandleSetDetails(client, p.entity)
  BY DEF ProcessPacket, ProcessInScene, ProcessInWorldScene
<1> QED BY <1>1, <1>2 DEF HandleSetDetails, ClientType

\* What every packet but LoadWorld leaves alone.
LEMMA OtherPacketEffect ==
  ASSUME client \in ClientType, Running, NEW p \in Packet, ~IsLoad(p), ProcessPacket(p)
  PROVE  /\ client' \in ClientType
         /\ client'.scene = client.scene /\ client'.world = client.world
         /\ client'.queued = client.queued /\ client'.parameter = client.parameter
         /\ client'.toLoad = client.toLoad /\ client'.isLoading = client.isLoading
<1>1. CASE client.scene # "world" \/ p.world # client.world
  BY <1>1, DroppedPacketEffect
<1> USE DEF ClientType
<1>2. CASE client.scene = "world" /\ p.world = client.world /\ p.type = "update"
  <2>1. p \in UpdatePacket
    BY <1>2 DEF Packet
  <2> QED BY <1>2, <2>1, UpdateEffect
<1>3. CASE client.scene = "world" /\ p.world = client.world /\ p.type = "remove"
  BY <1>3, RemovalEffect
<1>4. CASE client.scene = "world" /\ p.world = client.world /\ p.type = "setDetails"
  BY <1>4, DetailsEffect
<1> QED BY <1>1, <1>2, <1>3, <1>4, PacketKinds DEF IsLoad

-----------------------------------------------------------------------------
(***************************************************************************)
(* What the end of a frame does to it.                                     *)
(***************************************************************************)
LEMMA TickEffect ==
  ASSUME client \in ClientType, Running, ScenesAgree, TickScene(client).queued # NoScene
  PROVE  /\ TickScene(client) \in ClientType
         /\ TickScene(client).queued \in {"loading", "world"}
         /\ TickScene(client).parameter \in Worlds
         /\ TickScene(client).parameter = Target
<1> USE ScenesAssumption DEF ScenesAssumption, ClientType, SceneTypes, NoScene, Target, ScenesAgree
<1>1. CASE client.scene = "loading" /\ ~client.isLoading
  <2>1. TickScene(client) = [client EXCEPT !.parameter = client.toLoad, !.queued = "world",
                                           !.isLoading = TRUE]
    BY <1>1 DEF TickScene, TickLoadingScene, LoadNewWorld, QueueLoadScene
  <2> QED BY <1>1, <2>1
<1>2. CASE ~(client.scene = "loading" /\ ~client.isLoading)
  <2>1. TickScene(client) = client
    BY <1>2 DEF TickScene, TickLoadingScene
  <2> QED BY <1>2, <2>1
<1> QED BY <1>1, <1>2

LEMMA FrameEffect ==
  ASSUME client \in ClientType, reports \in Nat, Running, ScenesAgree, EndOfFrame
  PROVE  /\ client' \in ClientType
         /\ client'.scene \in {"loading", "world"} /\ client'.queued = NoScene
         /\ client'.toLoad = IF client'.scene = "loading" THEN Target ELSE NoWorld
         /\ client'.world = IF client'.scene = "world" THEN Target ELSE NoWorld
         /\ ~client'.isLoading /\ ~client'.hasCharacter
         /\ client'.shown = [e \in Entities |-> 0]
         /\ client'.detailed = {} /\ client'.cached = {}
         /\ Target \in Worlds
         /\ reports' = IF client'.scene = "world" THEN reports + 1 ELSE reports
<1> DEFINE ticked == TickScene(client)
<1>1. /\ ticked \in ClientType /\ ticked.queued \in {"loading", "world"}
      /\ ticked.parameter = Target /\ Target \in Worlds
  BY TickEffect DEF EndOfFrame
<1>2. /\ client' = LoadScene(ticked, ticked.queued)
      /\ reports' = IF ticked.queued = "world" THEN reports + 1 ELSE reports
  BY DEF EndOfFrame
<1> HIDE DEF ticked
<1> QED BY <1>1, <1>2 DEF LoadScene, ClientType, SceneTypes, NoScene

LEMMA FailureEffect ==
  ASSUME client \in ClientType, Running, ScenesAgree, WorldFailsToLoad
  PROVE  /\ client' \in ClientType /\ client'.scene = Ended
         /\ client'.queued = NoScene /\ client'.world = NoWorld
         /\ ~client'.hasCharacter /\ client'.cached = {}
         /\ reports' = reports
<1> DEFINE ticked == TickScene(client)
<1>1. ticked \in ClientType /\ ticked.queued = "world" /\ ticked.parameter \in Worlds
  BY TickEffect DEF WorldFailsToLoad, NoScene
<1>2. /\ client' = [LoadScene(ticked, "world") EXCEPT !.scene = Ended, !.world = NoWorld]
      /\ reports' = reports
  BY DEF WorldFailsToLoad
<1> HIDE DEF ticked
<1> QED BY <1>1, <1>2 DEF LoadScene, ClientType, SceneTypes, NoScene, Ended

-----------------------------------------------------------------------------
(***************************************************************************)
(* What the server sends.                                                  *)
(***************************************************************************)
DetailsOf(w) == {SetDetails(e, w) : e \in {f \in Entities : where[f] = w}}

LEMMA AllDetailsAre ==
  ASSUME NEW w \in Worlds
  PROVE  /\ AllDetails(w) \in Seq(Packet)
         /\ ToSet(AllDetails(w)) = DetailsOf(w)
<1> DEFINE S == DetailsOf(w)
           f == AllDetails(w)
<1>1. IsFiniteSet(S)
  <2>1. IsFiniteSet({e \in Entities : where[e] = w})
    BY ReplicationAssumption, FS_Subset DEF ReplicationAssumption
  <2> DEFINE T == {e \in Entities : where[e] = w}
             g == [e \in T |-> SetDetails(e, w)]
  <2>2. g \in Surjection(T, S)
    BY DEF Surjection, DetailsOf
  <2> QED BY <2>1, <2>2, FS_Surjection
<1>2. f \in [1..Cardinality(S) -> S] /\ IsInjective(f)
  <2>1. PICK g \in [1..Cardinality(S) -> S] : IsInjective(g)
    <3>1. PICK h \in Bijection(1..Cardinality(S), S) : TRUE
      BY <1>1, FS_CardinalityType DEF ExistsBijection
    <3> QED BY <3>1 DEF Bijection, Injection, IsInjective
  <2> QED BY <2>1 DEF AllDetails, SetToSeq, DetailsOf
<1>3. S \subseteq Packet
  BY PacketsMade DEF DetailsOf
<1>4. Cardinality(S) \in Nat
  BY <1>1, FS_CardinalityType
<1> HIDE DEF S, f
<1>5. f \in Seq(S) /\ DOMAIN f = 1..Cardinality(S)
  BY <1>2, <1>4
<1>6. f \in Seq(Packet)
  BY <1>3, <1>5
<1>7. ToSet(f) = S
  <2>1. f \in Injection(1..Cardinality(S), S)
    BY <1>2 DEF Injection, IsInjective
  <2>2. f \in Surjection(1..Cardinality(S), S)
    BY <1>1, <1>4, <2>1, FS_Interval, FS_Injection
  <2> QED BY <1>5, <2>2 DEF Surjection, ToSet
<1> QED BY <1>6, <1>7 DEF S, f

LEMMA AllDetailsSent ==
  ASSUME NEW w \in Worlds
  PROVE  /\ ToListed(w, AllDetails(w)) \in Seq(Packet)
         /\ \A i \in DOMAIN ToListed(w, AllDetails(w)) :
              \E e \in Entities : ToListed(w, AllDetails(w))[i] = SetDetails(e, w)
<1>1. \A i \in DOMAIN AllDetails(w) : AllDetails(w)[i] \in DetailsOf(w)
  BY AllDetailsAre DEF ToSet
<1> QED BY <1>1, AllDetailsAre DEF ToListed, DetailsOf

-----------------------------------------------------------------------------
(***************************************************************************)
(* The types.                                                              *)
(***************************************************************************)
LEMMA TypeInit ==
  ASSUME Init
  PROVE  TypeOK /\ ScenesAgree
<1> USE ScenesAssumption, ReplicationAssumption
    DEF ScenesAssumption, ReplicationAssumption, Init, ScenesInit
<1>1. ScenesTypeOK /\ ScenesAgree
  BY DEF ScenesTypeOK, ClientType, SceneTypes, NoScene, Ended, ScenesAgree
<1>2. tcp \in Seq(Packet) /\ udp \subseteq UpdatePacket
  BY PacketsMade DEF Packet, LoadWorld
<1> QED BY <1>1, <1>2 DEF TypeOK

LEMMA ProcessedType ==
  ASSUME TypeOK, ScenesAgree, Running, NEW p \in Packet, ProcessPacket(p)
  PROVE  ScenesTypeOK' /\ ScenesAgree'
<1>1. reports' = reports
  BY DEF ProcessPacket
<1>2. CASE IsLoad(p)
  <2>1. /\ client' = [client EXCEPT !.parameter = p.world, !.queued = client'.queued,
                                    !.isLoading = client'.isLoading]
        /\ client \in ClientType /\ client' \in ClientType /\ p.world \in Worlds
        /\ client'.queued \in {"loading", "world"}
        /\ client.scene = "loading" => client'.isLoading
    BY <1>2, LoadPacketEffect, PacketKinds DEF TypeOK, ScenesTypeOK
  <2>2. /\ client'.scene = client.scene /\ client'.world = client.world
        /\ client'.toLoad = client.toLoad /\ client'.parameter = p.world
    BY <2>1 DEF ClientType
  <2> QED BY <1>1, <2>1, <2>2 DEF TypeOK, ScenesTypeOK, ScenesAgree, NoScene
<1>3. CASE ~IsLoad(p)
  BY <1>1, <1>3, OtherPacketEffect DEF TypeOK, ScenesTypeOK, ScenesAgree
<1> QED BY <1>2, <1>3

LEMMA TypeStep ==
  ASSUME TypeOK, ScenesAgree, [Next]_vars
  PROVE  TypeOK' /\ ScenesAgree'
<1>1. CASE UNCHANGED vars
  BY <1>1 DEF vars, sceneVars, serverVars, networkVars, TypeOK, ScenesTypeOK, ScenesAgree
<1>2. ASSUME UNCHANGED sceneVars
      PROVE  ScenesTypeOK' /\ ScenesAgree'
  BY <1>2 DEF sceneVars, TypeOK, ScenesTypeOK, ScenesAgree
<1> USE DEF TypeOK
<1>3. ASSUME Running, NEW e \in Entities, NEW w \in Worlds, TransferOther(e, w)
      PROVE  TypeOK' /\ ScenesAgree'
  <2>1. where[e] \in Worlds
    OBVIOUS
  <2>2. /\ RemoveWorldEntity(e, where[e]).now \in Seq(Packet)
        /\ RemoveWorldEntity(e, where[e]).later \in Seq([packet : Packet, since : Nat])
        /\ ToListed(w, <<SetDetails(e, w)>>) \in Seq(Packet)
    <3>1. Removal(e, where[e]) \in Packet /\ SetDetails(e, w) \in Packet
      BY <2>1, PacketsMade
    <3>2. [packet |-> Removal(e, where[e]), since |-> time] \in [packet : Packet, since : Nat]
      BY <3>1
    <3>3. /\ <<>> \in Seq(Packet) /\ <<Removal(e, where[e])>> \in Seq(Packet)
          /\ <<SetDetails(e, w)>> \in Seq(Packet)
      BY <3>1, AtMostOne
    <3>4. /\ <<>> \in Seq([packet : Packet, since : Nat])
          /\ <<[packet |-> Removal(e, where[e]), since |-> time]>>
               \in Seq([packet : Packet, since : Nat])
      BY <3>2, AtMostOne
    <3> QED BY <3>3, <3>4 DEF RemoveWorldEntity, ToListed
  <2>3. /\ tcp' \in Seq(Packet) /\ delayed' \in Seq([packet : Packet, since : Nat])
        /\ UNCHANGED <<sceneVars, time, updates, udp>> /\ moves' \in 0..MaxMoves
    BY <1>3, <2>2, ReplicationAssumption DEF TransferOther, ReplicationAssumption
  <2>4. where' \in [Entities -> Worlds] /\ force' \in [Entities -> BOOLEAN]
        /\ arrived' \in [Entities -> 0..time]
    BY <1>3 DEF TransferOther, Arrive
  <2> QED BY <1>2, <2>3, <2>4
<1>4. ASSUME Running, NEW w \in Worlds, TransferOwn(w)
      PROVE  TypeOK' /\ ScenesAgree'
  <2>1. where' \in [Entities -> Worlds] /\ force' \in [Entities -> BOOLEAN]
        /\ arrived' \in [Entities -> 0..time]
    BY <1>4, ScenesAssumption DEF TransferOwn, Arrive, ScenesAssumption
  <2>2. tcp' \in Seq(Packet)
    BY <1>4, PacketsMade DEF TransferOwn, Packet, LoadWorld
  <2>3. moves' \in 0..MaxMoves
    BY <1>4, ReplicationAssumption DEF TransferOwn, ReplicationAssumption
  <2> QED BY <1>2, <1>4, <2>1, <2>2, <2>3 DEF TransferOwn
<1>5. ASSUME NEW e \in Entities, WorldLoaded(e)
      PROVE  /\ tcp' \in Seq(Packet) /\ force' \in [Entities -> BOOLEAN]
             /\ UNCHANGED <<client, where, time, arrived, updates, udp, delayed>>
  <2>1. where[e] \in Worlds
    OBVIOUS
  <2>2. ToListed(where[e], AllDetails(where[e])) \in Seq(Packet)
    BY <2>1, AllDetailsSent
  <2> QED BY <1>5, <2>2 DEF WorldLoaded
<1>6. ASSUME Running, HandleOwnWorldLoaded
      PROVE  TypeOK' /\ ScenesAgree'
  <2>1. Own \in Entities /\ WorldLoaded(Own) /\ UNCHANGED moves
    BY <1>6, ScenesAssumption DEF ScenesAssumption, HandleOwnWorldLoaded
  <2>2. reports' \in Nat
    BY <1>6 DEF HandleOwnWorldLoaded, ScenesTypeOK
  <2>3. ScenesTypeOK' /\ ScenesAgree'
    BY <1>5, <2>1, <2>2 DEF ScenesTypeOK, ScenesAgree
  <2> QED BY <1>5, <2>1, <2>3
<1>7. ASSUME Running, NEW e \in Entities, HandleOtherWorldLoaded(e)
      PROVE  TypeOK' /\ ScenesAgree'
  <2>1. WorldLoaded(e) /\ UNCHANGED reports /\ moves' \in 0..MaxMoves
    BY <1>7, ReplicationAssumption DEF HandleOtherWorldLoaded, ReplicationAssumption
  <2>2. ScenesTypeOK' /\ ScenesAgree'
    BY <1>2, <1>5, <2>1 DEF sceneVars
  <2> QED BY <1>5, <2>1, <2>2
<1>8. ASSUME Running, NEW e \in Entities, BroadcastEntityState(e)
      PROVE  TypeOK' /\ ScenesAgree'
  <2>1. /\ updates' \in 0..MaxUpdates /\ force' \in [Entities -> BOOLEAN]
        /\ UNCHANGED <<sceneVars, where, arrived, moves, delayed>>
    BY <1>8, ReplicationAssumption DEF BroadcastEntityState, ReplicationAssumption
  <2>2. Update(e, where[e], time + 1) \in UpdatePacket /\ UpdatePacket \subseteq Packet
    <3>1. where[e] \in Worlds /\ time + 1 \in Nat
      OBVIOUS
    <3> QED BY <3>1, PacketsMade
  <2>3. time' \in Nat /\ tcp' \in Seq(Packet) /\ udp' \subseteq UpdatePacket /\ time' >= time
    <3> DEFINE p == Update(e, where[e], time + 1)
    <3>1. \/ UNCHANGED <<time, tcp, udp>>
          \/ time' = time + 1 /\ tcp' = Append(tcp, p) /\ udp' = udp
          \/ time' = time + 1 /\ tcp' = tcp /\ udp' = udp \union {p}
      BY <1>8 DEF BroadcastEntityState
    <3>2. p \in UpdatePacket /\ p \in Packet
      BY <2>2
    <3> HIDE DEF p
    <3>3. Append(tcp, p) \in Seq(Packet)
      BY <3>2, Appended
    <3>4. time \in Nat /\ tcp \in Seq(Packet) /\ udp \subseteq UpdatePacket
      OBVIOUS
    <3> HIDE DEF TypeOK
    <3> QED BY <3>1, <3>2, <3>3, <3>4
  <2>4. arrived' \in [Entities -> 0..time']
    BY <2>1, <2>3
  <2> QED BY <1>2, <2>1, <2>3, <2>4
<1>9. ASSUME Running, SendSecondRemoval
      PROVE  TypeOK' /\ ScenesAgree'
  <2>1. /\ delayed # <<>> /\ delayed' = Tail(delayed)
        /\ tcp' = Append(tcp, Head(delayed).packet)
        /\ UNCHANGED <<sceneVars, serverVars, udp>>
    BY <1>9 DEF SendSecondRemoval
  <2>2. /\ Head(delayed) \in [packet : Packet, since : Nat]
        /\ delayed' \in Seq([packet : Packet, since : Nat])
    BY <2>1, Shortened
  <2>3. Head(delayed).packet \in Packet
    BY <2>2
  <2> QED BY <1>2, <2>1, <2>2, <2>3 DEF serverVars
<1>10. ASSUME Running, ReceiveTcp
       PROVE  TypeOK' /\ ScenesAgree'
  <2>1. Head(tcp) \in Packet /\ tcp' \in Seq(Packet) /\ UNCHANGED <<serverVars, udp, delayed>>
    BY <1>10 DEF ReceiveTcp
  <2> QED BY <1>10, <2>1, ProcessedType DEF ReceiveTcp, serverVars
<1>11. ASSUME Running, NEW p \in udp, ReceiveUdp(p)
       PROVE  TypeOK' /\ ScenesAgree'
  <2>1. p \in Packet
    BY DEF Packet
  <2> QED BY <1>11, <2>1, ProcessedType DEF ReceiveUdp, serverVars
<1>12. ASSUME NEW p \in udp, LoseUdp(p)
       PROVE  TypeOK' /\ ScenesAgree'
  BY <1>2, <1>12 DEF LoseUdp, serverVars
<1>13. ASSUME Running, ClientFrame
       PROVE  TypeOK' /\ ScenesAgree'
  <2>1. ScenesTypeOK' /\ ScenesAgree'
    BY <1>13, FrameEffect, ScenesAssumption
       DEF ClientFrame, ScenesTypeOK, ScenesAgree, ScenesAssumption, NoScene
  <2> QED BY <1>13, <2>1 DEF ClientFrame, serverVars, networkVars
<1>14. ASSUME Running, ClientFails
       PROVE  TypeOK' /\ ScenesAgree'
  <2>1. ScenesTypeOK' /\ ScenesAgree'
    BY <1>14, FailureEffect, ScenesAssumption
       DEF ClientFails, ScenesTypeOK, ScenesAgree, ScenesAssumption, NoScene, Ended
  <2> QED BY <1>14, <2>1 DEF ClientFails, serverVars, networkVars
<1> QED BY <1>1, <1>3, <1>4, <1>6, <1>7, <1>8, <1>9, <1>10, <1>11, <1>12, <1>13, <1>14 DEF Next

\* In every state the client and the server, and what travels between them,
\* have their types: whatever a scene is sent, it is one of its own packets.
THEOREM TypeCorrect == Spec => []TypeOK
<1>1. TypeOK /\ ScenesAgree /\ [Next]_vars => (TypeOK /\ ScenesAgree)'
  BY TypeStep
<1>2. Init => TypeOK /\ ScenesAgree
  BY TypeInit
<1> QED BY <1>1, <1>2, PTL DEF Spec

-----------------------------------------------------------------------------
(***************************************************************************)
(* What each step of the server does to the TCP stream.                    *)
(***************************************************************************)
LEMMA TransferOtherEffect ==
  ASSUME TypeOK, NEW e \in Entities, NEW w \in Worlds, TransferOther(e, w)
  PROVE  /\ e # Own /\ where' = [where EXCEPT ![e] = w] /\ where'[Own] = where[Own]
         /\ where[e] # w /\ force' = [force EXCEPT ![e] = TRUE]
         /\ arrived' = [arrived EXCEPT ![e] = time]
         /\ UNCHANGED <<sceneVars, time, updates, udp>>
         /\ \/ /\ where[e] = where[Own] /\ tcp' = Append(tcp, Removal(e, where[e]))
               /\ delayed' = Append(delayed, [packet |-> Removal(e, where[e]), since |-> time])
            \/ /\ where[Own] = w /\ tcp' = Append(tcp, SetDetails(e, w))
               /\ delayed' = delayed
            \/ where[Own] # w /\ where[Own] # where[e] /\ UNCHANGED <<tcp, delayed>>
<1> DEFINE held == [packet |-> Removal(e, where[e]), since |-> time]
<1>1. /\ e # Own /\ where[e] # w /\ Arrive(e, w) /\ UNCHANGED <<sceneVars, time, updates, udp>>
      /\ tcp' = tcp \o (IF where[Own] = where[e] THEN <<Removal(e, where[e])>> ELSE <<>>)
                     \o (IF where[Own] = w THEN <<SetDetails(e, w)>> ELSE <<>>)
      /\ delayed' = delayed \o (IF where[Own] = where[e] THEN <<held>> ELSE <<>>)
  BY DEF TransferOther, RemoveWorldEntity, ToListed
<1>2. /\ where' = [where EXCEPT ![e] = w] /\ where'[Own] = where[Own]
      /\ force' = [force EXCEPT ![e] = TRUE] /\ arrived' = [arrived EXCEPT ![e] = time]
  BY <1>1, ScenesAssumption DEF Arrive, TypeOK, ScenesAssumption
<1>3. /\ tcp \in Seq(Packet) /\ delayed \in Seq([packet : Packet, since : Nat])
      /\ where \in [Entities -> Worlds] /\ time \in Nat
  BY DEF TypeOK
<1>4. /\ Removal(e, where[e]) \in Packet /\ SetDetails(e, w) \in Packet
      /\ held \in [packet : Packet, since : Nat]
  BY <1>3, PacketsMade
<1>5. CASE where[Own] = where[e]
  <2>1. where[Own] # w
    BY <1>1, <1>5
  <2>2. tcp' = Append(tcp, Removal(e, where[e]))
    BY <1>1, <1>3, <1>4, <1>5, <2>1
  <2> HIDE DEF held
  <2>3. delayed' = Append(delayed, held)
    BY <1>1, <1>3, <1>4, <1>5
  <2> QED BY <1>1, <1>2, <1>5, <2>2, <2>3 DEF held
<1>6. CASE where[Own] = w
  <2>1. where[Own] # where[e]
    BY <1>1, <1>6
  <2>2. tcp' = Append(tcp, SetDetails(e, w)) /\ delayed' = delayed
    BY <1>1, <1>3, <1>4, <1>6, <2>1
  <2> QED BY <1>1, <1>2, <1>6, <2>2
<1>7. CASE where[Own] # w /\ where[Own] # where[e]
  BY <1>1, <1>2, <1>3, <1>7
<1> QED BY <1>5, <1>6, <1>7

LEMMA WorldLoadedEffect ==
  ASSUME TypeOK, NEW e \in Entities, WorldLoaded(e)
  PROVE  /\ UNCHANGED <<client, where, time, arrived, updates, udp, delayed>>
         /\ force' = [force EXCEPT ![e] = TRUE]
         /\ \E details \in Seq(Packet) :
              /\ tcp' = tcp \o details
              /\ \A i \in DOMAIN details : \E f \in Entities, w \in Worlds :
                   details[i] = SetDetails(f, w)
              /\ where[e] = where[Own] =>
                   \A f \in Entities : where[f] = where[Own] =>
                     \E i \in DOMAIN details : details[i] = SetDetails(f, where[Own])
<1> DEFINE w == where[e]
           details == ToListed(w, AllDetails(w))
<1>1. w \in Worlds
  BY DEF TypeOK
<1>2. /\ details \in Seq(Packet)
      /\ \A i \in DOMAIN details : \E f \in Entities : details[i] = SetDetails(f, w)
  BY <1>1, AllDetailsSent
<1>3. w = where[Own] => \A f \in Entities : where[f] = w =>
         \E i \in DOMAIN details : details[i] = SetDetails(f, w)
  <2> SUFFICES ASSUME w = where[Own], NEW f \in Entities, where[f] = w
               PROVE  \E i \in DOMAIN details : details[i] = SetDetails(f, w)
    OBVIOUS
  <2>1. details = AllDetails(w) /\ SetDetails(f, w) \in ToSet(AllDetails(w))
    BY <1>1, AllDetailsAre DEF ToListed, DetailsOf
  <2> QED BY <2>1 DEF ToSet
<1>4. /\ tcp' = tcp \o details /\ force' = [force EXCEPT ![e] = TRUE]
      /\ UNCHANGED <<client, where, time, arrived, updates, udp, delayed>>
  BY DEF WorldLoaded
<1> HIDE DEF details
<1> QED BY <1>1, <1>2, <1>3, <1>4

LEMMA BroadcastEffect ==
  ASSUME TypeOK, NEW e \in Entities, BroadcastEntityState(e)
  PROVE  /\ UNCHANGED <<sceneVars, where, arrived, moves, delayed>>
         /\ force' = [force EXCEPT ![e] = FALSE]
         /\ \/ UNCHANGED <<time, tcp, udp>> /\ (where[Own] # where[e] \/ (e = Own /\ ~force[e]))
            \/ /\ where[Own] = where[e] /\ time' = time + 1 /\ force[e] /\ udp' = udp
               /\ tcp' = Append(tcp, Update(e, where[e], time'))
            \/ /\ where[Own] = where[e] /\ time' = time + 1 /\ ~force[e] /\ e # Own
               /\ tcp' = tcp /\ udp' = udp \union {Update(e, where[e], time')}
BY DEF BroadcastEntityState, TypeOK

LEMMA SecondRemovalEffect ==
  ASSUME TypeOK, SendSecondRemoval
  PROVE  /\ UNCHANGED <<sceneVars, serverVars, udp>>
         /\ DOMAIN delayed = 1..Len(delayed) /\ Len(delayed) \in Nat \ {0}
         /\ delayed[1] \in [packet : Packet, since : Nat]
         /\ delayed[1].packet \in Packet
         /\ tcp' = Append(tcp, delayed[1].packet)
         /\ Timely => \A p \in udp : p.time > delayed[1].since
         /\ DOMAIN delayed' = 1..(Len(delayed) - 1)
         /\ \A i \in DOMAIN delayed' : delayed'[i] = delayed[i + 1]
<1>1. /\ delayed # <<>> /\ delayed \in Seq([packet : Packet, since : Nat])
      /\ tcp' = Append(tcp, Head(delayed).packet) /\ delayed' = Tail(delayed)
      /\ Timely => \A p \in udp : p.time > Head(delayed).since
      /\ UNCHANGED <<sceneVars, serverVars, udp>>
  BY DEF SendSecondRemoval, TypeOK
<1>2. /\ Head(delayed) = delayed[1] /\ Head(delayed) \in [packet : Packet, since : Nat]
      /\ Len(delayed) \in Nat \ {0} /\ DOMAIN delayed = 1..Len(delayed)
      /\ DOMAIN Tail(delayed) = 1..(Len(delayed) - 1)
      /\ \A i \in DOMAIN Tail(delayed) : Tail(delayed)[i] = delayed[i + 1]
  BY <1>1, Shortened
<1> QED BY <1>1, <1>2

LEMMA TransferOwnEffect ==
  ASSUME TypeOK, NEW w \in Worlds, TransferOwn(w)
  PROVE  /\ where[Own] # w /\ where' = [where EXCEPT ![Own] = w] /\ where'[Own] = w
         /\ force' = [force EXCEPT ![Own] = TRUE]
         /\ arrived' = [arrived EXCEPT ![Own] = time]
         /\ Timely => udp = {}
         /\ tcp' = Append(tcp, LoadWorld(w)) /\ LoadWorld(w) \in Packet
         /\ UNCHANGED <<sceneVars, time, updates, udp, delayed>>
BY ScenesAssumption, PacketsMade DEF TransferOwn, Arrive, TypeOK, ScenesAssumption

LEMMA ReceiveTcpEffect ==
  ASSUME TypeOK, ReceiveTcp
  PROVE  /\ DOMAIN tcp = 1..Len(tcp) /\ Len(tcp) \in Nat \ {0}
         /\ tcp[1] \in Packet /\ ProcessPacket(tcp[1])
         /\ DOMAIN tcp' = 1..(Len(tcp) - 1)
         /\ \A i \in DOMAIN tcp' : tcp'[i] = tcp[i + 1]
         /\ UNCHANGED <<serverVars, udp, delayed>>
<1>1. /\ tcp # <<>> /\ tcp \in Seq(Packet) /\ ProcessPacket(Head(tcp)) /\ tcp' = Tail(tcp)
      /\ UNCHANGED <<serverVars, udp, delayed>>
  BY DEF ReceiveTcp, TypeOK
<1>2. /\ Head(tcp) = tcp[1] /\ Head(tcp) \in Packet
      /\ Len(tcp) \in Nat \ {0} /\ DOMAIN tcp = 1..Len(tcp)
      /\ DOMAIN Tail(tcp) = 1..(Len(tcp) - 1)
      /\ \A i \in DOMAIN Tail(tcp) : Tail(tcp)[i] = tcp[i + 1]
  BY <1>1, Shortened
<1> QED BY <1>1, <1>2

\* What can newly be on its way after a step.
NewInTcp(p) ==
  \/ \E i \in DOMAIN tcp : p = tcp[i]
  \/ \E i \in DOMAIN delayed : p = delayed[i].packet
  \/ p.type \in {"loadWorld", "setDetails"}
  \/ \E e \in Entities \ {Own} : p = Removal(e, where[e])
  \/ \E e \in Entities : p = Update(e, where[e], time + 1) /\ time' = time + 1
NewInDelayed(p) ==
  \/ \E i \in DOMAIN delayed : p = delayed[i].packet
  \/ \E e \in Entities \ {Own} : p = Removal(e, where[e])

LEMMA NothingElseTravels ==
  ASSUME TypeOK, [Next]_vars
  PROVE  /\ time' \in {time, time + 1}
         /\ \A i \in DOMAIN tcp' : NewInTcp(tcp'[i])
         /\ \A p \in udp' : p \in udp \/ \E e \in Entities :
              p = Update(e, where[e], time + 1) /\ time' = time + 1
         /\ \A i \in DOMAIN delayed' : NewInDelayed(delayed'[i].packet)
<1> DEFINE NewInUdp(p) == p \in udp \/ \E e \in Entities :
                            p = Update(e, where[e], time + 1) /\ time' = time + 1
           Goal == /\ time' \in {time, time + 1}
                   /\ \A i \in DOMAIN tcp' : NewInTcp(tcp'[i])
                   /\ \A p \in udp' : NewInUdp(p)
                   /\ \A i \in DOMAIN delayed' : NewInDelayed(delayed'[i].packet)
<1>1. /\ tcp \in Seq(Packet) /\ delayed \in Seq([packet : Packet, since : Nat])
      /\ where \in [Entities -> Worlds] /\ time \in Nat /\ Own \in Entities
  BY ScenesAssumption DEF TypeOK, ScenesAssumption
<1>2. ASSUME NEW x \in Packet, NewInTcp(x), tcp' = Append(tcp, x)
      PROVE  \A i \in DOMAIN tcp' : NewInTcp(tcp'[i])
  <2> SUFFICES ASSUME NEW i \in DOMAIN tcp'
               PROVE  NewInTcp(tcp'[i])
    OBVIOUS
  <2>1. CASE i \in DOMAIN tcp
    <3>1. tcp'[i] = tcp[i]
      BY <1>1, <1>2, <2>1, Appended
    <3> QED BY <2>1, <3>1 DEF NewInTcp
  <2>2. CASE i \notin DOMAIN tcp
    BY <1>1, <1>2, <2>2, Appended
  <2> QED BY <2>1, <2>2
<1>3. ASSUME tcp' = tcp
      PROVE  \A i \in DOMAIN tcp' : NewInTcp(tcp'[i])
  BY <1>3 DEF NewInTcp
<1>4. ASSUME delayed' = delayed
      PROVE  \A i \in DOMAIN delayed' : NewInDelayed(delayed'[i].packet)
  BY <1>4 DEF NewInDelayed
<1>5. ASSUME time' = time, udp' = udp
      PROVE  time' \in {time, time + 1} /\ \A p \in udp' : NewInUdp(p)
  BY <1>5
<1> HIDE DEF NewInUdp
<1>6. ASSUME UNCHANGED vars
      PROVE  Goal
  BY <1>3, <1>4, <1>5, <1>6 DEF vars, serverVars, networkVars
<1>7. ASSUME NEW e \in Entities, NEW w \in Worlds, TransferOther(e, w)
      PROVE  Goal
  <2>1. /\ UNCHANGED <<time, udp>> /\ e # Own
        /\ \/ /\ tcp' = Append(tcp, Removal(e, where[e]))
              /\ delayed' = Append(delayed, [packet |-> Removal(e, where[e]), since |-> time])
           \/ tcp' = Append(tcp, SetDetails(e, w)) /\ delayed' = delayed
           \/ UNCHANGED <<tcp, delayed>>
    BY <1>7, TransferOtherEffect
  <2>2. /\ Removal(e, where[e]) \in Packet /\ NewInTcp(Removal(e, where[e]))
        /\ SetDetails(e, w) \in Packet /\ NewInTcp(SetDetails(e, w))
    BY <1>1, <2>1, PacketsMade DEF NewInTcp, SetDetails
  <2>3. \A i \in DOMAIN tcp' : NewInTcp(tcp'[i])
    BY <1>2, <1>3, <2>1, <2>2
  <2>4. \A i \in DOMAIN delayed' : NewInDelayed(delayed'[i].packet)
    <3> DEFINE held == [packet |-> Removal(e, where[e]), since |-> time]
    <3>1. held \in [packet : Packet, since : Nat] /\ NewInDelayed(held.packet)
      BY <1>1, <2>1, <2>2 DEF NewInDelayed
    <3>2. delayed' = Append(delayed, held) \/ delayed' = delayed
      BY <2>1
    <3> HIDE DEF held
    <3>3. CASE delayed' = Append(delayed, held)
      <4> SUFFICES ASSUME NEW i \in DOMAIN delayed'
                   PROVE  NewInDelayed(delayed'[i].packet)
        OBVIOUS
      <4>1. CASE i \in DOMAIN delayed
        <5>1. delayed'[i] = delayed[i]
          BY <1>1, <3>1, <3>3, <4>1, Appended
        <5> QED BY <4>1, <5>1 DEF NewInDelayed
      <4>2. CASE i \notin DOMAIN delayed
        <5>1. delayed'[i] = held
          BY <1>1, <3>1, <3>3, <4>2, Appended
        <5> QED BY <3>1, <5>1
      <4> QED BY <4>1, <4>2
    <3> QED BY <1>4, <3>2, <3>3
  <2> QED BY <1>5, <2>1, <2>3, <2>4
<1>8. ASSUME NEW w \in Worlds, TransferOwn(w)
      PROVE  Goal
  <2>1. /\ UNCHANGED <<time, udp, delayed>> /\ tcp' = Append(tcp, LoadWorld(w))
        /\ LoadWorld(w) \in Packet /\ NewInTcp(LoadWorld(w))
    BY <1>8, TransferOwnEffect DEF NewInTcp, LoadWorld
  <2> QED BY <1>2, <1>4, <1>5, <2>1
<1>9. ASSUME NEW e \in Entities, WorldLoaded(e)
      PROVE  Goal
  <2>1. UNCHANGED <<time, udp, delayed>>
    BY <1>9, WorldLoadedEffect
  <2>2. PICK details \in Seq(Packet) :
          /\ tcp' = tcp \o details
          /\ \A i \in DOMAIN details : \E f \in Entities, w \in Worlds :
               details[i] = SetDetails(f, w)
    BY <1>9, WorldLoadedEffect
  <2>3. \A i \in DOMAIN details : NewInTcp(details[i])
    BY <2>2 DEF NewInTcp, SetDetails
  <2>4. \A i \in DOMAIN tcp' : NewInTcp(tcp'[i])
    <3> SUFFICES ASSUME NEW i \in DOMAIN tcp'
                 PROVE  NewInTcp(tcp'[i])
      OBVIOUS
    <3>1. CASE i \in DOMAIN tcp
      <4>1. tcp'[i] = tcp[i]
        BY <1>1, <2>2, <3>1, Joined
      <4> QED BY <3>1, <4>1 DEF NewInTcp
    <3>2. CASE i \notin DOMAIN tcp
      <4>1. i - Len(tcp) \in DOMAIN details /\ tcp'[i] = details[i - Len(tcp)]
        BY <1>1, <2>2, <3>2, Joined
      <4> QED BY <2>3, <4>1
    <3> QED BY <3>1, <3>2
  <2> QED BY <1>4, <1>5, <2>1, <2>4
<1>10. ASSUME NEW e \in Entities, BroadcastEntityState(e)
       PROVE  Goal
  <2> DEFINE u == Update(e, where[e], time + 1)
  <2>1. /\ delayed' = delayed
        /\ \/ UNCHANGED <<time, tcp, udp>>
           \/ time' = time + 1 /\ udp' = udp /\ tcp' = Append(tcp, u)
           \/ time' = time + 1 /\ udp' = udp \union {u} /\ tcp' = tcp
    BY <1>10, BroadcastEffect
  <2>2. u \in Packet /\ (time' = time + 1 => NewInTcp(u) /\ NewInUdp(u))
    BY <1>1, PacketsMade DEF NewInTcp, NewInUdp
  <2>3. \A p \in udp : NewInUdp(p)
    BY DEF NewInUdp
  <2> HIDE DEF u
  <2> QED BY <1>2, <1>3, <1>4, <2>1, <2>2, <2>3
<1>11. ASSUME SendSecondRemoval
       PROVE  Goal
  <2>1. /\ UNCHANGED <<time, udp>> /\ delayed[1].packet \in Packet /\ 1 \in DOMAIN delayed
        /\ tcp' = Append(tcp, delayed[1].packet)
        /\ \A i \in DOMAIN delayed' : i + 1 \in DOMAIN delayed /\ delayed'[i] = delayed[i + 1]
    BY <1>11, SecondRemovalEffect DEF serverVars
  <2>2. /\ NewInTcp(delayed[1].packet)
        /\ \A i \in DOMAIN delayed' : NewInDelayed(delayed'[i].packet)
    BY <2>1 DEF NewInTcp, NewInDelayed
  <2> QED BY <1>2, <1>5, <2>1, <2>2
<1>12. ASSUME ReceiveTcp
       PROVE  Goal
  <2>1. /\ UNCHANGED <<time, udp, delayed>>
        /\ \A i \in DOMAIN tcp' : i + 1 \in DOMAIN tcp /\ tcp'[i] = tcp[i + 1]
    BY <1>12, ReceiveTcpEffect DEF serverVars
  <2>2. \A i \in DOMAIN tcp' : NewInTcp(tcp'[i])
    BY <2>1 DEF NewInTcp
  <2> QED BY <1>4, <1>5, <2>1, <2>2
<1>13. ASSUME NEW p \in udp, ReceiveUdp(p) \/ LoseUdp(p)
       PROVE  Goal
  <2>1. UNCHANGED <<time, tcp, delayed>> /\ udp' \subseteq udp
    BY <1>13 DEF ReceiveUdp, LoseUdp, serverVars
  <2> QED BY <1>3, <1>4, <2>1 DEF NewInUdp
<1>14. ASSUME ClientFrame \/ ClientFails
       PROVE  Goal
  BY <1>3, <1>4, <1>5, <1>14 DEF ClientFrame, ClientFails, serverVars, networkVars
<1> HIDE DEF Goal
<1>15. ASSUME HandleOwnWorldLoaded \/ \E e \in Entities : HandleOtherWorldLoaded(e)
       PROVE  Goal
  BY <1>1, <1>9, <1>15 DEF HandleOwnWorldLoaded, HandleOtherWorldLoaded
<1>16. Goal
  BY <1>6, <1>7, <1>8, <1>10, <1>11, <1>12, <1>13, <1>14, <1>15 DEF Next
<1> QED BY <1>16 DEF Goal, NewInUdp

-----------------------------------------------------------------------------
(***************************************************************************)
(* The character the player controls.                                      *)
(***************************************************************************)
LEMMA OwnStep ==
  ASSUME TypeOK, PastUpdates, OwnNeverRemoved, [Next]_vars
  PROVE  PastUpdates' /\ OwnNeverRemoved'
<1>1. time \in Nat /\ time' \in {time, time + 1}
  BY NothingElseTravels DEF TypeOK
<1>2. ASSUME NEW i \in DOMAIN tcp'
      PROVE  Stamped(tcp[i])' /\ ~IsRemovalOf(tcp'[i], Own)
  <2> DEFINE p == tcp'[i]
  <2>1. NewInTcp(p)
    BY NothingElseTravels
  <2>2. (p.type = "update" => p.time \in 1..time') /\ ~IsRemovalOf(p, Own)
    <3> HIDE DEF p
    <3>1. ASSUME NEW j \in DOMAIN tcp, p = tcp[j]
          PROVE  (p.type = "update" => p.time \in 1..time') /\ ~IsRemovalOf(p, Own)
      BY <1>1, <3>1 DEF PastUpdates, OwnNeverRemoved, Stamped
    <3>2. ASSUME NEW j \in DOMAIN delayed, p = delayed[j].packet
          PROVE  p.type = "remove" /\ ~IsRemovalOf(p, Own)
      BY <3>2 DEF OwnNeverRemoved
    <3>3. ASSUME NEW e \in Entities \ {Own}, p = Removal(e, where[e])
          PROVE  p.type = "remove" /\ ~IsRemovalOf(p, Own)
      BY <3>3 DEF Removal, IsRemovalOf
    <3>4. ASSUME NEW e \in Entities, p = Update(e, where[e], time + 1), time' = time + 1
          PROVE  p.type = "update" /\ p.time \in 1..time'
      BY <1>1, <3>4 DEF Update
    <3> QED BY <2>1, <3>1, <3>2, <3>3, <3>4 DEF NewInTcp, IsRemovalOf
  <2> QED BY <2>2 DEF Stamped
<1>3. ASSUME NEW p \in udp'
      PROVE  Stamped(p)'
  <2>1. CASE p \in udp
    BY <1>1, <2>1 DEF PastUpdates, Stamped
  <2>2. ASSUME NEW e \in Entities, p = Update(e, where[e], time + 1), time' = time + 1
        PROVE  Stamped(p)'
    BY <1>1, <2>2 DEF Update, Stamped
  <2> QED BY <2>1, <2>2, NothingElseTravels
<1>4. ASSUME NEW i \in DOMAIN delayed'
      PROVE  delayed'[i].packet.type = "remove" /\ ~IsRemovalOf(delayed'[i].packet, Own)
  <2> DEFINE p == delayed'[i].packet
  <2>1. NewInDelayed(p)
    BY NothingElseTravels
  <2> HIDE DEF p
  <2>2. p.type = "remove" /\ ~IsRemovalOf(p, Own)
    BY <2>1 DEF NewInDelayed, OwnNeverRemoved, Removal, IsRemovalOf
  <2> QED BY <2>2 DEF p
<1> QED BY <1>2, <1>3, <1>4 DEF PastUpdates, OwnNeverRemoved

LEMMA ControlledStep ==
  ASSUME TypeOK, ScenesAgree, PastUpdates, OwnNeverRemoved, ControlledCharacterIsShown,
         [Next]_vars
  PROVE  ControlledCharacterIsShown'
<1> USE DEF ControlledCharacterIsShown, Shown
<1>1. client \in ClientType /\ reports \in Nat /\ Own \in Entities
  BY ScenesAssumption DEF TypeOK, ScenesTypeOK, ScenesAssumption
<1>2. CASE client' = client
  BY <1>2
<1>3. ASSUME NEW p \in Packet, ProcessPacket(p), Running, Stamped(p), ~IsRemovalOf(p, Own)
      PROVE  ControlledCharacterIsShown'
  <2>1. CASE IsLoad(p)
    <3>1. client' = [client EXCEPT !.parameter = p.world, !.queued = client'.queued,
                                   !.isLoading = client'.isLoading]
      BY <1>1, <1>3, <2>1, LoadPacketEffect
    <3> QED BY <1>1, <3>1 DEF ClientType
  <2>2. CASE ~IsLoad(p) /\ (client.scene # "world" \/ p.world # client.world)
    BY <1>1, <1>2, <1>3, <2>2, DroppedPacketEffect
  <2>3. CASE p.type = "update" /\ client.scene = "world" /\ p.world = client.world
    <3>1. p \in UpdatePacket /\ p.entity \in Entities /\ p.time \in Nat \ {0}
      BY <1>3, <2>3, PacketKinds DEF Packet, Stamped
    <3>2. /\ client'.shown = [client.shown EXCEPT ![p.entity] = IF p.time > @ THEN p.time ELSE @]
          /\ client'.hasCharacter => client.hasCharacter \/ p.entity = Own
          /\ client'.scene = "world"
      BY <1>1, <1>3, <2>3, <3>1, UpdateEffect
    <3>3. client.shown \in [Entities -> Nat]
      BY <1>1 DEF ClientType
    <3> QED BY <1>1, <3>1, <3>2, <3>3
  <2>4. CASE p.type = "remove" /\ client.scene = "world" /\ p.world = client.world
    <3>1. client' = [client EXCEPT !.shown[p.entity] = 0, !.detailed = @ \ {p.entity}]
      BY <1>1, <1>3, <2>4, RemovalEffect
    <3>2. p.entity # Own /\ p.entity \in Entities
      BY <1>3, <2>4, PacketKinds DEF IsRemovalOf
    <3> QED BY <1>1, <3>1, <3>2 DEF ClientType
  <2>5. CASE p.type = "setDetails" /\ client.scene = "world" /\ p.world = client.world
    <3>1. client' = IF client.shown[p.entity] = 0
                      THEN [client EXCEPT !.cached = @ \union {p.entity}]
                      ELSE [client EXCEPT !.detailed = @ \union {p.entity}]
      BY <1>1, <1>3, <2>5, DetailsEffect
    <3> QED BY <1>1, <3>1 DEF ClientType
  <2> QED BY <2>1, <2>2, <2>3, <2>4, <2>5, PacketKinds DEF IsLoad
<1>4. ASSUME NEW p \in udp, ReceiveUdp(p), Running
      PROVE  ControlledCharacterIsShown'
  <2>1. p \in Packet /\ p.type = "update"
    BY DEF TypeOK, Packet, UpdatePacket
  <2> QED BY <1>3, <1>4, <2>1 DEF ReceiveUdp, PastUpdates, IsRemovalOf
<1>5. CASE ReceiveTcp /\ Running
  <2>1. 1 \in DOMAIN tcp /\ tcp[1] \in Packet /\ ProcessPacket(tcp[1])
    BY <1>5, ReceiveTcpEffect
  <2> QED BY <1>3, <1>5, <2>1 DEF PastUpdates, OwnNeverRemoved
<1>6. CASE ClientFrame /\ Running
  BY <1>1, <1>6, FrameEffect DEF ClientFrame
<1>7. CASE ClientFails /\ Running
  BY <1>1, <1>7, FailureEffect DEF ClientFails
<1>8. CASE UNCHANGED vars
  BY <1>2, <1>8 DEF vars, sceneVars
<1>9. ASSUME \/ \E e \in Entities, w \in Worlds : TransferOther(e, w)
             \/ \E w \in Worlds : TransferOwn(w)
             \/ HandleOwnWorldLoaded
             \/ \E e \in Entities : HandleOtherWorldLoaded(e)
             \/ \E e \in Entities : BroadcastEntityState(e)
             \/ SendSecondRemoval
             \/ \E p \in udp : LoseUdp(p)
      PROVE  client' = client
  BY <1>9 DEF TransferOther, TransferOwn, HandleOwnWorldLoaded, HandleOtherWorldLoaded, WorldLoaded,
              BroadcastEntityState, SendSecondRemoval, LoseUdp, sceneVars
<1> QED BY <1>2, <1>4, <1>5, <1>6, <1>7, <1>8, <1>9 DEF Next

\* However often the client changes scene while updates, removals and details
\* of its own character are on their way, it never keeps hold of a character
\* that its scene does not show: nothing removes that character before the
\* scene goes, and the scene takes it along.
THEOREM NeverControlsAHiddenCharacter == Spec => []ControlledCharacterIsShown
<1> DEFINE Inv == /\ TypeOK /\ ScenesAgree /\ PastUpdates /\ OwnNeverRemoved
                  /\ ControlledCharacterIsShown
<1>1. Init => Inv
  <2> SUFFICES ASSUME Init PROVE PastUpdates /\ OwnNeverRemoved /\ ControlledCharacterIsShown
    BY TypeInit
  <2>1. PastUpdates /\ OwnNeverRemoved
    BY DEF Init, PastUpdates, OwnNeverRemoved, Stamped, IsRemovalOf, LoadWorld
  <2> QED BY <2>1 DEF Init, ScenesInit, ControlledCharacterIsShown
<1>2. Inv /\ [Next]_vars => Inv'
  BY TypeStep, OwnStep, ControlledStep
<1>3. Inv => ControlledCharacterIsShown
  OBVIOUS
<1> QED BY <1>1, <1>2, <1>3, PTL DEF Spec

-----------------------------------------------------------------------------
(***************************************************************************)
(* The world the client is heading for.                                    *)
(***************************************************************************)

\* The stream is as it was, or has more at its end.
Grows ==
  /\ DOMAIN tcp \subseteq DOMAIN tcp'
  /\ \A i \in DOMAIN tcp : tcp'[i] = tcp[i]
  /\ \A i \in DOMAIN tcp, j \in DOMAIN tcp' \ DOMAIN tcp : i < j

LEMMA Grown ==
  ASSUME tcp \in Seq(Packet)
  PROVE  /\ tcp' = tcp => Grows
         /\ \A p \in Packet : tcp' = Append(tcp, p) =>
              /\ Grows /\ Len(tcp) + 1 \in DOMAIN tcp' \ DOMAIN tcp
              /\ tcp'[Len(tcp) + 1] = p
              /\ \A i \in DOMAIN tcp' \ DOMAIN tcp : tcp'[i] = p
         /\ \A s \in Seq(Packet) : tcp' = tcp \o s =>
              /\ Grows
              /\ \A i \in DOMAIN tcp' \ DOMAIN tcp : \E j \in DOMAIN s : tcp'[i] = s[j]
              /\ \A j \in DOMAIN s : \E i \in DOMAIN tcp' \ DOMAIN tcp : tcp'[i] = s[j]
<1>1. ASSUME tcp' = tcp
      PROVE  Grows
  BY <1>1 DEF Grows
<1>2. ASSUME NEW p \in Packet, tcp' = Append(tcp, p)
      PROVE  /\ Grows /\ Len(tcp) + 1 \in DOMAIN tcp' \ DOMAIN tcp
             /\ tcp'[Len(tcp) + 1] = p
             /\ \A i \in DOMAIN tcp' \ DOMAIN tcp : tcp'[i] = p
  <2>1. /\ DOMAIN tcp' = 1..(Len(tcp) + 1) /\ DOMAIN tcp = 1..Len(tcp) /\ Len(tcp) \in Nat
        /\ \A i \in DOMAIN tcp : tcp'[i] = tcp[i]
        /\ tcp'[Len(tcp) + 1] = p
    BY <1>2, Appended
  <2> QED BY <2>1 DEF Grows
<1>3. ASSUME NEW s \in Seq(Packet), tcp' = tcp \o s
      PROVE  /\ Grows
             /\ \A i \in DOMAIN tcp' \ DOMAIN tcp : \E j \in DOMAIN s : tcp'[i] = s[j]
             /\ \A j \in DOMAIN s : \E i \in DOMAIN tcp' \ DOMAIN tcp : tcp'[i] = s[j]
  <2>1. /\ DOMAIN tcp' = 1..(Len(tcp) + Len(s)) /\ Len(tcp) \in Nat /\ Len(s) \in Nat
        /\ DOMAIN tcp = 1..Len(tcp) /\ DOMAIN s = 1..Len(s)
        /\ \A i \in DOMAIN tcp : tcp'[i] = tcp[i]
        /\ \A i \in DOMAIN s : tcp'[Len(tcp) + i] = s[i]
        /\ \A i \in DOMAIN tcp' \ DOMAIN tcp :
             i - Len(tcp) \in DOMAIN s /\ tcp'[i] = s[i - Len(tcp)]
    BY <1>3, Joined
  <2>2. Grows
    BY <2>1 DEF Grows
  <2>3. \A i \in DOMAIN tcp' \ DOMAIN tcp : \E j \in DOMAIN s : tcp'[i] = s[j]
    BY <2>1
  <2>4. ASSUME NEW j \in DOMAIN s
        PROVE  Len(tcp) + j \in DOMAIN tcp' \ DOMAIN tcp
    BY <2>1
  <2> QED BY <2>1, <2>2, <2>3, <2>4
<1> QED BY <1>1, <1>2, <1>3

LEMMA HomeKept ==
  ASSUME HeadingHome, Grows, Running' => Running, UNCHANGED where[Own],
         \A i \in DOMAIN tcp' \ DOMAIN tcp : ~IsLoad(tcp'[i]),
         Running' => Target' = Target
  PROVE  HeadingHome'
<1>1. LoadsComing => LoadsComing'
  BY DEF Grows, LoadsComing, IsLoad
<1>2. ASSUME NEW i \in DOMAIN tcp', IsLoad(tcp'[i])
      PROVE  tcp'[i].world = where'[Own] \/ \E j \in DOMAIN tcp' : i < j /\ IsLoad(tcp'[j])
  <2>1. i \in DOMAIN tcp /\ tcp'[i] = tcp[i]
    BY <1>2 DEF Grows
  <2>2. tcp[i].world = where[Own] \/ \E j \in DOMAIN tcp : i < j /\ IsLoad(tcp[j])
    BY <1>2, <2>1 DEF HeadingHome
  <2> QED BY <2>1, <2>2 DEF Grows
<1> QED BY <1>1, <1>2 DEF HeadingHome, IsLoad

LEMMA ServerKeepsHome ==
  ASSUME TypeOK, HeadingHome,
         \/ \E e \in Entities, w \in Worlds : TransferOther(e, w)
         \/ HandleOwnWorldLoaded
         \/ \E e \in Entities : HandleOtherWorldLoaded(e)
         \/ \E e \in Entities : BroadcastEntityState(e)
  PROVE  HeadingHome'
<1> SUFFICES ASSUME UNCHANGED client
             PROVE  /\ Grows /\ UNCHANGED where[Own]
                    /\ \A i \in DOMAIN tcp' \ DOMAIN tcp : ~IsLoad(tcp'[i])
  <2>1. UNCHANGED client
    BY DEF TransferOther, HandleOwnWorldLoaded, HandleOtherWorldLoaded, WorldLoaded,
           BroadcastEntityState, sceneVars
  <2> QED BY <2>1, HomeKept DEF Running, Target
<1> DEFINE Goal == /\ Grows /\ UNCHANGED where[Own]
                   /\ \A i \in DOMAIN tcp' \ DOMAIN tcp : ~IsLoad(tcp'[i])
<1>1. tcp \in Seq(Packet) /\ Own \in Entities /\ where \in [Entities -> Worlds] /\ time \in Nat
  BY ScenesAssumption DEF TypeOK, ScenesAssumption
<1>2. ASSUME UNCHANGED where[Own], tcp' = tcp
      PROVE  Goal
  BY <1>1, <1>2, Grown
<1>3. ASSUME UNCHANGED where[Own], NEW p \in Packet, ~IsLoad(p), tcp' = Append(tcp, p)
      PROVE  Goal
  BY <1>1, <1>3, Grown
<1> HIDE DEF Goal
<1>4. ASSUME NEW e \in Entities, NEW w \in Worlds, TransferOther(e, w)
      PROVE  Goal
  <2>1. /\ UNCHANGED where[Own]
        /\ \/ tcp' = Append(tcp, Removal(e, where[e])) \/ tcp' = Append(tcp, SetDetails(e, w))
           \/ tcp' = tcp
    BY <1>4, TransferOtherEffect
  <2>2. /\ Removal(e, where[e]) \in Packet /\ ~IsLoad(Removal(e, where[e]))
        /\ SetDetails(e, w) \in Packet /\ ~IsLoad(SetDetails(e, w))
    BY <1>1, PacketsMade DEF Removal, SetDetails, IsLoad
  <2> QED BY <1>2, <1>3, <2>1, <2>2
<1>5. ASSUME NEW e \in Entities, WorldLoaded(e)
      PROVE  Goal
  <2>1. where' = where
    BY <1>5, WorldLoadedEffect
  <2>2. PICK details \in Seq(Packet) :
          /\ tcp' = tcp \o details
          /\ \A i \in DOMAIN details : \E f \in Entities, w \in Worlds :
               details[i] = SetDetails(f, w)
    BY <1>5, WorldLoadedEffect
  <2>3. \A i \in DOMAIN details : ~IsLoad(details[i])
    BY <2>2 DEF SetDetails, IsLoad
  <2>4. Grows /\ \A i \in DOMAIN tcp' \ DOMAIN tcp : \E j \in DOMAIN details : tcp'[i] = details[j]
    BY <1>1, <2>2, Grown
  <2> QED BY <2>1, <2>3, <2>4 DEF Goal
<1>6. ASSUME NEW e \in Entities, BroadcastEntityState(e)
      PROVE  Goal
  <2> DEFINE u == Update(e, where[e], time + 1)
  <2>1. UNCHANGED where[Own] /\ (tcp' = tcp \/ tcp' = Append(tcp, u))
    BY <1>6, BroadcastEffect
  <2>2. u \in Packet /\ ~IsLoad(u)
    <3>1. u \in Packet
      BY <1>1, PacketsMade
    <3> QED BY <3>1 DEF Update, IsLoad
  <2> QED BY <1>2, <1>3, <2>1, <2>2
<1>7. Goal
  BY <1>1, <1>4, <1>5, <1>6 DEF HandleOwnWorldLoaded, HandleOtherWorldLoaded
<1> QED BY <1>7 DEF Goal

LEMMA PacketKeepsHome ==
  ASSUME TypeOK, ScenesAgree, HeadingHome, Running,
         ReceiveTcp \/ \E p \in udp : ReceiveUdp(p)
  PROVE  HeadingHome'
<1>1. client \in ClientType
  BY DEF TypeOK, ScenesTypeOK
<1>2. ASSUME NEW p \in Packet, ProcessPacket(p), ~IsLoad(p)
      PROVE  Target' = Target
  BY <1>1, <1>2, OtherPacketEffect DEF Target
<1>3. CASE ReceiveTcp
  <2>1. /\ DOMAIN tcp = 1..Len(tcp) /\ Len(tcp) \in Nat \ {0}
        /\ tcp[1] \in Packet /\ ProcessPacket(tcp[1])
        /\ DOMAIN tcp' = 1..(Len(tcp) - 1)
        /\ \A i \in DOMAIN tcp' : tcp'[i] = tcp[i + 1]
        /\ UNCHANGED where
    BY <1>3, ReceiveTcpEffect DEF serverVars
  <2>2. ASSUME NEW j \in DOMAIN tcp, j # 1
        PROVE  j - 1 \in DOMAIN tcp' /\ tcp'[j - 1] = tcp[j]
    BY <2>1, <2>2
  <2>3. ASSUME NEW i \in DOMAIN tcp', IsLoad(tcp'[i])
        PROVE  tcp'[i].world = where'[Own] \/ \E j \in DOMAIN tcp' : i < j /\ IsLoad(tcp'[j])
    <3>1. i + 1 \in DOMAIN tcp /\ tcp'[i] = tcp[i + 1]
      BY <2>1
    <3>2. CASE tcp[i + 1].world = where[Own]
      BY <2>1, <3>1, <3>2
    <3>3. CASE tcp[i + 1].world # where[Own]
      <4>1. PICK j \in DOMAIN tcp : i + 1 < j /\ IsLoad(tcp[j])
        BY <2>3, <3>1, <3>3 DEF HeadingHome
      <4>2. j - 1 \in DOMAIN tcp' /\ tcp'[j - 1] = tcp[j] /\ i < j - 1
        BY <2>1, <2>2, <4>1
      <4> QED BY <4>1, <4>2
    <3> QED BY <3>2, <3>3
  <2>4. ASSUME ~LoadsComing', Running'
        PROVE  Target' = where'[Own]
    <3>1. \A i \in DOMAIN tcp' : ~IsLoad(tcp'[i])
      BY <2>4 DEF LoadsComing, IsLoad
    <3>2. \A j \in DOMAIN tcp : j # 1 => ~IsLoad(tcp[j])
      BY <2>2, <3>1
    <3>3. CASE IsLoad(tcp[1])
      <4>1. tcp[1].world = where[Own]
        BY <2>1, <3>2, <3>3 DEF HeadingHome
      <4>2. /\ client' = [client EXCEPT !.parameter = tcp[1].world, !.queued = client'.queued,
                                         !.isLoading = client'.isLoading]
            /\ client'.queued # NoScene
        BY <1>1, <2>1, <3>3, LoadPacketEffect DEF NoScene
      <4>3. Target' = tcp[1].world
        BY <1>1, <4>2 DEF Target, ClientType
      <4> QED BY <2>1, <4>1, <4>3
    <3>4. CASE ~IsLoad(tcp[1])
      <4>1. ~LoadsComing
        BY <3>2, <3>4 DEF LoadsComing
      <4> QED BY <1>2, <2>1, <3>4, <4>1 DEF HeadingHome
    <3> QED BY <3>3, <3>4
  <2> QED BY <2>3, <2>4 DEF HeadingHome, IsLoad
<1>4. ASSUME NEW p \in udp, ReceiveUdp(p)
      PROVE  HeadingHome'
  <2>1. p \in Packet /\ ~IsLoad(p) /\ ProcessPacket(p)
    BY <1>4 DEF ReceiveUdp, TypeOK, Packet, UpdatePacket, IsLoad
  <2>2. UNCHANGED <<where, tcp>> /\ Grows
    BY <1>4, Grown DEF ReceiveUdp, serverVars, TypeOK
  <2> QED BY <1>2, <2>1, <2>2, HomeKept
<1> QED BY <1>3, <1>4

LEMMA HomeStep ==
  ASSUME TypeOK, ScenesAgree, OwnNeverRemoved, HeadingHome, [Next]_vars
  PROVE  HeadingHome'
<1>1. /\ client \in ClientType /\ reports \in Nat /\ tcp \in Seq(Packet) /\ Own \in Entities
      /\ where \in [Entities -> Worlds]
  BY ScenesAssumption DEF TypeOK, ScenesTypeOK, ScenesAssumption
<1>2. ASSUME NEW w \in Worlds, TransferOwn(w)
      PROVE  HeadingHome'
  <2>1. tcp' = Append(tcp, LoadWorld(w)) /\ LoadWorld(w) \in Packet /\ where'[Own] = w
    BY <1>2, TransferOwnEffect
  <2> DEFINE last == Len(tcp) + 1
  <2>2. /\ Grows /\ last \in DOMAIN tcp' \ DOMAIN tcp /\ tcp'[last] = LoadWorld(w)
        /\ \A i \in DOMAIN tcp' \ DOMAIN tcp : tcp'[i] = LoadWorld(w)
    BY <1>1, <2>1, Grown
  <2>3. IsLoad(tcp'[last]) /\ LoadsComing'
    BY <2>2 DEF IsLoad, LoadWorld, LoadsComing
  <2>4. ASSUME NEW i \in DOMAIN tcp', IsLoad(tcp'[i])
        PROVE  tcp'[i].world = where'[Own] \/ \E j \in DOMAIN tcp' : i < j /\ IsLoad(tcp'[j])
    <3>1. CASE i \in DOMAIN tcp
      <4>1. i < last
        BY <2>2, <3>1 DEF Grows
      <4> QED BY <2>2, <2>3, <4>1
    <3>2. CASE i \notin DOMAIN tcp
      BY <2>1, <2>2, <3>2 DEF LoadWorld
    <3> QED BY <3>1, <3>2
  <2> QED BY <2>3, <2>4 DEF HeadingHome, IsLoad
<1>3. CASE SendSecondRemoval
  <2>1. /\ tcp' = Append(tcp, delayed[1].packet) /\ delayed[1].packet \in Packet
        /\ UNCHANGED <<client, where>> /\ 1 \in DOMAIN delayed
    BY <1>3, SecondRemovalEffect DEF serverVars, sceneVars
  <2>2. ~IsLoad(delayed[1].packet)
    BY <2>1 DEF OwnNeverRemoved, IsLoad
  <2>3. Grows /\ \A i \in DOMAIN tcp' \ DOMAIN tcp : tcp'[i] = delayed[1].packet
    BY <1>1, <2>1, Grown
  <2> QED BY <2>1, <2>2, <2>3, HomeKept DEF Running, Target
<1>4. CASE Running /\ ClientFrame
  <2>1. /\ client'.scene \in {"loading", "world"} /\ client'.queued = NoScene
        /\ client'.toLoad = IF client'.scene = "loading" THEN Target ELSE NoWorld
        /\ client'.world = IF client'.scene = "world" THEN Target ELSE NoWorld
    BY <1>1, <1>4, FrameEffect DEF ClientFrame
  <2>2. Target' = Target
    BY <2>1 DEF Target
  <2>3. UNCHANGED <<where, tcp>> /\ Grows
    BY <1>1, <1>4, Grown DEF ClientFrame, serverVars, networkVars
  <2> QED BY <1>4, <2>2, <2>3, HomeKept
<1>5. CASE Running /\ ClientFails
  <2>1. client'.scene = Ended
    BY <1>1, <1>5, FailureEffect DEF ClientFails
  <2>2. UNCHANGED <<where, tcp>> /\ Grows
    BY <1>1, <1>5, Grown DEF ClientFails, serverVars, networkVars
  <2> QED BY <2>1, <2>2, HomeKept DEF Running
<1>6. CASE UNCHANGED vars \/ \E p \in udp : LoseUdp(p)
  <2>1. UNCHANGED <<client, where, tcp>> /\ Grows
    BY <1>1, <1>6, Grown DEF vars, sceneVars, serverVars, networkVars, LoseUdp
  <2> QED BY <2>1, HomeKept DEF Running, Target
<1> QED BY <1>2, <1>3, <1>4, <1>5, <1>6, ServerKeepsHome, PacketKeepsHome DEF Next

-----------------------------------------------------------------------------
(***************************************************************************)
(* What comes after an update of an entity that is gone.                   *)
(***************************************************************************)
FollowedInTcp(i) ==
  \/ Current(tcp[i])
  \/ \E j \in DOMAIN tcp : /\ i < j
                           /\ IsLoad(tcp[j]) \/ tcp[j] = Removal(tcp[i].entity, tcp[i].world)

LEMMA TcpUpdatesKept ==
  ASSUME TcpUpdatesFollowed, Grows,
         \A i \in DOMAIN tcp : Current(tcp[i]) =>
           Current(tcp[i])' \/ \E j \in DOMAIN tcp' \ DOMAIN tcp :
             IsLoad(tcp'[j]) \/ tcp'[j] = Removal(tcp[i].entity, tcp[i].world),
         \A i \in DOMAIN tcp' \ DOMAIN tcp : tcp'[i].type = "update" => FollowedInTcp(i)'
  PROVE  TcpUpdatesFollowed'
<1> SUFFICES ASSUME NEW i \in DOMAIN tcp', tcp'[i].type = "update"
             PROVE  FollowedInTcp(i)'
  BY DEF TcpUpdatesFollowed, FollowedInTcp, Current, IsLoad
<1>1. CASE i \in DOMAIN tcp' \ DOMAIN tcp
  BY <1>1
<1>2. CASE i \in DOMAIN tcp
  <2>1. tcp'[i] = tcp[i]
    BY <1>2 DEF Grows
  <2>2. CASE Current(tcp[i])'
    BY <2>2 DEF FollowedInTcp
  <2>3. ASSUME NEW j \in DOMAIN tcp', i < j,
               IsLoad(tcp'[j]) \/ tcp'[j] = Removal(tcp[i].entity, tcp[i].world)
        PROVE  FollowedInTcp(i)'
    BY <2>1, <2>3 DEF FollowedInTcp, IsLoad
  <2>4. ASSUME NEW j \in DOMAIN tcp' \ DOMAIN tcp,
               IsLoad(tcp'[j]) \/ tcp'[j] = Removal(tcp[i].entity, tcp[i].world)
        PROVE  FollowedInTcp(i)'
    BY <1>2, <2>3, <2>4 DEF Grows
  <2>5. ASSUME NEW j \in DOMAIN tcp, i < j,
               IsLoad(tcp[j]) \/ tcp[j] = Removal(tcp[i].entity, tcp[i].world)
        PROVE  FollowedInTcp(i)'
    BY <2>3, <2>5 DEF Grows
  <2> QED BY <1>2, <2>1, <2>2, <2>4, <2>5 DEF TcpUpdatesFollowed
<1> QED BY <1>1, <1>2

LEMMA TcpUpdatesStep ==
  ASSUME TypeOK, OwnNeverRemoved, TcpUpdatesFollowed, [Next]_vars
  PROVE  TcpUpdatesFollowed'
<1>1. /\ tcp \in Seq(Packet) /\ Own \in Entities /\ where \in [Entities -> Worlds]
      /\ time \in Nat /\ arrived \in [Entities -> 0..time]
  BY ScenesAssumption DEF TypeOK, ScenesAssumption
<1>2. ASSUME UNCHANGED <<where, arrived>>, Grows,
             \A i \in DOMAIN tcp' \ DOMAIN tcp :
               tcp'[i].type = "update" => FollowedInTcp(i)'
      PROVE  TcpUpdatesFollowed'
  BY <1>2, TcpUpdatesKept DEF Current, Grows
<1>3. ASSUME NEW e \in Entities, NEW w \in Worlds, TransferOther(e, w)
      PROVE  TcpUpdatesFollowed'
  <2>1. /\ e # Own /\ where' = [where EXCEPT ![e] = w] /\ where'[Own] = where[Own]
        /\ arrived' = [arrived EXCEPT ![e] = time] /\ where[e] # w
        /\ \/ where[e] = where[Own] /\ tcp' = Append(tcp, Removal(e, where[e]))
           \/ tcp' = Append(tcp, SetDetails(e, w)) /\ where[e] # where[Own]
           \/ tcp' = tcp /\ where[e] # where[Own]
    BY <1>3, TransferOtherEffect
  <2>2. /\ Removal(e, where[e]) \in Packet /\ Removal(e, where[e]).type # "update"
        /\ SetDetails(e, w) \in Packet /\ SetDetails(e, w).type # "update"
    BY <1>1, PacketsMade DEF Removal, SetDetails
  <2>3. Grows /\ \A i \in DOMAIN tcp' \ DOMAIN tcp : tcp'[i].type # "update"
    BY <1>1, <2>1, <2>2, Grown
  <2>4. ASSUME NEW i \in DOMAIN tcp, Current(tcp[i]), ~Current(tcp[i])'
        PROVE  \E j \in DOMAIN tcp' \ DOMAIN tcp : tcp'[j] = Removal(tcp[i].entity, tcp[i].world)
    <3>1. tcp'[i] = tcp[i]
      BY <2>3 DEF Grows
    <3>2. tcp[i].entity = e
      BY <1>1, <2>1, <2>4, <3>1 DEF Current
    <3>3. where[e] = where[Own] /\ tcp[i].world = where[e]
      BY <2>4, <3>2 DEF Current
    <3>4. tcp' = Append(tcp, Removal(e, where[e]))
      BY <2>1, <3>3
    <3> QED BY <1>1, <2>2, <3>2, <3>3, <3>4, Grown
  <2> QED BY <2>3, <2>4, TcpUpdatesKept
<1>4. ASSUME NEW w \in Worlds, TransferOwn(w)
      PROVE  TcpUpdatesFollowed'
  <2>1. tcp' = Append(tcp, LoadWorld(w)) /\ LoadWorld(w) \in Packet
    BY <1>4, TransferOwnEffect
  <2>2. /\ Grows /\ \A i \in DOMAIN tcp' \ DOMAIN tcp : tcp'[i] = LoadWorld(w)
        /\ \E j \in DOMAIN tcp' \ DOMAIN tcp : tcp'[j] = LoadWorld(w)
    BY <1>1, <2>1, Grown
  <2>3. IsLoad(LoadWorld(w)) /\ LoadWorld(w).type # "update"
    BY DEF IsLoad, LoadWorld
  <2> QED BY <2>2, <2>3, TcpUpdatesKept
<1>5. ASSUME NEW e \in Entities, WorldLoaded(e)
      PROVE  TcpUpdatesFollowed'
  <2>1. UNCHANGED <<where, arrived>>
    BY <1>5, WorldLoadedEffect
  <2>2. PICK details \in Seq(Packet) :
          /\ tcp' = tcp \o details
          /\ \A i \in DOMAIN details : \E f \in Entities, w \in Worlds :
               details[i] = SetDetails(f, w)
    BY <1>5, WorldLoadedEffect
  <2>3. \A i \in DOMAIN details : details[i].type # "update"
    BY <2>2 DEF SetDetails
  <2>4. Grows /\ \A i \in DOMAIN tcp' \ DOMAIN tcp : \E j \in DOMAIN details : tcp'[i] = details[j]
    BY <1>1, <2>2, Grown
  <2> QED BY <1>2, <2>1, <2>3, <2>4
<1>6. ASSUME NEW e \in Entities, BroadcastEntityState(e)
      PROVE  TcpUpdatesFollowed'
  <2> DEFINE u == Update(e, where[e], time + 1)
  <2>1. /\ UNCHANGED <<where, arrived>>
        /\ tcp' = tcp \/ (tcp' = Append(tcp, u) /\ where[Own] = where[e])
    BY <1>6, BroadcastEffect
  <2>2. u \in Packet
    BY <1>1, PacketsMade
  <2>3. /\ u.entity = e /\ u.world = where[e] /\ u.time = time + 1
        /\ u.time > arrived[e]
    BY <1>1 DEF Update
  <2>4. Grows /\ \A i \in DOMAIN tcp' \ DOMAIN tcp : tcp'[i] = u /\ where[Own] = where[e]
    <3> HIDE DEF u
    <3> QED BY <1>1, <2>1, <2>2, Grown
  <2>5. ASSUME NEW i \in DOMAIN tcp' \ DOMAIN tcp
        PROVE  FollowedInTcp(i)'
    <3>1. tcp'[i] = u /\ where[Own] = where[e]
      BY <2>4
    <3> HIDE DEF u
    <3> QED BY <2>1, <2>3, <3>1 DEF FollowedInTcp, Current
  <2> QED BY <1>2, <2>1, <2>4, <2>5
<1>7. CASE SendSecondRemoval
  <2>1. /\ tcp' = Append(tcp, delayed[1].packet) /\ delayed[1].packet \in Packet
        /\ UNCHANGED <<where, arrived>> /\ 1 \in DOMAIN delayed
    BY <1>7, SecondRemovalEffect DEF serverVars
  <2>2. delayed[1].packet.type = "remove"
    BY <2>1 DEF OwnNeverRemoved
  <2>3. Grows /\ \A i \in DOMAIN tcp' \ DOMAIN tcp : tcp'[i] = delayed[1].packet
    BY <1>1, <2>1, Grown
  <2> QED BY <1>2, <2>1, <2>2, <2>3
<1>8. CASE ReceiveTcp
  <2>1. /\ DOMAIN tcp = 1..Len(tcp) /\ Len(tcp) \in Nat \ {0}
        /\ DOMAIN tcp' = 1..(Len(tcp) - 1)
        /\ \A i \in DOMAIN tcp' : tcp'[i] = tcp[i + 1]
        /\ UNCHANGED <<where, arrived>>
    BY <1>8, ReceiveTcpEffect DEF serverVars
  <2> SUFFICES ASSUME NEW i \in DOMAIN tcp', tcp'[i].type = "update"
               PROVE  FollowedInTcp(i)'
    BY DEF TcpUpdatesFollowed, FollowedInTcp, Current, IsLoad
  <2>2. i + 1 \in DOMAIN tcp /\ tcp'[i] = tcp[i + 1]
    BY <2>1
  <2>3. CASE Current(tcp[i + 1])
    BY <2>1, <2>2, <2>3 DEF Current, FollowedInTcp
  <2>4. ASSUME NEW j \in DOMAIN tcp, i + 1 < j,
               IsLoad(tcp[j]) \/ tcp[j] = Removal(tcp[i + 1].entity, tcp[i + 1].world)
        PROVE  FollowedInTcp(i)'
    <3>1. j - 1 \in DOMAIN tcp' /\ tcp'[j - 1] = tcp[j] /\ i < j - 1
      BY <2>1, <2>4
    <3> QED BY <2>2, <2>4, <3>1 DEF FollowedInTcp, IsLoad
  <2> QED BY <2>2, <2>3, <2>4 DEF TcpUpdatesFollowed
<1>9. CASE \/ UNCHANGED vars \/ ClientFrame \/ ClientFails
           \/ \E p \in udp : ReceiveUdp(p) \/ LoseUdp(p)
  <2>1. UNCHANGED <<where, arrived, tcp>>
    BY <1>9 DEF vars, serverVars, networkVars, ClientFrame, ClientFails, ReceiveUdp, LoseUdp
  <2> QED BY <1>1, <1>2, <2>1, Grown
<1>10. ASSUME HandleOwnWorldLoaded \/ \E e \in Entities : HandleOtherWorldLoaded(e)
       PROVE  TcpUpdatesFollowed'
  BY <1>1, <1>5, <1>10 DEF HandleOwnWorldLoaded, HandleOtherWorldLoaded
<1> QED BY <1>3, <1>4, <1>6, <1>7, <1>8, <1>9, <1>10 DEF Next

LEMMA UdpUpdatesStep ==
  ASSUME Timely, TypeOK, PastUpdates, UdpUpdatesFollowed, [Next]_vars
  PROVE  UdpUpdatesFollowed'
<1> DEFINE HeldBack(p) == \E i \in DOMAIN delayed :
                             /\ delayed[i].packet = Removal(p.entity, p.world)
                             /\ delayed[i].since >= p.time
           Fine(p) == p.world = where[Own] /\ (Current(p) \/ HeldBack(p))
<1>1. /\ delayed \in Seq([packet : Packet, since : Nat]) /\ udp \subseteq UpdatePacket
      /\ Own \in Entities /\ where \in [Entities -> Worlds]
      /\ time \in Nat /\ arrived \in [Entities -> 0..time]
  BY ScenesAssumption DEF TypeOK, ScenesAssumption
<1>2. ASSUME NEW p \in udp
      PROVE  Fine(p) /\ p \in UpdatePacket /\ p.entity \in Entities /\ p.time \in 1..time
  BY <1>1, <1>2 DEF UdpUpdatesFollowed, PastUpdates, Stamped, UpdatePacket
<1>3. (\A p \in udp' : Fine(p)') => UdpUpdatesFollowed'
  BY DEF UdpUpdatesFollowed, Current
<1>4. ASSUME UNCHANGED <<where, arrived, delayed>>, udp' \subseteq udp
      PROVE  UdpUpdatesFollowed'
  BY <1>2, <1>3, <1>4 DEF Current
<1>5. ASSUME NEW e \in Entities, NEW w \in Worlds, TransferOther(e, w)
      PROVE  UdpUpdatesFollowed'
  <2> DEFINE held == [packet |-> Removal(e, where[e]), since |-> time]
  <2>1. /\ e # Own /\ where' = [where EXCEPT ![e] = w] /\ where'[Own] = where[Own]
        /\ arrived' = [arrived EXCEPT ![e] = time] /\ udp' = udp
        /\ \/ where[e] = where[Own] /\ delayed' = Append(delayed, held)
           \/ where[e] # where[Own] /\ delayed' = delayed
    BY <1>5, TransferOtherEffect
  <2>2. /\ held.packet = Removal(e, where[e]) /\ held.since = time
        /\ held \in [packet : Packet, since : Nat]
    BY <1>1, PacketsMade
  <2> HIDE DEF held
  <2>3. /\ DOMAIN delayed \subseteq DOMAIN delayed'
        /\ \A i \in DOMAIN delayed : delayed'[i] = delayed[i]
        /\ where[e] = where[Own] => \E i \in DOMAIN delayed' : delayed'[i] = held
    <3>1. CASE delayed' = delayed /\ where[e] # where[Own]
      BY <3>1
    <3>2. CASE delayed' = Append(delayed, held)
      BY <1>1, <2>2, <3>2, Appended
    <3> QED BY <2>1, <3>1, <3>2
  <2>4. ASSUME NEW p \in udp
        PROVE  Fine(p)'
    <3>1. CASE HeldBack(p)
      <4>1. HeldBack(p)'
        BY <2>3, <3>1
      <4> QED BY <1>2, <2>1, <4>1
    <3>2. CASE Current(p) /\ p.entity # e
      <4>1. Current(p)'
        BY <1>1, <1>2, <2>1, <3>2 DEF Current
      <4> QED BY <1>2, <2>1, <4>1
    <3>3. CASE Current(p) /\ p.entity = e
      <4>1. where[e] = where[Own] /\ p.world = where[e] /\ p.time <= time
        BY <1>1, <1>2, <3>3 DEF Current
      <4>2. HeldBack(p)'
        BY <2>2, <2>3, <3>3, <4>1
      <4> QED BY <1>2, <2>1, <4>2
    <3> QED BY <1>2, <3>1, <3>2, <3>3
  <2> QED BY <1>3, <2>1, <2>4
<1>6. ASSUME NEW w \in Worlds, TransferOwn(w)
      PROVE  UdpUpdatesFollowed'
  BY <1>3, <1>6, TransferOwnEffect
<1>7. ASSUME NEW e \in Entities, BroadcastEntityState(e)
      PROVE  UdpUpdatesFollowed'
  <2> DEFINE u == Update(e, where[e], time + 1)
  <2>1. /\ UNCHANGED <<where, arrived, delayed>>
        /\ udp' = udp \/ (udp' = udp \union {u} /\ where[Own] = where[e])
    BY <1>7, BroadcastEffect
  <2>2. /\ u.entity = e /\ u.world = where[e] /\ u.time = time + 1
        /\ u.time > arrived[e]
    BY <1>1 DEF Update
  <2> HIDE DEF u
  <2>3. ASSUME NEW p \in udp', p = u, where[Own] = where[e]
        PROVE  Fine(p)'
    BY <2>1, <2>2, <2>3 DEF Current
  <2>4. ASSUME NEW p \in udp
        PROVE  Fine(p)'
    BY <1>2, <2>1 DEF Current
  <2> QED BY <1>3, <2>1, <2>3, <2>4
<1>8. CASE SendSecondRemoval
  <2>1. /\ UNCHANGED <<where, arrived, udp>>
        /\ DOMAIN delayed = 1..Len(delayed) /\ Len(delayed) \in Nat \ {0}
        /\ delayed[1] \in [packet : Packet, since : Nat]
        /\ \A p \in udp : p.time > delayed[1].since
        /\ DOMAIN delayed' = 1..(Len(delayed) - 1)
        /\ \A i \in DOMAIN delayed' : delayed'[i] = delayed[i + 1]
    BY <1>8, SecondRemovalEffect DEF serverVars
  <2>2. ASSUME NEW p \in udp
        PROVE  Fine(p)'
    <3>1. CASE Current(p)
      BY <1>2, <2>1, <3>1 DEF Current
    <3>2. ASSUME NEW i \in DOMAIN delayed, delayed[i].since >= p.time,
                 delayed[i].packet = Removal(p.entity, p.world)
          PROVE  Fine(p)'
      <4>1. delayed[1].since \in Nat /\ p.time \in Nat /\ p.time > delayed[1].since
        BY <1>2, <2>1
      <4>2. i # 1
        BY <3>2, <4>1
      <4>3. i - 1 \in DOMAIN delayed' /\ delayed'[i - 1] = delayed[i]
        BY <2>1, <4>2
      <4>4. HeldBack(p)'
        BY <3>2, <4>3
      <4> QED BY <1>2, <2>1, <4>4
    <3> QED BY <1>2, <3>1, <3>2
  <2> QED BY <1>3, <2>1, <2>2
<1>9. ASSUME NEW e \in Entities, WorldLoaded(e)
      PROVE  UdpUpdatesFollowed'
  BY <1>4, <1>9, WorldLoadedEffect
<1>10. CASE \/ UNCHANGED vars \/ ClientFrame \/ ClientFails \/ ReceiveTcp
            \/ \E p \in udp : ReceiveUdp(p) \/ LoseUdp(p)
  <2>1. UNCHANGED <<where, arrived, delayed>> /\ udp' \subseteq udp
    BY <1>10 DEF vars, serverVars, networkVars, ClientFrame, ClientFails, ReceiveTcp, ReceiveUdp,
                LoseUdp
  <2> QED BY <1>4, <2>1
<1>11. ASSUME HandleOwnWorldLoaded \/ \E e \in Entities : HandleOtherWorldLoaded(e)
       PROVE  UdpUpdatesFollowed'
  BY <1>1, <1>9, <1>11 DEF HandleOwnWorldLoaded, HandleOtherWorldLoaded
<1> QED BY <1>5, <1>6, <1>7, <1>8, <1>10, <1>11 DEF Next

-----------------------------------------------------------------------------
(***************************************************************************)
(* No ghosts.                                                              *)
(***************************************************************************)
LEMMA InFlightIs ==
  ASSUME tcp \in Seq(Packet), NEW p
  PROVE  InFlight(p) <=> \E i \in DOMAIN tcp : tcp[i] = p
BY DEF InFlight, Contains

LEMMA LeavingIs ==
  ASSUME tcp \in Seq(Packet)
  PROVE  Leaving <=> client.queued # NoScene \/ LoadsComing
<1>1. ASSUME NEW i \in DOMAIN tcp, IsLoad(tcp[i])
      PROVE  tcp[i].world \in Worlds /\ tcp[i] = LoadWorld(tcp[i].world)
  <2>1. tcp[i] \in Packet
    OBVIOUS
  <2>2. tcp[i] \in [type : {"loadWorld"}, world : Worlds]
    BY <1>1, <2>1 DEF Packet, UpdatePacket, IsLoad
  <2> QED BY <2>2 DEF LoadWorld
<1>2. ASSUME NEW w \in Worlds, NEW i \in DOMAIN tcp, tcp[i] = LoadWorld(w)
      PROVE  IsLoad(tcp[i])
  BY <1>2 DEF IsLoad, LoadWorld
<1> QED BY <1>1, <1>2, InFlightIs DEF Leaving, LoadsComing

LEMMA StaysHome ==
  ASSUME TypeOK, HeadingHome, client.scene = "world", ~Leaving
  PROVE  client.world = where[Own]
BY LeavingIs DEF TypeOK, HeadingHome, Target, Running, Ended

\* What keeps a ghost of e from staying.
Awaited(e) ==
  \/ Leaving
  \/ InFlight(Removal(e, client.world))
  \/ IsPending(Removal(e, client.world))
  \/ where[e] = client.world /\ force[e]
  \/ \E t \in arrived[e] + 1 .. time : InFlight(Update(e, client.world, t))

\* The packets it waits for.
Expels(p, e) == IsLoad(p) \/ (p.entity = e /\ p.world = client.world /\ p.type # "setDetails")

LEMMA StillAwaited ==
  ASSUME NEW e \in Entities, TypeOK, Awaited(e),
         client'.world = client.world, client'.queued \in {client.queued, "loading", "world"},
         \A p : Contains(tcp, p) /\ Expels(p, e) => Contains(tcp', p),
         \A i \in DOMAIN delayed : \/ \E j \in DOMAIN delayed' : delayed'[j] = delayed[i]
                                   \/ Contains(tcp', delayed[i].packet),
         where'[e] = where[e], arrived'[e] = arrived[e], time' \in Nat, time' >= time,
         where[e] = client.world /\ force[e] =>
           force'[e] \/ (Contains(tcp', Update(e, where[e], time')) /\ time' > time)
  PROVE  Awaited(e)'
<1>1. /\ time \in Nat /\ arrived[e] \in 0..time
  BY DEF TypeOK
<1>2. CASE Leaving
  <2>1. CASE client.queued # NoScene
    BY <2>1 DEF Awaited, Leaving, NoScene
  <2>2. ASSUME NEW w \in Worlds, Contains(tcp, LoadWorld(w))
        PROVE  Contains(tcp', LoadWorld(w))
    BY <2>2 DEF Expels, IsLoad, LoadWorld
  <2> QED BY <1>2, <2>1, <2>2 DEF Leaving, InFlight, Awaited
<1>3. CASE InFlight(Removal(e, client.world))
  <2>1. Contains(tcp', Removal(e, client.world))
    BY <1>3 DEF InFlight, Expels, Removal
  <2> QED BY <2>1 DEF InFlight, Awaited
<1>4. CASE IsPending(Removal(e, client.world))
  BY <1>4 DEF IsPending, InFlight, Awaited
<1>5. CASE where[e] = client.world /\ force[e]
  <2>1. CASE force'[e]
    BY <1>5, <2>1 DEF Awaited
  <2>2. CASE Contains(tcp', Update(e, where[e], time')) /\ time' > time
    <3>1. time' \in arrived'[e] + 1 .. time'
      BY <1>1, <2>2
    <3> QED BY <1>5, <2>2, <3>1 DEF InFlight, Awaited
  <2> QED BY <1>5, <2>1, <2>2
<1>6. ASSUME NEW t \in arrived[e] + 1 .. time, InFlight(Update(e, client.world, t))
      PROVE  Awaited(e)'
  <2>1. Contains(tcp', Update(e, client.world, t))
    BY <1>6 DEF InFlight, Expels, Update
  <2>2. t \in arrived'[e] + 1 .. time'
    BY <1>1
  <2> QED BY <2>1, <2>2 DEF InFlight, Awaited
<1> QED BY <1>2, <1>3, <1>4, <1>5, <1>6 DEF Awaited

LEMMA StillThere ==
  ASSUME tcp \in Seq(Packet), tcp' \in Seq(Packet)
  PROVE  /\ Grows => \A p : Contains(tcp, p) => Contains(tcp', p)
         /\ \A i \in DOMAIN tcp' : Contains(tcp', tcp'[i])
BY DEF Grows, Contains

\* The server moves someone, or sends something.
LEMMA ServerMakesNoGhosts ==
  ASSUME TypeOK, TypeOK', ScenesAgree, HeadingHome, TcpUpdatesFollowed, NoGhosts, Running,
         \/ \E e \in Entities, w \in Worlds : TransferOther(e, w)
         \/ \E w \in Worlds : TransferOwn(w)
         \/ HandleOwnWorldLoaded
         \/ \E e \in Entities : HandleOtherWorldLoaded(e)
         \/ \E e \in Entities : BroadcastEntityState(e)
         \/ SendSecondRemoval
  PROVE  NoGhosts'
<1>1. /\ tcp \in Seq(Packet) /\ tcp' \in Seq(Packet) /\ Own \in Entities
      /\ where \in [Entities -> Worlds] /\ force \in [Entities -> BOOLEAN]
      /\ time \in Nat /\ time' \in Nat /\ arrived \in [Entities -> 0..time]
      /\ delayed \in Seq([packet : Packet, since : Nat])
  BY ScenesAssumption DEF TypeOK, ScenesAssumption
<1>2. UNCHANGED client
  BY DEF TransferOther, TransferOwn, HandleOwnWorldLoaded, HandleOtherWorldLoaded, WorldLoaded,
         BroadcastEntityState, SendSecondRemoval, sceneVars
<1>3. (\A e \in Entities : (Shown(e) /\ Stale(e))' => Awaited(e)') => NoGhosts'
  BY DEF NoGhosts, Awaited
<1>4. \A e \in Entities : Shown(e) /\ Stale(e) => Awaited(e)
  BY DEF NoGhosts, Awaited
<1> HIDE DEF NoGhosts
<1>5. ASSUME NEW e \in Entities, Shown(e), Stale(e), Grows,
             \A i \in DOMAIN delayed : \/ \E j \in DOMAIN delayed' : delayed'[j] = delayed[i]
                                       \/ Contains(tcp', delayed[i].packet),
             where'[e] = where[e], arrived'[e] = arrived[e], time' >= time,
             where[e] = client.world /\ force[e] =>
               force'[e] \/ (Contains(tcp', Update(e, where[e], time')) /\ time' > time)
      PROVE  Awaited(e)'
  <2>1. \A p : Contains(tcp, p) => Contains(tcp', p)
    BY <1>1, <1>5, StillThere
  <2> QED BY <1>1, <1>2, <1>4, <1>5, <2>1, StillAwaited
<1>6. ASSUME NEW f \in Entities, NEW w \in Worlds, TransferOther(f, w),
             NEW e \in Entities, Shown(e)', Stale(e)'
      PROVE  Awaited(e)'
  <2> DEFINE held == [packet |-> Removal(f, where[f]), since |-> time]
  <2>1. /\ f # Own /\ where' = [where EXCEPT ![f] = w] /\ where[f] # w
        /\ force' = [force EXCEPT ![f] = TRUE] /\ arrived' = [arrived EXCEPT ![f] = time]
        /\ time' = time
        /\ \/ where[f] = where[Own] /\ tcp' = Append(tcp, Removal(f, where[f]))
              /\ delayed' = Append(delayed, held)
           \/ tcp' = Append(tcp, SetDetails(f, w)) /\ delayed' = delayed
              /\ where[f] # where[Own]
           \/ tcp' = tcp /\ delayed' = delayed /\ where[f] # where[Own]
    BY <1>6, TransferOtherEffect
  <2>2. /\ Removal(f, where[f]) \in Packet /\ SetDetails(f, w) \in Packet
        /\ held \in [packet : Packet, since : Nat]
    BY <1>1, PacketsMade
  <2> HIDE DEF held
  <2>3. Grows
    BY <1>1, <2>1, <2>2, Grown
  <2>4. \A i \in DOMAIN delayed : \E j \in DOMAIN delayed' : delayed'[j] = delayed[i]
    <3>1. ASSUME delayed' = Append(delayed, held), NEW i \in DOMAIN delayed
          PROVE  i \in DOMAIN delayed' /\ delayed'[i] = delayed[i]
      BY <1>1, <2>2, <3>1, Appended
    <3> QED BY <2>1, <3>1
  <2>5. CASE e # f
    <3>1. /\ where'[e] = where[e] /\ arrived'[e] = arrived[e] /\ force'[e] = force[e]
      BY <1>1, <2>1, <2>5
    <3>2. Shown(e) /\ Stale(e)
      BY <1>2, <1>6, <3>1 DEF Shown, Stale
    <3> QED BY <1>1, <1>5, <2>1, <2>3, <2>4, <3>1, <3>2
  <2>6. CASE e = f /\ w = client.world
    BY <1>1, <1>2, <2>1, <2>6 DEF Awaited
  <2>7. CASE Leaving
    <3>1. \A p : Contains(tcp, p) => Contains(tcp', p)
      BY <1>1, <2>3, StillThere
    <3> QED BY <1>2, <2>7, <3>1 DEF Leaving, InFlight, Awaited
  <2>8. CASE e = f /\ ~Leaving /\ where[f] = client.world
    <3>1. client.world = where[Own]
      BY <1>2, <1>6, <2>8, StaysHome DEF Shown
    <3>2. tcp' = Append(tcp, Removal(f, where[f]))
      BY <2>1, <2>8, <3>1
    <3>3. Contains(tcp', Removal(f, where[f]))
      <4>1. PICK i \in DOMAIN tcp' : tcp'[i] = Removal(f, where[f])
        BY <1>1, <2>2, <3>2, Grown
      <4> QED BY <1>1, <4>1, StillThere
    <3> QED BY <1>2, <2>8, <3>3 DEF InFlight, Awaited
  <2>9. CASE e = f /\ ~Leaving /\ where[f] # client.world /\ w # client.world
    <3>1. Awaited(e)
      BY <1>2, <1>4, <1>6, <2>9 DEF Shown, Stale
    <3>2. \A p : Contains(tcp, p) => Contains(tcp', p)
      BY <1>1, <2>3, StillThere
    <3>3. CASE InFlight(Removal(e, client.world))
      BY <1>2, <3>2, <3>3 DEF InFlight, Awaited
    <3>4. CASE IsPending(Removal(e, client.world))
      BY <1>2, <2>4, <3>4 DEF IsPending, Awaited
    <3>5. ASSUME NEW t \in arrived[e] + 1 .. time, InFlight(Update(e, client.world, t))
          PROVE  InFlight(Removal(e, client.world))
      <4>1. PICK i \in DOMAIN tcp : tcp[i] = Update(e, client.world, t)
        BY <1>1, <3>5, InFlightIs
      <4>2. /\ tcp[i].type = "update" /\ tcp[i].entity = e /\ tcp[i].world = client.world
            /\ ~Current(tcp[i])
        BY <2>9, <4>1 DEF Update, Current
      <4>3. PICK j \in DOMAIN tcp : IsLoad(tcp[j]) \/ tcp[j] = Removal(e, client.world)
        BY <4>2 DEF TcpUpdatesFollowed
      <4>4. ~IsLoad(tcp[j])
        BY <1>1, <2>9, LeavingIs DEF LoadsComing
      <4> QED BY <1>1, <4>3, <4>4, InFlightIs
    <3> QED BY <2>9, <3>1, <3>3, <3>4, <3>5 DEF Awaited
  <2> QED BY <2>5, <2>6, <2>7, <2>8, <2>9
<1>7. ASSUME NEW w \in Worlds, TransferOwn(w)
      PROVE  NoGhosts'
  <2>1. tcp' = Append(tcp, LoadWorld(w)) /\ LoadWorld(w) \in Packet
    BY <1>7, TransferOwnEffect
  <2>2. PICK i \in DOMAIN tcp' : tcp'[i] = LoadWorld(w)
    BY <1>1, <2>1, Grown
  <2>3. Contains(tcp', LoadWorld(w))
    BY <1>1, <2>2, StillThere
  <2> QED BY <1>3, <2>3 DEF Awaited, Leaving, InFlight
<1>8. ASSUME NEW f \in Entities, WorldLoaded(f),
             NEW e \in Entities, Shown(e)', Stale(e)'
      PROVE  Awaited(e)'
  <2>1. /\ UNCHANGED <<where, time, arrived, delayed>> /\ force' = [force EXCEPT ![f] = TRUE]
        /\ \E details \in Seq(Packet) : tcp' = tcp \o details
    BY <1>8, WorldLoadedEffect
  <2>2. Grows
    BY <1>1, <2>1, Grown
  <2>3. Shown(e) /\ Stale(e) /\ (force[e] => force'[e])
    BY <1>1, <1>2, <1>8, <2>1 DEF Shown, Stale
  <2> QED BY <1>1, <1>5, <2>1, <2>2, <2>3
<1>9. ASSUME NEW f \in Entities, BroadcastEntityState(f),
             NEW e \in Entities, Shown(e)', Stale(e)'
      PROVE  Awaited(e)'
  <2> DEFINE u == Update(f, where[f], time')
  <2>1. /\ UNCHANGED <<where, arrived, delayed>> /\ force' = [force EXCEPT ![f] = FALSE]
        /\ \/ time' = time /\ tcp' = tcp /\ (where[Own] # where[f] \/ ~force[f])
           \/ time' = time + 1 /\ tcp' = Append(tcp, u)
           \/ time' = time + 1 /\ tcp' = tcp /\ ~force[f]
    BY <1>9, BroadcastEffect
  <2>2. u \in Packet
    BY <1>1, PacketsMade
  <2>3. Grows /\ (tcp' = Append(tcp, u) => Contains(tcp', u))
    <3> HIDE DEF u
    <3>1. Grows
      BY <1>1, <2>1, <2>2, Grown
    <3>2. ASSUME tcp' = Append(tcp, u)
          PROVE  Contains(tcp', u)
      <4>1. PICK i \in DOMAIN tcp' : tcp'[i] = u
        BY <1>1, <2>2, <3>2, Grown
      <4> QED BY <1>1, <4>1, StillThere
    <3> QED BY <3>1, <3>2
  <2>4. Shown(e) /\ Stale(e) /\ time' >= time
    BY <1>1, <1>2, <1>9, <2>1 DEF Shown, Stale
  <2>5. CASE Leaving
    <3>1. \A p : Contains(tcp, p) => Contains(tcp', p)
      BY <1>1, <2>3, StillThere
    <3> QED BY <1>2, <2>5, <3>1 DEF Leaving, InFlight, Awaited
  <2>6. CASE ~Leaving
    <3>1. client.world = where[Own]
      BY <2>4, <2>6, StaysHome DEF Shown
    <3>2. where[e] = client.world /\ force[e] =>
            force'[e] \/ (Contains(tcp', Update(e, where[e], time')) /\ time' > time)
      <4>1. CASE e # f
        BY <1>1, <2>1, <4>1
      <4>2. ASSUME e = f, where[e] = client.world, force[e]
            PROVE  time' = time + 1 /\ tcp' = Append(tcp, u)
        BY <2>1, <3>1, <4>2
      <4> QED BY <1>1, <2>3, <4>1, <4>2
    <3> QED BY <1>1, <1>5, <2>1, <2>3, <2>4, <3>2
  <2> QED BY <2>5, <2>6
<1>10. ASSUME SendSecondRemoval, NEW e \in Entities, Shown(e)', Stale(e)'
       PROVE  Awaited(e)'
  <2>1. /\ UNCHANGED serverVars
        /\ DOMAIN delayed = 1..Len(delayed) /\ Len(delayed) \in Nat \ {0}
        /\ delayed[1].packet \in Packet
        /\ tcp' = Append(tcp, delayed[1].packet)
        /\ DOMAIN delayed' = 1..(Len(delayed) - 1)
        /\ \A i \in DOMAIN delayed' : delayed'[i] = delayed[i + 1]
    BY <1>10, SecondRemovalEffect
  <2>2. Grows /\ \E i \in DOMAIN tcp' : tcp'[i] = delayed[1].packet
    BY <1>1, <2>1, Grown
  <2>3. Contains(tcp', delayed[1].packet)
    BY <1>1, <2>2, StillThere
  <2>4. ASSUME NEW i \in DOMAIN delayed
        PROVE  \/ \E j \in DOMAIN delayed' : delayed'[j] = delayed[i]
               \/ Contains(tcp', delayed[i].packet)
    <3>1. CASE i # 1
      <4>1. i - 1 \in DOMAIN delayed' /\ delayed'[i - 1] = delayed[i]
        BY <2>1, <3>1
      <4> QED BY <4>1
    <3> QED BY <2>3, <3>1
  <2>5. Shown(e) /\ Stale(e)
    BY <1>2, <1>10, <2>1 DEF Shown, Stale, serverVars
  <2> QED BY <1>1, <1>5, <2>1, <2>2, <2>4, <2>5 DEF serverVars
<1> QED BY <1>1, <1>3, <1>6, <1>7, <1>8, <1>9, <1>10
        DEF HandleOwnWorldLoaded, HandleOtherWorldLoaded

\* A packet reaches the client.
LEMMA PacketMakesNoGhost ==
  ASSUME TypeOK, TypeOK', NoGhosts, Running, NEW p \in Packet, ProcessPacket(p),
         \A q : Contains(tcp, q) /\ q # p => Contains(tcp', q),
         UNCHANGED <<serverVars, delayed>>,
         p.type = "update" => \/ Current(p)
                              \/ LoadsComing' \/ Contains(tcp', Removal(p.entity, p.world))
                              \/ IsPending(Removal(p.entity, p.world))
  PROVE  NoGhosts'
<1>1. /\ client \in ClientType /\ tcp \in Seq(Packet) /\ tcp' \in Seq(Packet)
      /\ time \in Nat /\ arrived \in [Entities -> 0..time]
  BY DEF TypeOK, ScenesTypeOK
<1>2. UNCHANGED <<where, force, time, arrived, delayed>>
  BY DEF serverVars
<1>3. (\A e \in Entities : (Shown(e) /\ Stale(e))' => Awaited(e)') => NoGhosts'
  BY DEF NoGhosts, Awaited
<1>4. \A e \in Entities : Shown(e) /\ Stale(e) => Awaited(e)
  BY DEF NoGhosts, Awaited
<1> HIDE DEF NoGhosts
<1>5. ASSUME NEW e \in Entities, Shown(e), Stale(e), client'.world = client.world,
             client'.queued = client.queued, ~Expels(p, e)
      PROVE  Awaited(e)'
  <2>1. \A q : Contains(tcp, q) /\ Expels(q, e) => Contains(tcp', q)
    BY <1>5
  <2>2. /\ time' \in Nat /\ time' >= time /\ client'.queued \in {client.queued, "loading", "world"}
        /\ \A i \in DOMAIN delayed : \E j \in DOMAIN delayed' : delayed'[j] = delayed[i]
        /\ where'[e] = where[e] /\ arrived'[e] = arrived[e] /\ force'[e] = force[e]
    BY <1>1, <1>2, <1>5
  <2>3. Awaited(e)
    BY <1>4, <1>5
  <2> QED BY <1>5, <2>1, <2>2, <2>3, StillAwaited
<1>6. CASE IsLoad(p)
  <2>1. client'.queued # NoScene
    BY <1>1, <1>6, LoadPacketEffect DEF NoScene
  <2> QED BY <1>3, <2>1 DEF Awaited, Leaving
<1>7. CASE ~IsLoad(p) /\ (client.scene # "world" \/ p.world # client.world)
  <2>1. client' = client
    BY <1>1, <1>7, DroppedPacketEffect
  <2>2. ASSUME NEW e \in Entities, Shown(e)', Stale(e)'
        PROVE  Awaited(e)'
    <3>1. Shown(e) /\ Stale(e)
      BY <1>2, <2>1, <2>2 DEF Shown, Stale
    <3>2. ~Expels(p, e)
      BY <1>7, <3>1 DEF Shown, Expels
    <3> QED BY <1>5, <2>1, <3>1, <3>2
  <2> QED BY <1>3, <2>2
<1>8. CASE ~IsLoad(p) /\ client.scene = "world" /\ p.world = client.world
  <2>1. p.type \in {"remove", "setDetails", "update"} /\ p.entity \in Entities
    BY <1>8, PacketKinds DEF IsLoad
  <2>2. /\ client'.scene = client.scene /\ client'.world = client.world
        /\ client'.queued = client.queued
    BY <1>1, <1>8, OtherPacketEffect
  <2>3. client.shown \in [Entities -> Nat]
    BY <1>1 DEF ClientType
  <2>4. CASE p.type = "setDetails"
    <3>1. client'.shown = client.shown
      BY <1>1, <1>8, <2>4, DetailsEffect DEF ClientType
    <3>2. ASSUME NEW e \in Entities, Shown(e)', Stale(e)'
          PROVE  Shown(e) /\ Stale(e) /\ ~Expels(p, e)
      BY <1>2, <1>8, <2>2, <2>4, <3>1, <3>2 DEF Shown, Stale, Expels
    <3> QED BY <1>3, <1>5, <2>2, <3>2
  <2>5. CASE p.type = "remove"
    <3>1. client'.shown = [client.shown EXCEPT ![p.entity] = 0]
      BY <1>1, <1>8, <2>1, <2>5, RemovalEffect DEF ClientType
    <3>2. ASSUME NEW e \in Entities, Shown(e)', Stale(e)'
          PROVE  Shown(e) /\ Stale(e) /\ ~Expels(p, e)
      <4>1. e # p.entity
        BY <2>1, <2>3, <3>1, <3>2 DEF Shown
      <4> QED BY <1>2, <1>8, <2>2, <2>3, <3>1, <3>2, <4>1 DEF Shown, Stale, Expels
    <3> QED BY <1>3, <1>5, <2>2, <3>2
  <2>6. CASE p.type = "update"
    <3>1. p \in UpdatePacket /\ p.time \in Nat
      BY <2>6, PacketKinds DEF Packet
    <3>2. client'.shown = [client.shown EXCEPT ![p.entity] = IF p.time > @ THEN p.time ELSE @]
      BY <1>1, <1>8, <3>1, UpdateEffect
    <3>3. ASSUME NEW e \in Entities, e # p.entity, Shown(e)', Stale(e)'
          PROVE  Awaited(e)'
      <4>1. Shown(e) /\ Stale(e) /\ ~Expels(p, e)
        BY <1>2, <1>8, <2>2, <2>3, <3>2, <3>3 DEF Shown, Stale, Expels
      <4> QED BY <1>5, <2>2, <4>1
    <3>4. ASSUME Shown(p.entity)', client'.shown[p.entity] <= arrived[p.entity] \/ where[p.entity] # client.world
          PROVE  Awaited(p.entity)'
      <4>1. ~Current(p)
        <5>1. client'.shown[p.entity] >= p.time /\ client'.shown[p.entity] \in Nat
          BY <2>1, <2>3, <3>1, <3>2
        <5>2. arrived[p.entity] \in Nat
          BY <1>1, <2>1
        <5> QED BY <1>8, <3>1, <3>4, <5>1, <5>2 DEF Current
      <4>2. CASE LoadsComing'
        <5>1. PICK i \in DOMAIN tcp' : IsLoad(tcp'[i])
          BY <4>2 DEF LoadsComing, IsLoad
        <5>2. tcp'[i] \in [type : {"loadWorld"}, world : Worlds]
          BY <1>1, <5>1 DEF Packet, UpdatePacket, IsLoad
        <5>3. tcp'[i].world \in Worlds /\ tcp'[i] = LoadWorld(tcp'[i].world)
          BY <5>2 DEF LoadWorld
        <5>4. \E w \in Worlds : Contains(tcp', LoadWorld(w))
          BY <1>1, <5>3, StillThere
        <5> QED BY <5>4 DEF Awaited, Leaving, InFlight
      <4>3. CASE Contains(tcp', Removal(p.entity, p.world))
        BY <1>8, <2>2, <4>3 DEF Awaited, InFlight
      <4>4. CASE IsPending(Removal(p.entity, p.world))
        BY <1>2, <1>8, <2>2, <4>4 DEF Awaited, IsPending
      <4> QED BY <2>6, <4>1, <4>2, <4>3, <4>4
    <3>5. ASSUME NEW e \in Entities, e = p.entity, Shown(e)', Stale(e)'
          PROVE  Awaited(e)'
      BY <1>2, <2>2, <3>4, <3>5 DEF Stale
    <3> QED BY <1>3, <3>3, <3>5
  <2> QED BY <2>1, <2>4, <2>5, <2>6
<1> QED BY <1>6, <1>7, <1>8

LEMMA GhostStep ==
  ASSUME TypeOK, TypeOK', ScenesAgree, HeadingHome, TcpUpdatesFollowed, UdpUpdatesFollowed,
         NoGhosts, [Next]_vars
  PROVE  NoGhosts'
<1>1. /\ client \in ClientType /\ reports \in Nat /\ tcp \in Seq(Packet) /\ tcp' \in Seq(Packet)
      /\ udp \subseteq UpdatePacket
  BY DEF TypeOK, ScenesTypeOK
<1>2. CASE Running /\ ReceiveTcp
  <2>1. /\ DOMAIN tcp = 1..Len(tcp) /\ Len(tcp) \in Nat \ {0}
        /\ tcp[1] \in Packet /\ ProcessPacket(tcp[1])
        /\ DOMAIN tcp' = 1..(Len(tcp) - 1)
        /\ \A i \in DOMAIN tcp' : tcp'[i] = tcp[i + 1]
        /\ UNCHANGED <<serverVars, delayed>>
    BY <1>2, ReceiveTcpEffect
  <2>2. ASSUME NEW i \in DOMAIN tcp, i # 1
        PROVE  Contains(tcp', tcp[i]) /\ (IsLoad(tcp[i]) => LoadsComing')
    <3>1. i - 1 \in DOMAIN tcp' /\ tcp'[i - 1] = tcp[i]
      BY <2>1, <2>2
    <3> QED BY <1>1, <3>1, StillThere DEF LoadsComing, IsLoad
  <2>3. ASSUME NEW q, Contains(tcp, q), q # tcp[1]
        PROVE  Contains(tcp', q)
    <3>1. PICK i \in DOMAIN tcp : tcp[i] = q
      BY <1>1, <2>3 DEF Contains
    <3> QED BY <2>2, <2>3, <3>1
  <2>4. ASSUME tcp[1].type = "update", ~Current(tcp[1])
        PROVE  LoadsComing' \/ Contains(tcp', Removal(tcp[1].entity, tcp[1].world))
    <3>1. PICK j \in DOMAIN tcp : /\ 1 < j
                                  /\ IsLoad(tcp[j]) \/ tcp[j] = Removal(tcp[1].entity, tcp[1].world)
      BY <2>1, <2>4 DEF TcpUpdatesFollowed
    <3> QED BY <2>2, <3>1
  <2> QED BY <1>2, <2>1, <2>3, <2>4, PacketMakesNoGhost
<1>3. ASSUME Running, NEW p \in udp, ReceiveUdp(p)
      PROVE  NoGhosts'
  <2>1. /\ p \in Packet /\ ProcessPacket(p) /\ UNCHANGED <<tcp, serverVars, delayed>>
    BY <1>1, <1>3 DEF ReceiveUdp, Packet
  <2>2. Current(p) \/ IsPending(Removal(p.entity, p.world))
    BY DEF UdpUpdatesFollowed, IsPending
  <2> QED BY <1>3, <2>1, <2>2, PacketMakesNoGhost
<1>4. CASE Running /\ ClientFrame
  <2>1. client'.shown = [e \in Entities |-> 0]
    BY <1>1, <1>4, FrameEffect DEF ClientFrame
  <2> QED BY <2>1 DEF NoGhosts, Shown
<1>5. CASE Running /\ ClientFails
  <2>1. client'.scene = Ended
    BY <1>1, <1>5, FailureEffect DEF ClientFails
  <2> QED BY <2>1 DEF NoGhosts, Shown, Ended
<1>6. CASE UNCHANGED vars \/ \E p \in udp : LoseUdp(p)
  <2>1. UNCHANGED <<client, where, force, time, arrived, tcp, delayed>>
    BY <1>6 DEF vars, sceneVars, serverVars, networkVars, LoseUdp
  <2> QED BY <2>1 DEF NoGhosts, Shown, Stale, Leaving, InFlight, IsPending
<1> QED BY <1>2, <1>3, <1>4, <1>5, <1>6, ServerMakesNoGhosts DEF Next

LEMMA GhostsInit ==
  ASSUME Init
  PROVE  /\ PastUpdates /\ OwnNeverRemoved /\ HeadingHome
         /\ TcpUpdatesFollowed /\ UdpUpdatesFollowed /\ NoGhosts
<1>1. /\ DOMAIN tcp = {1} /\ tcp[1] = LoadWorld(StartingWorld) /\ udp = {} /\ DOMAIN delayed = {}
      /\ where[Own] = StartingWorld /\ client.scene = "authenticate"
  BY DEF Init, ScenesInit
<1>2. /\ IsLoad(tcp[1]) /\ tcp[1].world = StartingWorld /\ tcp[1].type = "loadWorld"
  BY <1>1 DEF IsLoad, LoadWorld
<1> QED BY <1>1, <1>2 DEF PastUpdates, Stamped, OwnNeverRemoved, IsRemovalOf, HeadingHome, LoadsComing,
                         TcpUpdatesFollowed, UdpUpdatesFollowed, NoGhosts, Shown

\* Where datagrams arrive, if at all, before the second removal is sent, no
\* entity that has left the client's world goes on being shown: whatever the
\* order in which updates, removals and changes of scene reach the client, a
\* removal, a newer update that cannot be lost or another world is to come.
THEOREM NoGhostStays == Timely => (Spec => []NoGhosts)
<1> SUFFICES ASSUME Timely
             PROVE  Spec => []NoGhosts
  OBVIOUS
<1> DEFINE Inv == TypeOK /\ Always /\ IfTimely /\ NoGhosts
<1> USE DEF Always, IfTimely
<1>1. Init => Inv
  BY TypeInit, GhostsInit
<1>2. Inv /\ [Next]_vars => Inv'
  <2> SUFFICES ASSUME Inv, [Next]_vars
               PROVE  Inv'
    OBVIOUS
  <2>1. TypeOK' /\ ScenesAgree'
    BY TypeStep
  <2>2. PastUpdates' /\ OwnNeverRemoved' /\ HeadingHome'
    BY OwnStep, HomeStep
  <2>3. TcpUpdatesFollowed' /\ UdpUpdatesFollowed'
    BY TcpUpdatesStep, UdpUpdatesStep
  <2>4. NoGhosts'
    BY <2>1, GhostStep
  <2> QED BY <2>1, <2>2, <2>3, <2>4
<1>3. Inv => NoGhosts
  OBVIOUS
<1> QED BY <1>1, <1>2, <1>3, PTL DEF Spec

-----------------------------------------------------------------------------
(***************************************************************************)
(* Appearances.                                                            *)
(***************************************************************************)
LEMMA PendingStep ==
  ASSUME SlowReturn, TypeOK, OwnNeverRemoved, PendingAreAway, [Next]_vars
  PROVE  PendingAreAway'
<1> DEFINE Away(p) == where[p.entity] # p.world
<1>1. /\ delayed \in Seq([packet : Packet, since : Nat]) /\ where \in [Entities -> Worlds]
      /\ Own \in Entities /\ time \in Nat
  BY ScenesAssumption DEF TypeOK, ScenesAssumption
<1>2. ASSUME NEW i \in DOMAIN delayed
      PROVE  /\ delayed[i].packet = Removal(delayed[i].packet.entity, delayed[i].packet.world)
             /\ delayed[i].packet.entity \in Entities \ {Own} /\ Away(delayed[i].packet)
  <2>1. delayed[i] \in [packet : Packet, since : Nat]
    <3> DEFINE S == [packet : Packet, since : Nat]
    <3>1. delayed \in Seq(S)
      BY <1>1
    <3> HIDE DEF S
    <3>2. delayed[i] \in S
      BY <1>2, <3>1
    <3> QED BY <3>2 DEF S
  <2>2. delayed[i].packet \in Packet /\ delayed[i].packet.type = "remove"
    BY <1>2, <2>1 DEF OwnNeverRemoved
  <2> QED BY <1>2, <2>1, <2>2, PacketKinds DEF OwnNeverRemoved, IsRemovalOf, PendingAreAway
<1>3. ASSUME where' = where,
             \A i \in DOMAIN delayed' : \E j \in DOMAIN delayed : delayed'[i] = delayed[j]
      PROVE  PendingAreAway'
  BY <1>3 DEF PendingAreAway
<1>4. ASSUME NEW e \in Entities, NEW w \in Worlds, TransferOther(e, w)
      PROVE  PendingAreAway'
  <2> DEFINE held == [packet |-> Removal(e, where[e]), since |-> time]
  <2>1. /\ where' = [where EXCEPT ![e] = w] /\ where[e] # w
        /\ delayed' = Append(delayed, held) \/ delayed' = delayed
    BY <1>4, TransferOtherEffect
  <2>2. /\ held.packet = Removal(e, where[e]) /\ held \in [packet : Packet, since : Nat]
        /\ held.packet.entity = e /\ held.packet.world = where[e]
    BY <1>1, PacketsMade DEF Removal
  <2> HIDE DEF held
  <2>3. \A i \in DOMAIN delayed' :
          delayed'[i] = held \/ (i \in DOMAIN delayed /\ delayed'[i] = delayed[i])
    BY <1>1, <2>1, <2>2, Appended
  <2>4. ~IsPending(Removal(e, w))
    BY <1>4 DEF TransferOther
  <2>5. ASSUME NEW i \in DOMAIN delayed
        PROVE  where'[delayed[i].packet.entity] # delayed[i].packet.world
    <3>1. CASE delayed[i].packet.entity # e
      BY <1>1, <1>2, <2>1, <3>1
    <3>2. CASE delayed[i].packet.entity = e
      <4>1. delayed[i].packet.world # w
        BY <1>2, <2>4, <3>2 DEF IsPending
      <4> QED BY <1>1, <2>1, <3>2, <4>1
    <3> QED BY <3>1, <3>2
  <2>6. where'[held.packet.entity] # held.packet.world
    BY <1>1, <2>1, <2>2
  <2> QED BY <2>3, <2>5, <2>6 DEF PendingAreAway
<1>5. ASSUME NEW w \in Worlds, TransferOwn(w)
      PROVE  PendingAreAway'
  <2>1. where' = [where EXCEPT ![Own] = w] /\ delayed' = delayed
    BY <1>5, TransferOwnEffect
  <2> QED BY <1>1, <1>2, <2>1 DEF PendingAreAway
<1>6. CASE SendSecondRemoval
  <2>1. /\ where' = where
        /\ DOMAIN delayed = 1..Len(delayed) /\ Len(delayed) \in Nat \ {0}
        /\ DOMAIN delayed' = 1..(Len(delayed) - 1)
        /\ \A i \in DOMAIN delayed' : delayed'[i] = delayed[i + 1]
    BY <1>6, SecondRemovalEffect DEF serverVars
  <2>2. ASSUME NEW i \in DOMAIN delayed'
        PROVE  i + 1 \in DOMAIN delayed
    BY <2>1
  <2> QED BY <1>3, <2>1, <2>2
<1>7. ASSUME NEW e \in Entities, WorldLoaded(e) \/ BroadcastEntityState(e)
      PROVE  PendingAreAway'
  BY <1>3, <1>7, WorldLoadedEffect, BroadcastEffect
<1>8. CASE \/ UNCHANGED vars \/ ClientFrame \/ ClientFails \/ ReceiveTcp
           \/ \E p \in udp : ReceiveUdp(p) \/ LoseUdp(p)
  <2>1. UNCHANGED <<where, delayed>>
    BY <1>8 DEF vars, serverVars, networkVars, ClientFrame, ClientFails, ReceiveTcp, ReceiveUdp,
                LoseUdp
  <2> QED BY <1>3, <2>1
<1>9. ASSUME HandleOwnWorldLoaded \/ \E e \in Entities : HandleOtherWorldLoaded(e)
      PROVE  PendingAreAway'
  BY <1>1, <1>7, <1>9 DEF HandleOwnWorldLoaded, HandleOtherWorldLoaded
<1> QED BY <1>4, <1>5, <1>6, <1>7, <1>8, <1>9 DEF Next

LEMMA RemovalsKept ==
  ASSUME RemovalsFollowed, Grows,
         \A i \in DOMAIN tcp' \ DOMAIN tcp, e \in Entities :
           IsRemovalOf(tcp'[i], e) => where'[e] # tcp'[i].world,
         \A e \in Entities :
           \/ where'[e] = where[e] /\ where'[Own] = where[Own]
           \/ \E j \in DOMAIN tcp' \ DOMAIN tcp :
                IsLoad(tcp'[j]) \/ tcp'[j] = SetDetails(e, where'[e])
           \/ where'[Own] # where'[e]
  PROVE  RemovalsFollowed'
<1> SUFFICES ASSUME NEW i \in DOMAIN tcp', NEW e \in Entities, IsRemovalOf(tcp'[i], e),
                    where'[e] = tcp'[i].world, where'[Own] = tcp'[i].world
             PROVE  \E j \in DOMAIN tcp' :
                      i < j /\ (IsLoad(tcp'[j]) \/ tcp'[j] = SetDetails(e, tcp'[i].world))
  BY DEF RemovalsFollowed, IsRemovalOf, IsLoad
<1>1. i \in DOMAIN tcp /\ tcp'[i] = tcp[i]
  BY DEF Grows
<1>2. CASE where'[e] = where[e] /\ where'[Own] = where[Own]
  <2>1. PICK j \in DOMAIN tcp : i < j /\ (IsLoad(tcp[j]) \/ tcp[j] = SetDetails(e, tcp[i].world))
    BY <1>1, <1>2 DEF RemovalsFollowed, IsRemovalOf
  <2> QED BY <1>1, <2>1 DEF Grows
<1>3. ASSUME NEW j \in DOMAIN tcp' \ DOMAIN tcp,
             IsLoad(tcp'[j]) \/ tcp'[j] = SetDetails(e, where'[e])
      PROVE  i < j /\ (IsLoad(tcp'[j]) \/ tcp'[j] = SetDetails(e, tcp'[i].world))
  BY <1>1, <1>3 DEF Grows
<1> QED BY <1>2, <1>3

LEMMA RemovalsStep ==
  ASSUME TypeOK, OwnNeverRemoved, PendingAreAway, RemovalsFollowed, [Next]_vars
  PROVE  RemovalsFollowed'
<1>1. /\ tcp \in Seq(Packet) /\ Own \in Entities /\ where \in [Entities -> Worlds]
      /\ time \in Nat
  BY ScenesAssumption DEF TypeOK, ScenesAssumption
<1>2. ASSUME where' = where, Grows,
             \A i \in DOMAIN tcp' \ DOMAIN tcp : tcp'[i].type # "remove"
      PROVE  RemovalsFollowed'
  BY <1>2, RemovalsKept DEF IsRemovalOf
<1>3. ASSUME NEW f \in Entities, NEW w \in Worlds, TransferOther(f, w)
      PROVE  RemovalsFollowed'
  <2>1. /\ f # Own /\ where' = [where EXCEPT ![f] = w] /\ where[f] # w
        /\ \/ where[f] = where[Own] /\ tcp' = Append(tcp, Removal(f, where[f]))
           \/ where[Own] = w /\ tcp' = Append(tcp, SetDetails(f, w))
           \/ where[Own] # w /\ tcp' = tcp
    BY <1>3, TransferOtherEffect
  <2>2. /\ Removal(f, where[f]) \in Packet /\ SetDetails(f, w) \in Packet
        /\ Removal(f, where[f]).entity = f /\ Removal(f, where[f]).world = where[f]
        /\ SetDetails(f, w).type = "setDetails"
    BY <1>1, PacketsMade DEF Removal, SetDetails
  <2>3. Grows
    BY <1>1, <2>1, <2>2, Grown
  <2>4. \A i \in DOMAIN tcp' \ DOMAIN tcp : tcp'[i] \in {Removal(f, where[f]), SetDetails(f, w)}
    BY <1>1, <2>1, <2>2, Grown
  <2>5. ASSUME NEW i \in DOMAIN tcp' \ DOMAIN tcp, NEW e \in Entities, IsRemovalOf(tcp'[i], e)
        PROVE  where'[e] # tcp'[i].world
    BY <1>1, <2>1, <2>2, <2>4, <2>5 DEF IsRemovalOf
  <2>6. \A e \in Entities : e # f => where'[e] = where[e] /\ where'[Own] = where[Own]
    BY <1>1, <2>1
  <2>7. where'[f] = w /\ where'[Own] = where[Own]
    BY <1>1, <2>1
  <2>8. CASE where[Own] = w
    <3>1. tcp' = Append(tcp, SetDetails(f, w))
      BY <2>1, <2>8
    <3>2. \E j \in DOMAIN tcp' \ DOMAIN tcp : tcp'[j] = SetDetails(f, where'[f])
      BY <1>1, <2>2, <2>7, <3>1, Grown
    <3> QED BY <2>3, <2>5, <2>6, <3>2, RemovalsKept
  <2>9. CASE where[Own] # w
    BY <2>3, <2>5, <2>6, <2>7, <2>9, RemovalsKept
  <2> QED BY <2>8, <2>9
<1>4. ASSUME NEW w \in Worlds, TransferOwn(w)
      PROVE  RemovalsFollowed'
  <2>1. tcp' = Append(tcp, LoadWorld(w)) /\ LoadWorld(w) \in Packet
    BY <1>4, TransferOwnEffect
  <2>2. /\ Grows /\ \A i \in DOMAIN tcp' \ DOMAIN tcp : tcp'[i] = LoadWorld(w)
        /\ \E j \in DOMAIN tcp' \ DOMAIN tcp : tcp'[j] = LoadWorld(w)
    BY <1>1, <2>1, Grown
  <2>3. IsLoad(LoadWorld(w)) /\ LoadWorld(w).type # "remove"
    BY DEF IsLoad, LoadWorld
  <2>4. /\ \A i \in DOMAIN tcp' \ DOMAIN tcp, e \in Entities : ~IsRemovalOf(tcp'[i], e)
        /\ \E j \in DOMAIN tcp' \ DOMAIN tcp : IsLoad(tcp'[j])
    BY <2>2, <2>3 DEF IsRemovalOf
  <2> QED BY <2>2, <2>4, RemovalsKept
<1>5. ASSUME NEW e \in Entities, WorldLoaded(e)
      PROVE  RemovalsFollowed'
  <2>1. where' = where
    BY <1>5, WorldLoadedEffect
  <2>2. PICK details \in Seq(Packet) :
          /\ tcp' = tcp \o details
          /\ \A i \in DOMAIN details : \E f \in Entities, w \in Worlds :
               details[i] = SetDetails(f, w)
    BY <1>5, WorldLoadedEffect
  <2>3. \A i \in DOMAIN details : details[i].type # "remove"
    BY <2>2 DEF SetDetails
  <2>4. Grows /\ \A i \in DOMAIN tcp' \ DOMAIN tcp : \E j \in DOMAIN details : tcp'[i] = details[j]
    BY <1>1, <2>2, Grown
  <2> QED BY <1>2, <2>1, <2>3, <2>4
<1>6. ASSUME NEW e \in Entities, BroadcastEntityState(e)
      PROVE  RemovalsFollowed'
  <2> DEFINE u == Update(e, where[e], time + 1)
  <2>1. where' = where /\ (tcp' = tcp \/ tcp' = Append(tcp, u))
    BY <1>6, BroadcastEffect
  <2>2. u \in Packet /\ u.type # "remove"
    <3>1. u \in Packet
      BY <1>1, PacketsMade
    <3> QED BY <3>1 DEF Update
  <2> HIDE DEF u
  <2>3. Grows /\ \A i \in DOMAIN tcp' \ DOMAIN tcp : tcp'[i] = u
    BY <1>1, <2>1, <2>2, Grown
  <2> QED BY <1>2, <2>1, <2>2, <2>3
<1>7. CASE SendSecondRemoval
  <2>1. /\ tcp' = Append(tcp, delayed[1].packet) /\ delayed[1].packet \in Packet
        /\ where' = where /\ 1 \in DOMAIN delayed
    BY <1>7, SecondRemovalEffect DEF serverVars
  <2>2. Grows /\ \A i \in DOMAIN tcp' \ DOMAIN tcp : tcp'[i] = delayed[1].packet
    BY <1>1, <2>1, Grown
  <2>3. where[delayed[1].packet.entity] # delayed[1].packet.world
    BY <2>1 DEF PendingAreAway
  <2>4. \A i \in DOMAIN tcp' \ DOMAIN tcp, e \in Entities :
          IsRemovalOf(tcp'[i], e) => where'[e] # tcp'[i].world
    BY <2>1, <2>2, <2>3 DEF IsRemovalOf
  <2> QED BY <2>1, <2>2, <2>4, RemovalsKept
<1>8. CASE ReceiveTcp
  <2>1. /\ DOMAIN tcp = 1..Len(tcp) /\ Len(tcp) \in Nat \ {0}
        /\ DOMAIN tcp' = 1..(Len(tcp) - 1)
        /\ \A i \in DOMAIN tcp' : tcp'[i] = tcp[i + 1]
        /\ where' = where
    BY <1>8, ReceiveTcpEffect DEF serverVars
  <2> SUFFICES ASSUME NEW i \in DOMAIN tcp', NEW e \in Entities, IsRemovalOf(tcp'[i], e),
                      where[e] = tcp'[i].world, where[Own] = tcp'[i].world
               PROVE  \E j \in DOMAIN tcp' :
                        i < j /\ (IsLoad(tcp'[j]) \/ tcp'[j] = SetDetails(e, tcp'[i].world))
    BY <2>1 DEF RemovalsFollowed, IsRemovalOf, IsLoad
  <2>2. i + 1 \in DOMAIN tcp /\ tcp'[i] = tcp[i + 1]
    BY <2>1
  <2>3. PICK j \in DOMAIN tcp :
          i + 1 < j /\ (IsLoad(tcp[j]) \/ tcp[j] = SetDetails(e, tcp[i + 1].world))
    BY <2>2 DEF RemovalsFollowed, IsRemovalOf
  <2>4. j - 1 \in DOMAIN tcp' /\ tcp'[j - 1] = tcp[j] /\ i < j - 1
    BY <2>1, <2>3
  <2> QED BY <2>2, <2>3, <2>4
<1>9. CASE \/ UNCHANGED vars \/ ClientFrame \/ ClientFails
           \/ \E p \in udp : ReceiveUdp(p) \/ LoseUdp(p)
  <2>1. UNCHANGED <<where, tcp>>
    BY <1>9 DEF vars, serverVars, networkVars, ClientFrame, ClientFails, ReceiveUdp, LoseUdp
  <2> QED BY <1>1, <1>2, <2>1, Grown
<1>10. ASSUME HandleOwnWorldLoaded \/ \E e \in Entities : HandleOtherWorldLoaded(e)
       PROVE  RemovalsFollowed'
  BY <1>1, <1>5, <1>10 DEF HandleOwnWorldLoaded, HandleOtherWorldLoaded
<1> QED BY <1>3, <1>4, <1>6, <1>7, <1>8, <1>9, <1>10 DEF Next

LEMMA CachedStep ==
  ASSUME TypeOK, ScenesAgree, CachedAreHidden, [Next]_vars
  PROVE  CachedAreHidden'
<1>1. client \in ClientType /\ reports \in Nat /\ udp \subseteq UpdatePacket
  BY DEF TypeOK, ScenesTypeOK
<1>2. CASE client' = client
  BY <1>2 DEF CachedAreHidden
<1>3. ASSUME NEW p \in Packet, ProcessPacket(p), Running
      PROVE  CachedAreHidden'
  <2>1. CASE IsLoad(p)
    <3>1. client' = [client EXCEPT !.parameter = p.world, !.queued = client'.queued,
                                   !.isLoading = client'.isLoading]
      BY <1>1, <1>3, <2>1, LoadPacketEffect
    <3>2. client'.cached = client.cached /\ client'.shown = client.shown
      BY <1>1, <3>1 DEF ClientType
    <3> QED BY <3>2 DEF CachedAreHidden
  <2>2. CASE ~IsLoad(p) /\ (client.scene # "world" \/ p.world # client.world)
    BY <1>1, <1>2, <1>3, <2>2, DroppedPacketEffect
  <2>3. client.shown \in [Entities -> Nat] /\ client.cached \subseteq Entities
    BY <1>1 DEF ClientType
  <2>4. CASE p.type = "update" /\ client.scene = "world" /\ p.world = client.world
    <3>1. p \in UpdatePacket /\ p.entity \in Entities
      BY <2>4, PacketKinds DEF Packet
    <3>2. /\ client'.shown = [client.shown EXCEPT ![p.entity] = IF p.time > @ THEN p.time ELSE @]
          /\ client'.cached = client.cached \ {p.entity}
      BY <1>1, <1>3, <2>4, <3>1, UpdateEffect
    <3> QED BY <2>3, <3>2 DEF CachedAreHidden
  <2>5. CASE p.type = "remove" /\ client.scene = "world" /\ p.world = client.world
    <3>1. client' = [client EXCEPT !.shown[p.entity] = 0, !.detailed = @ \ {p.entity}]
      BY <1>1, <1>3, <2>5, RemovalEffect
    <3>2. /\ client'.shown = [client.shown EXCEPT ![p.entity] = 0]
          /\ client'.cached = client.cached
      BY <1>1, <3>1 DEF ClientType
    <3> QED BY <2>3, <3>2 DEF CachedAreHidden
  <2>6. CASE p.type = "setDetails" /\ client.scene = "world" /\ p.world = client.world
    <3>1. client' = IF client.shown[p.entity] = 0
                      THEN [client EXCEPT !.cached = @ \union {p.entity}]
                      ELSE [client EXCEPT !.detailed = @ \union {p.entity}]
      BY <1>1, <1>3, <2>6, DetailsEffect
    <3>2. /\ client'.shown = client.shown
          /\ client'.cached = IF client.shown[p.entity] = 0 THEN client.cached \union {p.entity}
                              ELSE client.cached
      BY <1>1, <3>1 DEF ClientType
    <3> QED BY <2>3, <3>2 DEF CachedAreHidden
  <2> QED BY <2>1, <2>2, <2>4, <2>5, <2>6, PacketKinds DEF IsLoad
<1>4. ASSUME NEW p \in udp, ReceiveUdp(p), Running
      PROVE  CachedAreHidden'
  BY <1>1, <1>3, <1>4 DEF ReceiveUdp, Packet
<1>5. CASE ReceiveTcp /\ Running
  BY <1>3, <1>5, ReceiveTcpEffect
<1>6. CASE ClientFrame /\ Running
  BY <1>1, <1>6, FrameEffect DEF ClientFrame, CachedAreHidden
<1>7. CASE ClientFails /\ Running
  BY <1>1, <1>7, FailureEffect DEF ClientFails, CachedAreHidden
<1>8. CASE UNCHANGED vars
  BY <1>2, <1>8 DEF vars, sceneVars
<1>9. ASSUME \/ \E e \in Entities, w \in Worlds : TransferOther(e, w)
             \/ \E w \in Worlds : TransferOwn(w)
             \/ HandleOwnWorldLoaded
             \/ \E e \in Entities : HandleOtherWorldLoaded(e)
             \/ \E e \in Entities : BroadcastEntityState(e)
             \/ SendSecondRemoval
             \/ \E p \in udp : LoseUdp(p)
      PROVE  client' = client
  BY <1>9 DEF TransferOther, TransferOwn, HandleOwnWorldLoaded, HandleOtherWorldLoaded, WorldLoaded,
              BroadcastEntityState, SendSecondRemoval, LoseUdp, sceneVars
<1> QED BY <1>2, <1>4, <1>5, <1>6, <1>7, <1>8, <1>9 DEF Next

\* Where the details of e are, or will come from.
Known(e) ==
  \/ Leaving
  \/ reports > 0
  \/ InFlight(SetDetails(e, client.world))
  \/ e \in client.detailed \union client.cached

LEMMA StillKnown ==
  ASSUME NEW e, Known(e), client'.world = client.world,
         client'.queued \in {client.queued, "loading", "world"}, reports' = reports,
         \A p : Contains(tcp, p) /\ (IsLoad(p) \/ p = SetDetails(e, client.world)) =>
           Contains(tcp', p),
         e \in client.detailed \union client.cached =>
           Known(e)' \/ e \in client'.detailed \union client'.cached
  PROVE  Known(e)'
<1>1. CASE Leaving
  <2>1. CASE client.queued # NoScene
    BY <2>1 DEF Known, Leaving, NoScene
  <2>2. ASSUME NEW w \in Worlds, Contains(tcp, LoadWorld(w))
        PROVE  Contains(tcp', LoadWorld(w))
    BY <2>2 DEF IsLoad, LoadWorld
  <2> QED BY <1>1, <2>1, <2>2 DEF Leaving, InFlight, Known
<1>2. CASE reports > 0
  BY <1>2 DEF Known
<1>3. CASE InFlight(SetDetails(e, client.world))
  <2>1. Contains(tcp', SetDetails(e, client.world))
    BY <1>3 DEF InFlight
  <2> QED BY <2>1 DEF InFlight, Known
<1>4. CASE e \in client.detailed \union client.cached
  BY <1>4 DEF Known
<1> QED BY <1>1, <1>2, <1>3, <1>4 DEF Known

LEMMA ServerKeepsDetailsKnown ==
  ASSUME TypeOK, TypeOK', HeadingHome, DetailsKnown, Running,
         \/ \E e \in Entities, w \in Worlds : TransferOther(e, w)
         \/ \E w \in Worlds : TransferOwn(w)
         \/ HandleOwnWorldLoaded
         \/ \E e \in Entities : HandleOtherWorldLoaded(e)
         \/ \E e \in Entities : BroadcastEntityState(e)
         \/ SendSecondRemoval
  PROVE  DetailsKnown'
<1>1. /\ tcp \in Seq(Packet) /\ tcp' \in Seq(Packet) /\ Own \in Entities
      /\ where \in [Entities -> Worlds] /\ time \in Nat /\ reports \in Nat
  BY ScenesAssumption DEF TypeOK, ScenesTypeOK, ScenesAssumption
<1>2. UNCHANGED client
  BY DEF TransferOther, TransferOwn, HandleOwnWorldLoaded, HandleOtherWorldLoaded, WorldLoaded,
         BroadcastEntityState, SendSecondRemoval, sceneVars
<1>3. (\A e \in Entities : (client.scene = "world" /\ where[e] = client.world)' => Known(e)')
        => DetailsKnown'
  BY DEF DetailsKnown, Known
<1>4. \A e \in Entities : client.scene = "world" /\ where[e] = client.world => Known(e)
  BY DEF DetailsKnown, Known
<1> HIDE DEF DetailsKnown
<1>5. ASSUME NEW e \in Entities, client.scene = "world", where[e] = client.world, Grows,
             reports' = reports
      PROVE  Known(e)'
  <2>1. \A p : Contains(tcp, p) => Contains(tcp', p)
    BY <1>1, <1>5, StillThere
  <2> QED BY <1>2, <1>4, <1>5, <2>1, StillKnown
<1>6. ASSUME Leaving, Grows, NEW e
      PROVE  Known(e)'
  <2>1. \A p : Contains(tcp, p) => Contains(tcp', p)
    BY <1>1, <1>6, StillThere
  <2> QED BY <1>2, <1>6, <2>1 DEF Leaving, InFlight, Known
<1>7. ASSUME NEW f \in Entities, NEW w \in Worlds, TransferOther(f, w),
             NEW e \in Entities, client.scene = "world", where'[e] = client.world
      PROVE  Known(e)'
  <2>1. /\ where' = [where EXCEPT ![f] = w] /\ reports' = reports /\ where[f] # w
        /\ \/ where[f] = where[Own] /\ tcp' = Append(tcp, Removal(f, where[f]))
           \/ where[Own] = w /\ tcp' = Append(tcp, SetDetails(f, w))
           \/ where[Own] # w /\ tcp' = tcp
    BY <1>7, TransferOtherEffect DEF sceneVars
  <2>2. Removal(f, where[f]) \in Packet /\ SetDetails(f, w) \in Packet
    BY <1>1, PacketsMade
  <2>3. Grows
    BY <1>1, <2>1, <2>2, Grown
  <2>4. CASE e # f
    <3>1. where[e] = client.world
      BY <1>1, <1>7, <2>1, <2>4
    <3> QED BY <1>5, <1>7, <2>1, <2>3, <3>1
  <2>5. CASE e = f /\ ~Leaving
    <3>1. client.world = where[Own] /\ w = client.world
      BY <1>1, <1>7, <2>1, <2>5, StaysHome
    <3>2. tcp' = Append(tcp, SetDetails(f, w))
      BY <2>1, <3>1
    <3>3. PICK i \in DOMAIN tcp' : tcp'[i] = SetDetails(f, w)
      BY <1>1, <2>2, <3>2, Grown
    <3>4. Contains(tcp', SetDetails(e, client.world))
      BY <1>1, <2>5, <3>1, <3>3, StillThere
    <3> QED BY <1>2, <3>4 DEF InFlight, Known
  <2> QED BY <1>6, <2>3, <2>4, <2>5
<1>8. ASSUME NEW w \in Worlds, TransferOwn(w)
      PROVE  DetailsKnown'
  <2>1. tcp' = Append(tcp, LoadWorld(w)) /\ LoadWorld(w) \in Packet
    BY <1>8, TransferOwnEffect
  <2>2. PICK i \in DOMAIN tcp' : tcp'[i] = LoadWorld(w)
    BY <1>1, <2>1, Grown
  <2>3. Contains(tcp', LoadWorld(w))
    BY <1>1, <2>2, StillThere
  <2> QED BY <1>3, <2>3 DEF Known, Leaving, InFlight
<1>9. ASSUME HandleOwnWorldLoaded, NEW e \in Entities, client.scene = "world",
             where'[e] = client.world
      PROVE  Known(e)'
  <2>1. WorldLoaded(Own)
    BY <1>9 DEF HandleOwnWorldLoaded
  <2>2. where' = where
    BY <1>1, <2>1, WorldLoadedEffect
  <2>3. PICK details \in Seq(Packet) :
          /\ tcp' = tcp \o details
          /\ \A f \in Entities : where[f] = where[Own] =>
               \E i \in DOMAIN details : details[i] = SetDetails(f, where[Own])
    BY <1>1, <2>1, WorldLoadedEffect
  <2>4. Grows /\ \A j \in DOMAIN details : \E i \in DOMAIN tcp' \ DOMAIN tcp : tcp'[i] = details[j]
    BY <1>1, <2>3, Grown
  <2>5. CASE ~Leaving
    <3>1. client.world = where[Own] /\ where[e] = where[Own]
      BY <1>9, <2>2, <2>5, StaysHome
    <3>2. PICK j \in DOMAIN details : details[j] = SetDetails(e, where[Own])
      BY <2>3, <3>1
    <3>3. PICK i \in DOMAIN tcp' : tcp'[i] = details[j]
      BY <2>4
    <3>4. Contains(tcp', SetDetails(e, client.world))
      BY <1>1, <3>1, <3>2, <3>3, StillThere
    <3> QED BY <1>2, <3>4 DEF InFlight, Known
  <2> QED BY <1>6, <2>4, <2>5
<1>10. ASSUME NEW f \in Entities, WorldLoaded(f), reports' = reports,
              NEW e \in Entities, client.scene = "world", where'[e] = client.world
       PROVE  Known(e)'
  <2>1. where' = where /\ \E details \in Seq(Packet) : tcp' = tcp \o details
    BY <1>10, WorldLoadedEffect
  <2>2. Grows
    BY <1>1, <2>1, Grown
  <2> QED BY <1>5, <1>10, <2>1, <2>2
<1>11. ASSUME NEW f \in Entities, BroadcastEntityState(f),
              NEW e \in Entities, client.scene = "world", where'[e] = client.world
       PROVE  Known(e)'
  <2> DEFINE u == Update(f, where[f], time + 1)
  <2>1. where' = where /\ reports' = reports /\ (tcp' = tcp \/ tcp' = Append(tcp, u))
    BY <1>11, BroadcastEffect DEF sceneVars
  <2>2. u \in Packet
    BY <1>1, PacketsMade
  <2> HIDE DEF u
  <2>3. Grows
    BY <1>1, <2>1, <2>2, Grown
  <2> QED BY <1>5, <1>11, <2>1, <2>3
<1>12. ASSUME SendSecondRemoval,
              NEW e \in Entities, client.scene = "world", where'[e] = client.world
       PROVE  Known(e)'
  <2>1. /\ where' = where /\ reports' = reports /\ delayed[1].packet \in Packet
        /\ tcp' = Append(tcp, delayed[1].packet)
    BY <1>12, SecondRemovalEffect DEF serverVars, sceneVars
  <2>2. Grows
    BY <1>1, <2>1, Grown
  <2> QED BY <1>5, <1>12, <2>1, <2>2
<1>13. ASSUME \E f \in Entities : HandleOtherWorldLoaded(f)
       PROVE  \E f \in Entities : WorldLoaded(f) /\ reports' = reports
  BY <1>13 DEF HandleOtherWorldLoaded
<1> QED BY <1>2, <1>3, <1>7, <1>8, <1>9, <1>10, <1>11, <1>12, <1>13

LEMMA DetailsStep ==
  ASSUME TypeOK, TypeOK', ScenesAgree, HeadingHome, RemovalsFollowed, DetailsKnown, [Next]_vars
  PROVE  DetailsKnown'
<1>1. /\ client \in ClientType /\ reports \in Nat /\ tcp \in Seq(Packet) /\ tcp' \in Seq(Packet)
      /\ udp \subseteq UpdatePacket
  BY DEF TypeOK, ScenesTypeOK
<1>2. \A e \in Entities : client.scene = "world" /\ where[e] = client.world => Known(e)
  BY DEF DetailsKnown, Known
<1>3. (\A e \in Entities : (client.scene = "world" /\ where[e] = client.world)' => Known(e)')
        => DetailsKnown'
  BY DEF DetailsKnown, Known
<1> HIDE DEF DetailsKnown
<1>4. ASSUME Running, NEW p \in Packet, ProcessPacket(p), where' = where,
             \A q : Contains(tcp, q) /\ q # p => Contains(tcp', q),
             \A e \in Entities :
               IsRemovalOf(p, e) /\ where[e] = p.world /\ where[Own] = p.world =>
                 Leaving' \/ Contains(tcp', SetDetails(e, p.world))
      PROVE  DetailsKnown'
  <2>1. reports' = reports
    BY <1>4 DEF ProcessPacket
  <2>2. CASE IsLoad(p)
    <3>1. client'.queued # NoScene
      BY <1>1, <1>4, <2>2, LoadPacketEffect DEF NoScene
    <3> QED BY <1>3, <3>1 DEF Known, Leaving
  <2>3. CASE ~IsLoad(p)
    <3>1. /\ client'.scene = client.scene /\ client'.world = client.world
          /\ client'.queued = client.queued
      BY <1>1, <1>4, <2>3, OtherPacketEffect
    <3> SUFFICES ASSUME NEW e \in Entities, client.scene = "world", where[e] = client.world
                 PROVE  Known(e)'
      BY <1>3, <1>4, <3>1
    <3>2. Known(e)
      BY <1>2
    <3>3. CASE Leaving
      <4>1. \A w \in Worlds : Contains(tcp, LoadWorld(w)) => Contains(tcp', LoadWorld(w))
        BY <1>4, <2>3 DEF IsLoad, LoadWorld
      <4> QED BY <3>1, <3>3, <4>1 DEF Leaving, InFlight, Known
    <3>4. CASE p = SetDetails(e, client.world)
      <4>1. p.type = "setDetails" /\ p.entity = e /\ p.world = client.world
        BY <3>4 DEF SetDetails
      <4>2. client' = IF client.shown[e] = 0 THEN [client EXCEPT !.cached = @ \union {e}]
                      ELSE [client EXCEPT !.detailed = @ \union {e}]
        BY <1>1, <1>4, <4>1, DetailsEffect
      <4>3. e \in client'.detailed \union client'.cached
        BY <1>1, <4>2 DEF ClientType
      <4> QED BY <4>3 DEF Known
    <3>5. CASE ~Leaving /\ p # SetDetails(e, client.world)
      <4>1. \A q : Contains(tcp, q) /\ (IsLoad(q) \/ q = SetDetails(e, client.world)) =>
              Contains(tcp', q)
        BY <1>4, <2>3, <3>5
      <4>2. ASSUME e \in client.detailed \union client.cached
            PROVE  Known(e)' \/ e \in client'.detailed \union client'.cached
        <5>1. CASE p.world # client.world
          BY <1>1, <1>4, <2>3, <4>2, <5>1, DroppedPacketEffect
        <5>2. CASE p.type = "update" /\ p.world = client.world
          <6>1. p \in UpdatePacket
            BY <5>2, PacketKinds DEF Packet
          <6>2. /\ client'.detailed = IF p.entity \in client.cached
                                        THEN client.detailed \union {p.entity}
                                        ELSE client.detailed
                /\ client'.cached = client.cached \ {p.entity}
            BY <1>1, <1>4, <5>2, <6>1, UpdateEffect
          <6> QED BY <4>2, <6>2
        <5>3. CASE p.type = "setDetails" /\ p.world = client.world
          <6>1. client' = IF client.shown[p.entity] = 0
                            THEN [client EXCEPT !.cached = @ \union {p.entity}]
                            ELSE [client EXCEPT !.detailed = @ \union {p.entity}]
            BY <1>1, <1>4, <5>3, DetailsEffect
          <6> QED BY <1>1, <4>2, <6>1 DEF ClientType
        <5>4. CASE p.type = "remove" /\ p.world = client.world
          <6>1. client' = [client EXCEPT !.shown[p.entity] = 0, !.detailed = @ \ {p.entity}]
            BY <1>1, <1>4, <5>4, RemovalEffect
          <6>2. CASE p.entity # e
            BY <1>1, <4>2, <6>1, <6>2 DEF ClientType
          <6>3. CASE p.entity = e
            <7>1. client.world = where[Own]
              BY <3>5, StaysHome
            <7>2. Leaving' \/ Contains(tcp', SetDetails(e, p.world))
              BY <1>4, <5>4, <6>3, <7>1 DEF IsRemovalOf
            <7> QED BY <3>1, <5>4, <7>2 DEF Known, InFlight
          <6> QED BY <6>2, <6>3
        <5> QED BY <2>3, <5>1, <5>2, <5>3, <5>4, PacketKinds DEF IsLoad
      <4> QED BY <2>1, <3>1, <3>2, <4>1, <4>2, StillKnown
    <3> QED BY <3>3, <3>4, <3>5
  <2> QED BY <2>2, <2>3
<1>5. CASE Running /\ ReceiveTcp
  <2>1. /\ DOMAIN tcp = 1..Len(tcp) /\ Len(tcp) \in Nat \ {0}
        /\ tcp[1] \in Packet /\ ProcessPacket(tcp[1])
        /\ DOMAIN tcp' = 1..(Len(tcp) - 1)
        /\ \A i \in DOMAIN tcp' : tcp'[i] = tcp[i + 1]
        /\ where' = where
    BY <1>5, ReceiveTcpEffect DEF serverVars
  <2>2. ASSUME NEW i \in DOMAIN tcp, i # 1
        PROVE  Contains(tcp', tcp[i])
    <3>1. i - 1 \in DOMAIN tcp' /\ tcp'[i - 1] = tcp[i]
      BY <2>1, <2>2
    <3> QED BY <1>1, <3>1, StillThere
  <2>3. ASSUME NEW q, Contains(tcp, q), q # tcp[1]
        PROVE  Contains(tcp', q)
    <3>1. PICK i \in DOMAIN tcp : tcp[i] = q
      BY <1>1, <2>3 DEF Contains
    <3> QED BY <2>2, <2>3, <3>1
  <2>4. ASSUME NEW e \in Entities, IsRemovalOf(tcp[1], e), where[e] = tcp[1].world,
               where[Own] = tcp[1].world
        PROVE  Leaving' \/ Contains(tcp', SetDetails(e, tcp[1].world))
    <3>1. PICK j \in DOMAIN tcp :
            1 < j /\ (IsLoad(tcp[j]) \/ tcp[j] = SetDetails(e, tcp[1].world))
      BY <2>1, <2>4 DEF RemovalsFollowed
    <3>2. Contains(tcp', tcp[j])
      BY <2>2, <3>1
    <3>3. CASE IsLoad(tcp[j])
      <4>1. tcp[j] \in [type : {"loadWorld"}, world : Worlds]
        BY <1>1, <3>1, <3>3 DEF Packet, UpdatePacket, IsLoad
      <4>2. tcp[j].world \in Worlds /\ tcp[j] = LoadWorld(tcp[j].world)
        BY <4>1 DEF LoadWorld
      <4>3. \E w \in Worlds : Contains(tcp', LoadWorld(w))
        BY <3>2, <4>2
      <4> QED BY <4>3 DEF Leaving, InFlight
    <3> QED BY <3>1, <3>2, <3>3
  <2> QED BY <1>4, <1>5, <2>1, <2>3, <2>4
<1>6. ASSUME Running, NEW p \in udp, ReceiveUdp(p)
      PROVE  DetailsKnown'
  <2>1. /\ p \in Packet /\ ProcessPacket(p) /\ UNCHANGED <<tcp, where>> /\ p.type = "update"
    BY <1>1, <1>6 DEF ReceiveUdp, Packet, UpdatePacket, serverVars
  <2> QED BY <1>4, <1>6, <2>1 DEF IsRemovalOf
<1>7. CASE Running /\ ClientFrame
  <2>1. /\ client'.scene \in {"loading", "world"}
        /\ reports' = IF client'.scene = "world" THEN reports + 1 ELSE reports
    BY <1>1, <1>7, FrameEffect DEF ClientFrame
  <2>2. client'.scene = "world" => reports' > 0
    BY <1>1, <2>1
  <2> QED BY <1>3, <2>2 DEF Known
<1>8. CASE Running /\ ClientFails
  <2>1. client'.scene = Ended
    BY <1>1, <1>8, FailureEffect DEF ClientFails
  <2> QED BY <1>3, <2>1 DEF Ended
<1>9. CASE UNCHANGED vars \/ \E p \in udp : LoseUdp(p)
  <2>1. UNCHANGED <<client, reports, where, tcp>>
    BY <1>9 DEF vars, sceneVars, serverVars, networkVars, LoseUdp
  <2> QED BY <2>1 DEF DetailsKnown, Leaving, InFlight
<1> QED BY <1>5, <1>6, <1>7, <1>8, <1>9, ServerKeepsDetailsKnown DEF Next

\* Where nobody comes back before the second removal is sent, whoever is shown
\* in its world has its appearance or is about to get it, whatever the order in
\* which details, updates, removals and changes of scene reach the client.
THEOREM AppearancesArrive == SlowReturn => (Spec => []AppearanceKnown)
<1> SUFFICES ASSUME SlowReturn
             PROVE  Spec => []AppearanceKnown
  OBVIOUS
<1> DEFINE Inv == TypeOK /\ Always /\ IfSlow
<1> USE DEF Always, IfSlow
<1>1. Init => Inv
  <2> SUFFICES ASSUME Init
               PROVE  PendingAreAway /\ RemovalsFollowed /\ CachedAreHidden /\ DetailsKnown
    BY TypeInit, GhostsInit
  <2>1. /\ DOMAIN tcp = {1} /\ tcp[1].type = "loadWorld" /\ DOMAIN delayed = {}
        /\ client.scene = "authenticate" /\ client.cached = {}
    BY DEF Init, ScenesInit, LoadWorld
  <2> QED BY <2>1 DEF PendingAreAway, RemovalsFollowed, IsRemovalOf, CachedAreHidden, DetailsKnown
<1>2. Inv /\ [Next]_vars => Inv'
  <2> SUFFICES ASSUME Inv, [Next]_vars
               PROVE  Inv'
    OBVIOUS
  <2>1. TypeOK' /\ ScenesAgree'
    BY TypeStep
  <2>2. PastUpdates' /\ OwnNeverRemoved' /\ HeadingHome'
    BY OwnStep, HomeStep
  <2>3. PendingAreAway' /\ RemovalsFollowed' /\ CachedAreHidden'
    BY PendingStep, RemovalsStep, CachedStep
  <2>4. DetailsKnown'
    BY <2>1, DetailsStep
  <2> QED BY <2>1, <2>2, <2>3, <2>4
<1>3. Inv => AppearanceKnown
  <2> SUFFICES ASSUME Inv, NEW e \in Entities, Shown(e), where[e] = client.world,
                      e \notin client.detailed
               PROVE  Leaving \/ reports > 0 \/ InFlight(SetDetails(e, client.world))
    BY DEF AppearanceKnown
  <2>1. e \notin client.cached
    BY DEF CachedAreHidden, Shown, TypeOK, ScenesTypeOK, ClientType
  <2> QED BY <2>1 DEF DetailsKnown, Shown
<1> QED BY <1>1, <1>2, <1>3, PTL DEF Spec
=============================================================================

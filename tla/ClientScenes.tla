---------------------------- MODULE ClientScenes ----------------------------
(***************************************************************************)
(* The game client between its network thread and the world it shows.      *)
(*                                                                         *)
(* The network thread puts every packet, from TCP or UDP, into one queue.  *)
(* Once a frame the main thread hands the queued packets to the scene that *)
(* is current at that time, lets the scene tick, and at the end of the     *)
(* frame carries out the change of scene that was requested last.  A       *)
(* packet is therefore interpreted by whichever scene the client has       *)
(* reached by then, not by the one it was meant for.                       *)
(*                                                                         *)
(* The queue only keeps the order of arrival, so a packet is taken to      *)
(* arrive when its turn comes: ProcessPacket is one turn of the loop in    *)
(* HandleNetworkPackets, EndOfFrame the rest of the frame.                 *)
(***************************************************************************)
EXTENDS Naturals, Sequences, FiniteSets, SequencesExt

CONSTANTS Worlds,
          Entities,     \* characters, of players and others
          Own,          \* the character of this client's player
          NoWorld       \* no world name

ASSUME ScenesAssumption == Own \in Entities /\ NoWorld \notin Worlds

VARIABLES
  client,      \* scene manager, current scene and its world, see ClientType
  reports      \* WorldLoaded packets sent and not yet received by the server

sceneVars == <<client, reports>>

LoadWorld(w)       == [type |-> "loadWorld", world |-> w]
Removal(e, w)       == [type |-> "remove", entity |-> e, world |-> w]
SetDetails(e, w)   == [type |-> "setDetails", entity |-> e, world |-> w]
Update(e, w, time) == [type |-> "update", entity |-> e, world |-> w, time |-> time]

UpdatePacket == [type : {"update"}, entity : Entities, world : Worlds, time : Nat]
Packet == [type : {"loadWorld"}, world : Worlds]
            \union [type : {"remove", "setDetails"}, entity : Entities, world : Worlds]
            \union UpdatePacket

SceneTypes == {"authenticate", "loading", "world"}
NoScene    == "none"
Ended      == "ended"   \* the main loop has been left

ClientType ==
  [scene     : SceneTypes \union {Ended},
   queued    : SceneTypes \union {NoScene},   \* _queuedSceneType
   parameter : Worlds \union {NoWorld},       \* _sceneLoadParameters
   toLoad    : Worlds \union {NoWorld},       \* LoadingScene::_worldToLoad
   isLoading : BOOLEAN,                       \* LoadingScene::_isLoadingNewScene
   world     : Worlds \union {NoWorld},       \* WorldScene::_world
   shown     : [Entities -> Nat],             \* last update's time, 0 if not shown
   detailed  : SUBSET Entities,               \* shown with their own appearance
   cached    : SUBSET Entities,               \* _cachedCharacterDetails
   hasCharacter : BOOLEAN]                    \* Player::_character is set

ScenesTypeOK ==
  /\ client \in ClientType
  /\ (client.scene = "world") = (client.world \in Worlds)
  /\ reports \in Nat

Running == client.scene # Ended

ScenesInit ==
  /\ client = [scene |-> "authenticate", queued |-> NoScene, parameter |-> NoWorld,
               toLoad |-> NoWorld, isLoading |-> FALSE, world |-> NoWorld,
               shown |-> [e \in Entities |-> 0], detailed |-> {}, cached |-> {},
               hasCharacter |-> FALSE]
  /\ reports = 0

-----------------------------------------------------------------------------
(***************************************************************************)
(* The scene manager.                                                      *)
(***************************************************************************)

\* AddLoadSceneParameter and QueueLoadScene: the last request wins.
QueueLoadScene(c, type, w) == [c EXCEPT !.parameter = w, !.queued = type]

\* Faulty variant: the parameters are cleared before the scene has read them.
LoadSceneParametersCleared(c, type) ==
  [scene |-> type, queued |-> NoScene, parameter |-> NoWorld,
   toLoad |-> NoWorld, isLoading |-> FALSE, world |-> NoWorld,
   shown |-> [e \in Entities |-> 0], detailed |-> {}, cached |-> {},
   hasCharacter |-> FALSE]

\* LoadScene: nothing of the old scene survives, and the player's character
\* goes with it.  The new scene reads the parameter as it is initialized.
LoadScene(c, type) ==
  [scene |-> type, queued |-> NoScene, parameter |-> NoWorld,
   toLoad |-> IF type = "loading" THEN c.parameter ELSE NoWorld,
   isLoading |-> FALSE,
   world |-> IF type = "world" THEN c.parameter ELSE NoWorld,
   shown |-> [e \in Entities |-> 0], detailed |-> {}, cached |-> {},
   hasCharacter |-> FALSE]

-----------------------------------------------------------------------------
(***************************************************************************)
(* The scenes.  A packet a scene does not expect is dropped.               *)
(***************************************************************************)
ProcessInAuthenticateScene(c, p) ==
  IF p.type = "loadWorld" THEN QueueLoadScene(c, "world", p.world) ELSE c

LoadNewWorld(c, w) == [QueueLoadScene(c, "world", w) EXCEPT !.isLoading = TRUE]

\* Removals and details are dropped here: the loading scene expects neither.
ProcessInLoadingScene(c, p) ==
  IF p.type = "loadWorld" THEN LoadNewWorld(c, p.world) ELSE c

\* Only the first request of this scene's own parameter; a LoadWorld packet
\* that came in the same frame has overtaken it.
TickLoadingScene(c) ==
  IF ~c.isLoading /\ c.toLoad # NoWorld THEN LoadNewWorld(c, c.toLoad) ELSE c

\* World::UpdateEntity with CreateNewEntity: an unknown entity is created, and
\* the first one of this player becomes the character the player controls.
\* Updates that are not newer than the last are ignored.
UpdateEntity(c, e, time) ==
  [c EXCEPT !.shown[e] = IF time > @ THEN time ELSE @,
            !.hasCharacter = @ \/ (e = Own /\ c.shown[e] = 0)]

\* The update may have created the character cached details are waiting for.
ApplyCachedDetails(c, e) ==
  IF e \in c.cached THEN [c EXCEPT !.detailed = @ \union {e}, !.cached = @ \ {e}] ELSE c

RemoveEntity(c, e) == [c EXCEPT !.shown[e] = 0, !.detailed = @ \ {e}]

\* Faulty variant: details of a character that is not shown yet are dropped.
HandleSetDetailsUncached(c, e) ==
  IF c.shown[e] = 0 THEN c ELSE [c EXCEPT !.detailed = @ \union {e}]

HandleSetDetails(c, e) ==
  IF c.shown[e] = 0 THEN [c EXCEPT !.cached = @ \union {e}]
  ELSE [c EXCEPT !.detailed = @ \union {e}]

\* Everything but LoadWorld carries the name of the world it is about.
ProcessInWorldScene(c, p) ==
  IF p.type = "loadWorld" THEN QueueLoadScene(c, "loading", p.world)
  ELSE IF p.world # c.world THEN c
  ELSE CASE p.type = "update"     -> ApplyCachedDetails(UpdateEntity(c, p.entity, p.time), p.entity)
         [] p.type = "remove"     -> RemoveEntity(c, p.entity)
         [] p.type = "setDetails" -> HandleSetDetails(c, p.entity)

ProcessInScene(c, p) ==
  CASE c.scene = "authenticate" -> ProcessInAuthenticateScene(c, p)
    [] c.scene = "loading"      -> ProcessInLoadingScene(c, p)
    [] c.scene = "world"        -> ProcessInWorldScene(c, p)

TickScene(c) == IF c.scene = "loading" THEN TickLoadingScene(c) ELSE c

-----------------------------------------------------------------------------
ProcessPacket(p) ==
  /\ client' = ProcessInScene(client, p)
  /\ UNCHANGED reports

\* The rest of a turn of Game::MainLoop, if it changes anything.  As it is
\* initialized a world scene reports its world to the server.
EndOfFrame ==
  LET ticked == TickScene(client) IN
    /\ ticked.queued # NoScene
    /\ client' = LoadScene(ticked, ticked.queued)
    /\ reports' = IF ticked.queued = "world" THEN reports + 1 ELSE reports

\* World::Load fails when a file of the plots, of the world, of one of its
\* islands or of the background is missing or broken.  The main loop is left
\* then, before the server has been told anything.
WorldFailsToLoad ==
  LET ticked == TickScene(client) IN
    /\ ticked.queued = "world"
    /\ client' = [LoadScene(ticked, "world") EXCEPT !.scene = Ended, !.world = NoWorld]
    /\ UNCHANGED reports
=============================================================================

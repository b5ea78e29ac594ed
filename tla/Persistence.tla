---------------------------- MODULE Persistence ----------------------------
(***************************************************************************)
(* The server's databases (engine/data/data_manager.cpp, shared_library/    *)
(* persistence) and the handlers that read and write them: a player's        *)
(* login, the first UDP datagram that puts the player into a world, the       *)
(* position saved every second, the moves between worlds.  player.db stays    *)
(* over a restart, the server cache lives in memory.                          *)
(*                                                                           *)
(* The SQL files are not part of the repository.  Their commands are modelled *)
(* from the parameters set and the results counted: a row per player, its     *)
(* later columns NULL at first, ids counted from 1, the files that must give  *)
(* an id ending in a SELECT by the user's name.  Everything runs on the       *)
(* server's main thread, so a handler is one action; one command of it may    *)
(* fail, and the server may stop or crash after any of them.                  *)
(***************************************************************************)
EXTENDS Integers, SequencesExt, FiniteSetsExt

CONSTANTS UserNames, Playing, \* the users; bound: those whose client goes on to the UDP test
          StartingWorld, SpawnPoints, \* SpawnPoints[w]: the spawn tile of world w
          Spots,        \* where characters walk to, <<x, y>>
          UnitsPerMetre, \* 10000 in the code; places are given in these units
          Looks,        \* what "random" in a character file may become
          Null,         \* SQL's NULL, and "no character"
          Failing, MaxFailures, \* bounds: the SQL files that may fail, and how many do
          MaxEntities, MaxRestarts \* bounds

ASSUME PersistenceAssumption ==
  /\ StartingWorld \in DOMAIN SpawnPoints /\ UnitsPerMetre \in Nat \ {0}
  /\ MaxEntities \in Nat /\ MaxFailures \in Nat /\ MaxRestarts \in Nat
  /\ SpawnPoints \in [DOMAIN SpawnPoints -> Int \X Int] /\ Spots \subseteq Int \X Int
  /\ Null \notin Looks \cup DOMAIN SpawnPoints \cup (Int \X Int)
  /\ Playing \subseteq UserNames

VARIABLES players,    \* rows of player.db; a player's id is the row's number
          cache,      \* rows of the server cache: looks by entity
          held,       \* held[file][k]: what command k failed with, Null if it is reset
          sessions,   \* sessions[u]: [id, udp, character] of u's connection
          npc,        \* a character without a player: [entity, look] or Null
          nextEntity,
          failed,     \* history: SQL files of which a command has failed
          restarts,   \* history
          lastSeen    \* history: [world, at] of the last save of a playing user

persistenceVars ==
  <<players, cache, held, sessions, npc, nextEntity, failed, restarts, lastSeen>>

-----------------------------------------------------------------------------
(* Statements (statement.cpp): a file is a list of commands. *)

(* The parameters that each command of a file takes. *)
Parameters ==
  [InsertPlayer |-> <<2, 1>>, UpdatePlayerLogin |-> <<1, 1>>,
   UpdatePlayerCurrentWorld |-> <<2>>, UpdatePlayerState |-> <<3>>,
   UpdatePlayerAppearance |-> <<2>>, GetHashedPassword |-> <<1>>, GetPlayerId |-> <<1>>,
   GetLoadDetails |-> <<1>>, GetCurrentWorld |-> <<1>>, GetPos |-> <<1>>,
   GetPlayerAppearance |-> <<1>>, CacheInsert |-> <<2>>, CacheUpdate |-> <<2>>,
   CacheGet |-> <<1>>]

SqlFiles == DOMAIN Parameters

ASSUME FailingAssumption == Failing \subseteq SqlFiles

Prepared == [f \in SqlFiles |-> [k \in DOMAIN Parameters[f] |-> Null]]

Column(value) == IF value = Null THEN << >> ELSE <<value>>

(* The first row of a user, if there is one. *)
RowOf(rows, name) ==
  LET its == {i \in DOMAIN rows : rows[i].name = name} IN IF its = {} THEN << >> ELSE <<Min(its)>>

NewRow(name, password) ==
  [name |-> name, password |-> password, world |-> Null, at |-> Null, look |-> Null]

(* The tables after command k of file f with parameters p ... *)
PlayersAfter(rows, f, k, p) ==
  CASE f = "InsertPlayer" /\ k = 1 -> Append(rows, NewRow(p[1], p[2]))
    [] f = "UpdatePlayerCurrentWorld" -> [rows EXCEPT ![p[1]].world = p[2]]
    [] f = "UpdatePlayerState" -> [rows EXCEPT ![p[1]].at = <<p[2], p[3]>>]
    [] f = "UpdatePlayerAppearance" -> [rows EXCEPT ![p[1]].look = p[2]]
    [] OTHER -> rows

CacheAfter(looks, f, p) ==
  IF f \in {"CacheInsert", "CacheUpdate"} THEN [looks EXCEPT ![p[1]] = p[2]] ELSE looks

(* ... and the columns of the row it gives, if it is one that reads. *)
Selected(rows, looks, f, k, p) ==
  CASE <<f, k>> \in {<<"GetPlayerId", 1>>, <<"InsertPlayer", 2>>, <<"UpdatePlayerLogin", 2>>} ->
         RowOf(rows, p[1])
    [] f = "GetHashedPassword" ->
         [i \in DOMAIN RowOf(rows, p[1]) |-> rows[RowOf(rows, p[1])[i]].password]
    [] f = "GetLoadDetails" -> <<"character_type">>
    [] f = "GetCurrentWorld" -> Column(rows[p[1]].world)
    [] f = "GetPos" -> IF rows[p[1]].at = Null THEN << >> ELSE rows[p[1]].at
    [] f = "GetPlayerAppearance" -> Column(rows[p[1]].look)
    [] f = "CacheGet" -> Column(looks[p[1]])
    [] OTHER -> << >>

(* SetParameterInt and SetParameterString for all parameters of a call: each *)
(* command takes those it has.  One that failed is not reset: SQLite refuses *)
(* to bind to it, which the code logs and ignores, and it runs again with    *)
(* what it was given before.                                                 *)
Bound(r, f, k, values) ==
  IF r.held[f][k] # Null THEN r.held[f][k] ELSE [i \in 1..Parameters[f][k] |-> values[i]]

(* Run, for one command: a failure ends the call, success resets the command *)
(* and replaces the return values.                                           *)
Failed(r, f, k, p) == [r EXCEPT !.ok = FALSE, !.held[f][k] = p, !.failed = @ \cup {f}]

Done(r, f, k, p) ==
  [r EXCEPT !.players = PlayersAfter(@, f, k, p), !.cache = CacheAfter(@, f, p),
            !.held[f][k] = Null, !.results = Selected(r.players, r.cache, f, k, p)]

RunCommand(r, f, k, values) ==
  LET p == Bound(r, f, k, values)
  IN  IF r.fault = <<f, k>> THEN Failed(r, f, k, p) ELSE Done(r, f, k, p)

(* A call of the data manager: it fails too when the values it gets are too *)
(* few or too many.                                                         *)
Counted(r, counts) == [r EXCEPT !.ok = @ /\ Len(r.results) \in counts]

(* The commands of a file, of which none has more than two. *)
Run(r, f, values) ==
  LET first == RunCommand(r, f, 1, values)
  IN  IF first.ok /\ Len(Parameters[f]) = 2 THEN RunCommand(first, f, 2, values) ELSE first

Call(r, f, values, counts) == IF r.ok THEN Counted(Run(r, f, values), counts) ELSE r

(* A handler's state: the databases, whether it goes on, the last results. *)
Begin(fault) ==
  [players |-> players, cache |-> cache, held |-> held, failed |-> failed,
   ok |-> TRUE, results |-> << >>, fault |-> fault]

Commit(r) ==
  players' = r.players /\ cache' = r.cache /\ held' = r.held /\ failed' = r.failed

LoginFiles == {"GetPlayerId", "InsertPlayer", "UpdatePlayerLogin", "GetLoadDetails"}
PlaceFiles == {"UpdatePlayerState", "GetPos", "UpdatePlayerCurrentWorld", "GetCurrentWorld"}
CharacterFiles == {"CacheInsert", "CacheUpdate", "CacheGet"}
EnterFiles == {"UpdatePlayerCurrentWorld", "GetPos", "GetPlayerAppearance",
               "UpdatePlayerAppearance", "CacheInsert", "CacheUpdate"}

(* Which command of these files fails in a handler, <<"", 0>> for none. *)
Faults(files) ==
  {<<"", 0>>} \cup IF Cardinality(failed) = MaxFailures THEN {}
                   ELSE UNION {{<<f, k>> : k \in DOMAIN Parameters[f]} : f \in files \cap Failing}

-----------------------------------------------------------------------------
(* The data manager (data_manager.cpp). *)

InsertPlayer(r, u) == Call(r, "InsertPlayer", <<u, u>>, {1})
UpdatePlayerLogin(r, u) == Call(r, "UpdatePlayerLogin", <<u>>, {1})
UpdatePlayerCurrentWorld(r, id, w) == Call(r, "UpdatePlayerCurrentWorld", <<id, w>>, Nat)

(* Faulty variant: the columns of the position are exchanged. *)
UpdatePlayerStateSwapped(r, id, at) == Call(r, "UpdatePlayerState", <<id, at[2], at[1]>>, Nat)

UpdatePlayerState(r, id, at) == Call(r, "UpdatePlayerState", <<id, at[1], at[2]>>, Nat)
UpdatePlayerAppearanceDetails(r, id, look) == Call(r, "UpdatePlayerAppearance", <<id, look>>, Nat)
GetHashedPassword(r, u) == Call(r, "GetHashedPassword", <<u>>, {0, 1})
GetPlayerIdByUserName(r, u) == Call(r, "GetPlayerId", <<u>>, {0, 1})
GetPlayerLoadDetails(r, id) == Call(r, "GetLoadDetails", <<id>>, {1})
GetCurrentWorldByPlayerId(r, id) == Call(r, "GetCurrentWorld", <<id>>, {0, 1})
GetPosByPlayerId(r, id) == Call(r, "GetPos", <<id>>, {2})
GetPlayerAppearance(r, id) == Call(r, "GetPlayerAppearance", <<id>>, {1})
GetEntityAppearance(r, e) == Call(r, "CacheGet", <<e>>, {1})
UpdateEntityAppearance(r, e, look, insert) ==
  Call(r, IF insert THEN "CacheInsert" ELSE "CacheUpdate", <<e, look>>, Nat)

-----------------------------------------------------------------------------
NoSession == [id |-> 0, udp |-> FALSE, character |-> Null]

PersistenceInit ==
  /\ players = << >> /\ cache = [e \in 1..MaxEntities |-> Null] /\ held = Prepared
  /\ sessions = [u \in UserNames |-> NoSession] /\ npc = Null /\ nextEntity = 1
  /\ failed = {} /\ restarts = 0 /\ lastSeen = [u \in Playing |-> Null]

(* The password is looked up before a login; the client is sent the answer. *)
HandleRequestHashedPassword(u) ==
  /\ sessions[u] = NoSession
  /\ \E fault \in Faults({"GetHashedPassword"}) :
     Commit(GetHashedPassword(Begin(fault), u))
  /\ UNCHANGED <<sessions, npc, nextEntity, restarts, lastSeen>>

(* Faulty variant: every user is a new one. *)
IdAsNew(r, u) == InsertPlayer(r, u)

(* The id of the user's row, which a new user is given first. *)
IdAtLogin(r, u) ==
  LET found == GetPlayerIdByUserName(r, u)
  IN IF found.results = << >> THEN InsertPlayer(found, u) ELSE UpdatePlayerLogin(found, u)

HandlePlayerAuthenticate(u) ==
  /\ sessions[u].id = 0
  /\ \E fault \in Faults(LoginFiles) :
     LET saved == IdAtLogin(Begin(fault), u)
         loaded == GetPlayerLoadDetails(saved, saved.results[1])
     IN /\ Commit(loaded)
        /\ sessions' = IF loaded.ok THEN [sessions EXCEPT ![u].id = saved.results[1]] ELSE sessions
  /\ UNCHANGED <<npc, nextEntity, restarts, lastSeen>>

(* Faulty variant: a look is chosen anew in each world. *)
CreateCharacterAnew(r, entity, id, pick) ==
  LET e == IF entity = 0 THEN nextEntity ELSE entity
      confirmed == IF id > 0 THEN UpdatePlayerAppearanceDetails(r, id, pick) ELSE r
  IN [store |-> UpdateEntityAppearance(confirmed, e, pick, entity = 0),
      character |-> [entity |-> e, look |-> pick]]

(* A character of a player (id > 0) or of a world's script (id = 0), new for *)
(* entity 0.  A player's look that cannot be read is replaced by one of the   *)
(* character file's, which pick stands for.                                   *)
LookRead(r, entity, id) ==
  CASE id > 0 -> GetPlayerAppearance(r, id)
    [] id = 0 /\ entity # 0 -> GetEntityAppearance(r, entity)
    [] OTHER -> r

CreatedFrom(r, read, entity, id, pick) ==
  LET e == IF entity = 0 THEN nextEntity ELSE entity
      look == IF read.ok /\ (id > 0 \/ entity # 0) THEN read.results[1] ELSE pick
      confirmed == IF id > 0
                   THEN UpdatePlayerAppearanceDetails([read EXCEPT !.ok = r.ok], id, look)
                   ELSE read
  IN [store |-> UpdateEntityAppearance(confirmed, e, look, entity = 0),
      character |-> [entity |-> e, look |-> look]]

CreateCharacter(r, entity, id, pick) == CreatedFrom(r, LookRead(r, entity, id), entity, id, pick)

(* The character stands at the tile, or where it was last saved, in whole metres. *)
Metres(v) == (v \div UnitsPerMetre) * UnitsPerMetre

PlaceRead(r, id, atSpawn) == IF atSpawn THEN r ELSE GetPosByPlayerId(r, id)

CharacterAt(made, w, at) ==
  [store |-> made.store,
   character |-> IF made.store.ok THEN [entity |-> made.character.entity, look |-> made.character.look,
                                        world |-> w, at |-> at]
                 ELSE Null]

EnteredAt(pos, id, w, entity, atSpawn, pick) ==
  CharacterAt(CreateCharacter(pos, entity, id, pick), w,
              IF atSpawn THEN SpawnPoints[w] ELSE <<Metres(pos.results[1]), Metres(pos.results[2])>>)

AddPlayer(r, id, w, entity, atSpawn, pick) ==
  EnteredAt(PlaceRead(UpdatePlayerCurrentWorld(r, id, w), id, atSpawn), id, w, entity, atSpawn, pick)

(* The first datagram from an address brings the player into the world. *)
HandleTestUdp(u, pick) ==
  /\ u \in Playing /\ sessions[u].id # 0 /\ ~sessions[u].udp /\ nextEntity <= MaxEntities
  /\ \E fault \in Faults({"GetCurrentWorld"} \cup EnterFiles) :
     LET id == sessions[u].id
         current == GetCurrentWorldByPlayerId(Begin(fault), id)
         isNew == current.results = << >>
         w == IF isNew THEN StartingWorld ELSE current.results[1]
         added == AddPlayer(current, id, w, 0, isNew, pick)
     IN /\ Commit(IF current.ok THEN added.store ELSE current)
        /\ sessions' = [sessions EXCEPT ![u].udp = TRUE,
                          ![u].character = IF current.ok THEN added.character ELSE Null]
        /\ nextEntity' = nextEntity + 1
  /\ UNCHANGED <<npc, restarts, lastSeen>>

(* A warp: the character leaves its world and the player enters the other at *)
(* its spawn tile.                                                           *)
TransferPlayerToWorld(u, w, pick) ==
  /\ sessions[u].character # Null /\ w # sessions[u].character.world
  /\ \E fault \in Faults(EnterFiles) :
     LET added == AddPlayer(Begin(fault), sessions[u].id, w, sessions[u].character.entity,
                            TRUE, pick)
     IN Commit(added.store) /\ sessions' = [sessions EXCEPT ![u].character = added.character]
  /\ UNCHANGED <<npc, nextEntity, restarts, lastSeen>>

Walk(u, at) ==
  /\ sessions[u].character # Null
  /\ sessions' = [sessions EXCEPT ![u].character.at = at]
  /\ UNCHANGED <<players, cache, held, npc, nextEntity, failed, restarts, lastSeen>>

(* Every second. *)
PersistPlayerState(u) ==
  /\ sessions[u].character # Null
  /\ \E fault \in Faults({"UpdatePlayerState"}) :
     LET c == sessions[u].character
         saved == UpdatePlayerState(Begin(fault), sessions[u].id, c.at)
     IN /\ Commit(saved)
        /\ lastSeen' = [v \in Playing |-> IF saved.ok /\ v = u THEN [world |-> c.world, at |-> c.at]
                                                              ELSE lastSeen[v]]
  /\ UNCHANGED <<sessions, npc, nextEntity, restarts>>

(* The client is gone; nothing is saved. *)
RemovePlayer(u) ==
  /\ sessions[u].id # 0
  /\ sessions' = [sessions EXCEPT ![u] = NoSession]
  /\ UNCHANGED <<players, cache, held, npc, nextEntity, failed, restarts, lastSeen>>

(* A world's script adds a character. *)
AddCharacter(pick) ==
  /\ npc = Null /\ nextEntity <= MaxEntities
  /\ \E fault \in Faults(CharacterFiles) :
     LET made == CreateCharacter(Begin(fault), 0, 0, pick)
     IN Commit(made.store) /\ npc' = IF made.store.ok THEN made.character ELSE Null
  /\ nextEntity' = nextEntity + 1
  /\ UNCHANGED <<sessions, restarts, lastSeen>>

(* A character without a player warps: its look goes through the cache. *)
TransferCharacterToWorld(pick) ==
  /\ npc # Null
  /\ \E fault \in Faults(CharacterFiles) :
     LET saved == UpdateEntityAppearance(Begin(fault), npc.entity, npc.look, FALSE)
         made == CreateCharacter(saved, npc.entity, 0, pick)
     IN /\ Commit(made.store)
        /\ npc' = CASE ~saved.ok -> npc
                    [] saved.ok /\ made.store.ok -> made.character
                    [] OTHER -> Null
  /\ UNCHANGED <<sessions, nextEntity, restarts, lastSeen>>

(* A crash or a stop, and the next start: player.db is opened again, the *)
(* cache is made anew and all statements are prepared.                   *)
Restart ==
  /\ restarts < MaxRestarts /\ restarts' = restarts + 1
  /\ cache' = [e \in 1..MaxEntities |-> Null] /\ held' = Prepared
  /\ sessions' = [u \in UserNames |-> NoSession] /\ npc' = Null /\ nextEntity' = 1
  /\ UNCHANGED <<players, failed, lastSeen>>

PersistenceNext ==
  \/ Restart
  \/ \E pick \in Looks : AddCharacter(pick) \/ TransferCharacterToWorld(pick)
  \/ \E u \in UserNames :
       \/ HandleRequestHashedPassword(u) \/ HandlePlayerAuthenticate(u)
       \/ PersistPlayerState(u) \/ RemovePlayer(u) \/ \E at \in Spots : Walk(u, at)
       \/ \E pick \in Looks :
            \/ HandleTestUdp(u, pick)
            \/ \E w \in DOMAIN SpawnPoints : TransferPlayerToWorld(u, w, pick)

PersistenceSpec == PersistenceInit /\ [][PersistenceNext]_persistenceVars

-----------------------------------------------------------------------------
(* However often users log in, and whatever else fails or crashes in between,  *)
(* no user has two rows in player.db, as long as no look-up of an id failed;    *)
(* and a session is given the row of its own user, as long as no command that   *)
(* gives an id failed (a failed one answers its next caller for the former).    *)
SessionsOwnTheirRows ==
  /\ "GetPlayerId" \notin failed =>
       \A i, j \in DOMAIN players : players[i].name = players[j].name => i = j
  /\ failed \cap {"GetPlayerId", "InsertPlayer", "UpdatePlayerLogin"} = {} =>
       \A u \in UserNames : sessions[u].id # 0 => players[sessions[u].id].name = u

(* A player who comes back, over crashes too, stands where the last save of   *)
(* that world saw the character, at most a metre off in each direction.       *)
Enters(u) ==
  /\ sessions[u].character = Null /\ sessions'[u].character # Null
  /\ lastSeen[u] # Null

PositionSurvives ==
  [][failed' \cap (LoginFiles \cup PlaceFiles) = {} =>
       \A u \in Playing :
         Enters(u) /\ sessions'[u].character.world = lastSeen[u].world =>
           \A i \in {1, 2} :
             lastSeen[u].at[i] - sessions'[u].character.at[i] \in 0..UnitsPerMetre-1
    ]_persistenceVars

(* What a player looks like is chosen once: the saved look stays over logins,  *)
(* warps and crashes, unless it could not be read; and a character without a   *)
(* player keeps its look from world to world.                                  *)
AppearanceIsKept ==
  [][/\ failed' \cap {"GetPlayerAppearance"} = {} =>
          \A i \in DOMAIN players : players[i].look \in {Null, players'[i].look}
     /\ failed' \cap {"CacheGet", "CacheInsert", "CacheUpdate"} = {} =>
          (npc # Null /\ npc' # Null => npc' = npc)]_persistenceVars
=============================================================================

--------------------------- MODULE ServerSessions ---------------------------
(***************************************************************************)
(* The server's main thread between the connection layer and the worlds:   *)
(* the two player lists of Server, login, the UDP test that brings a       *)
(* player into a world, world membership, transfer by warp, disconnection. *)
(*                                                                         *)
(* It composes with ClientFeed, the promise of the connection layer: each  *)
(* handler is one handing-over step of the feed.  A Player object is named *)
(* by its client, since OnClientAdd makes exactly one per connection.      *)
(*                                                                         *)
(* Handlers that change several objects in turn are written as operators   *)
(* on the record `game', so that AddPlayer after RemovePlayer is literally *)
(* their composition.                                                      *)
(***************************************************************************)
EXTENDS Naturals, Sequences, FiniteSets, SequencesExt

CONSTANTS Clients,        \* connections, hence Player objects
          MaxPackets,     \* bound: TCP packets one client sends
          Accounts,       \* user names
          AccountOf,      \* the account each client logs in with
          MaxId,          \* bound: player ids, enough for all clients and accounts
          SavedId,        \* player id of each account in the database, 0 if new
          Worlds,
          StartingWorld,
          Faults,         \* may a query, a data file or a map property fail?
          MaxRebinds,     \* bound: changes of a client's UDP address
          MaxWarps,       \* bound: warps of all players together
          MaxEntities,    \* bound: characters, in UDP tests of players that have one
          Orderly,        \* do clients take turns?  see Connect
          NoWorld,        \* the null world pointer
          Dangling        \* whatever a dereferenced invalid iterator yields

ASSUME SessionsAssumption ==
  /\ MaxPackets \in Nat /\ MaxRebinds \in Nat /\ MaxWarps \in Nat /\ MaxEntities \in Nat
  /\ AccountOf \in [Clients -> Accounts]
  /\ IsFiniteSet(Clients) /\ IsFiniteSet(Accounts)
  /\ MaxId \in Nat /\ MaxId >= Cardinality(Clients)
  /\ SavedId \in [Accounts -> 0..MaxId]
  /\ \A a \in Accounts : SavedId[a] + Cardinality({b \in Accounts : SavedId[b] = 0}) <= MaxId
  /\ StartingWorld \in Worlds
  /\ NoWorld \notin Worlds
  /\ Dangling \notin Clients
  /\ Orderly \in BOOLEAN /\ Faults \in BOOLEAN

VARIABLES
  phase, status, handed,   \* see ClientFeed
  connected,               \* clients that have a TCP connection
  written,                 \* TCP messages each client has written
  port,                    \* the UDP port each client currently sends from
  datagrams,               \* UDP datagrams sent, deliverable at any time
  idCount,                 \* Player::GlobalPlayerIdCount
  savedId,                 \* the player table: account -> player id
  unauthenticated,         \* _unauthenticatedPlayers
  players,                 \* _players
  game,                    \* players' and worlds' objects, see GameType
  nullDereferenced,        \* the process went through a null pointer
  warps                    \* counts MaxWarps

feedVars   == <<phase, status, handed>>
clientVars == <<connected, written, port, datagrams>>
listVars   == <<idCount, savedId, unauthenticated, players>>
vars == <<feedVars, clientVars, listVars, game, nullDereferenced, warps>>

Feed == INSTANCE ClientFeed

NoAddress == <<>>
PlayerIds == 0..MaxId
Addresses == Clients \X (0..MaxRebinds) \union {NoAddress}
TcpMessages == {"requestHash", "auth", "loaded"}
Notice == {<<"hash">>} \union ({"details"} \X PlayerIds)
                        \union ({"load", "char"} \X Worlds)

\* The fields of Player a handler changes.  `ready' is that SetLoadDetails ran.
PlayerType == [id : PlayerIds, addr : Addresses, ready : BOOLEAN,
               world : Worlds \union {NoWorld}, char : Nat]

GameType ==
  [player   : [Clients -> PlayerType],
   listed   : [Worlds -> [PlayerIds -> Nat]],      \* how often in World::_players
   entities : [Worlds -> SUBSET [id : Nat, owner : PlayerIds]],
   nextEntity : Nat,                               \* Entity's id counter
   saved    : [PlayerIds -> Worlds \union {NoWorld}],  \* current_world column
   sent     : [Clients -> Seq(Notice)]]            \* TCP, to each client

TypeOK ==
  /\ Feed!FeedTypeOK
  /\ connected \subseteq Clients
  /\ written \in [Clients -> Seq(TcpMessages)]
  /\ port \in [Clients -> 0..MaxRebinds]
  /\ datagrams \subseteq [id : PlayerIds, addr : Addresses]
  /\ idCount \in PlayerIds
  /\ savedId \in [Accounts -> PlayerIds]
  /\ unauthenticated \in Seq(Clients)
  /\ players \in Seq(Clients \union {Dangling})
  /\ game \in GameType
  /\ nullDereferenced \in BOOLEAN
  /\ warps \in 0..MaxWarps

Init ==
  /\ Feed!FeedInit
  /\ connected = {}
  /\ written = [c \in Clients |-> <<>>]
  /\ port = [c \in Clients |-> 0]
  /\ datagrams = {}
  /\ idCount = 0
  /\ savedId = SavedId
  /\ unauthenticated = <<>>
  /\ players = <<>>
  /\ game = [player |-> [c \in Clients |-> [id |-> 0, addr |-> NoAddress,
                           ready |-> FALSE, world |-> NoWorld, char |-> 0]],
             listed |-> [w \in Worlds |-> [i \in PlayerIds |-> 0]],
             entities |-> [w \in Worlds |-> {}],
             nextEntity |-> 1,
             saved |-> [i \in PlayerIds |-> NoWorld],
             sent |-> [c \in Clients |-> <<>>]]
  /\ nullDereferenced = FALSE
  /\ warps = 0

-----------------------------------------------------------------------------
(***************************************************************************)
(* The clients.  Their protocol: request the hashed password, then         *)
(* authenticate, then repeat the UDP test until a world is to be loaded.   *)
(***************************************************************************)
Told(c, kind) == \E i \in DOMAIN game.sent[c] : game.sent[c][i][1] = kind

NoticesOf(c, kind) == Cardinality({i \in DOMAIN game.sent[c] : game.sent[c][i][1] = kind})
Written(c, m) == Cardinality({i \in DOMAIN written[c] : written[c][i] = m})

\* The id a client puts in its datagrams: the last one it was told.
ToldId(c) ==
  LET s == game.sent[c] IN s[Max({i \in DOMAIN s : s[i][1] = "details"})][2]

LoginUnderWay(c) == c \in connected /\ status[c] # "gone" /\ ~Told(c, "details")

InUse(a) == \E d \in connected : AccountOf[d] = a /\ status[d] # "gone"

\* Orderly clients are kind: nobody connects while another client is logging in
\* or still has the account, or while datagrams of a past session are about;
\* and nobody presses the login button twice.
Connect(c) ==
  /\ c \notin connected
  /\ Orderly => ~InUse(AccountOf[c]) /\ \A d \in Clients : ~LoginUnderWay(d)
  /\ connected' = connected \union {c}
  /\ datagrams' = IF Orderly THEN {d \in datagrams : status[d.addr[1]] # "gone"}
                  ELSE datagrams
  /\ UNCHANGED <<written, port>>

\* The login button requests the hash, each hash received is answered, and
\* each world loaded is reported.
WriteTcp(c, m) ==
  /\ c \in connected
  /\ status[c] \in {"unknown", "live"}
  /\ Len(written[c]) < MaxPackets
  /\ CASE m = "requestHash" -> ~Told(c, "load") /\ (Orderly => ~Contains(written[c], m))
       [] m = "auth"        -> Written(c, m) < NoticesOf(c, "hash")
       [] m = "loaded"      -> Written(c, m) < NoticesOf(c, "load")
  /\ written' = [written EXCEPT ![c] = Append(@, m)]
  /\ UNCHANGED <<connected, port, datagrams>>

\* A datagram stays deliverable: it may be lost, delayed, duplicated, overtaken.
WriteUdpTest(c) ==
  /\ status[c] = "live"
  /\ Told(c, "details")
  /\ ~Told(c, "load")
  /\ datagrams' = datagrams \union {[id |-> ToldId(c), addr |-> <<c, port[c]>>]}
  /\ UNCHANGED <<connected, written, port>>

\* The client's address as the server sees it changes (a new NAT mapping).
Rebind(c) ==
  /\ c \in connected
  /\ port[c] < MaxRebinds
  /\ port' = [port EXCEPT ![c] = @ + 1]
  /\ UNCHANGED <<connected, written, datagrams>>

ClientStep ==
  /\ \E c \in Clients : \/ Connect(c) \/ WriteUdpTest(c) \/ Rebind(c)
                        \/ \E m \in TcpMessages : WriteTcp(c, m)
  /\ UNCHANGED <<feedVars, listVars, game, nullDereferenced, warps>>

-----------------------------------------------------------------------------
(***************************************************************************)
(* Finding players.                                                        *)
(***************************************************************************)

\* Position of the first of these players, 0 when none is in the list.
FirstOf(list, these) ==
  LET at == {i \in DOMAIN list : list[i] \in these} IN IF at = {} THEN 0 ELSE Min(at)

WithId(g, id) == {p \in Clients : g.player[p].id = id}

\* Once a dangling pointer is in _players the next scan of it is undefined.
Crashed == nullDereferenced \/ Contains(players, Dangling)

\* Faulty variant: only the authenticated players are searched.
FindPlayerAuthenticated(these) ==
  LET i == FirstOf(players, these) IN IF i > 0 THEN {players[i]} ELSE {}

\* FindPlayer, by network client or by id: {} is the null pointer.
FindPlayer(these) ==
  LET i == FirstOf(players, these)
      j == FirstOf(unauthenticated, these)
  IN  IF i > 0 THEN {players[i]} ELSE IF j > 0 THEN {unauthenticated[j]} ELSE {}

\* GetPlayerById looks among the authenticated players only.
GetPlayerById(g, id) ==
  LET i == FirstOf(players, WithId(g, id)) IN IF i > 0 THEN {players[i]} ELSE {}

-----------------------------------------------------------------------------
(***************************************************************************)
(* Worlds: operators from game to game.                                    *)
(***************************************************************************)
SendTo(g, c, notice) == [g EXCEPT !.sent[c] = Append(@, notice)]

ListedIds(g, w) == {id \in PlayerIds : g.listed[w][id] > 0}

\* The character details sent to every player of world w: those listed whose
\* own world is still w.  Repeats of the same notice in a row are collapsed.
SendCharacterDetails(g, w) ==
  LET recipients == {p \in UNION {GetPlayerById(g, id) : id \in ListedIds(g, w)} :
                       g.player[p].world = w}
      notice     == <<"char", w>>
  IN [g EXCEPT !.sent =
        [c \in Clients |->
           IF c \in recipients /\ (@[c] = <<>> \/ Last(@[c]) # notice)
             THEN Append(@[c], notice) ELSE @[c]]]

\* How far World::AddPlayer gets: the current_world query fails, the character
\* cannot be created (no position, no action tiles, no type file), or all is well.
Outcomes == IF Faults THEN {"unsaved", "uncreated", "created"} ELSE {"created"}

\* Faulty variant: the player is listed before its character is announced.
PlaceCharacterListedFirst(g, p, w, entity) ==
  LET id == g.player[p].id
  IN SendCharacterDetails(
       [g EXCEPT !.entities[w] = @ \union {[id |-> entity, owner |-> id]},
                 !.nextEntity = @ + 1,
                 !.player[p].char = entity,
                 !.listed[w][id] = @ + 1], w)

\* World::AddCharacter, then SetCharacter and the push_back into _players: the
\* new player is not yet listed when the details of its character go out.
PlaceCharacter(g, p, w, entity) ==
  LET id     == g.player[p].id
      placed == [g EXCEPT !.entities[w] = @ \union {[id |-> entity, owner |-> id]},
                          !.nextEntity = @ + 1]
  IN [SendCharacterDetails(placed, w) EXCEPT !.player[p].char = entity,
                                             !.listed[w][id] = @ + 1]

\* World::AddPlayer.  It claims the player and records the world before it
\* knows whether the character can be created.
AddPlayer(g, p, w, entityId, outcome) ==
  LET entity  == IF entityId > 0 THEN entityId ELSE g.nextEntity
      claimed == [g EXCEPT !.player[p].world = w]
      saved   == [claimed EXCEPT !.saved[g.player[p].id] = w]
  IN CASE outcome = "unsaved"   -> claimed
       [] outcome = "uncreated" -> saved
       [] outcome = "created"   -> SendTo(PlaceCharacter(saved, p, w, entity), p, <<"load", w>>)

\* Faulty variant: the world keeps the id of a player that left.
RemovePlayerStaysListed(g, w, id) ==
  LET found == GetPlayerById(g, id)
      p     == CHOOSE q \in found : TRUE
  IN IF found = {} THEN g
     ELSE [g EXCEPT !.entities[w] = {e \in @ : e.id # g.player[p].char},
                    !.player[p] = [@ EXCEPT !.world = NoWorld, !.char = 0]]

\* World::RemovePlayer, including RemoveWorldEntity of the character.
RemovePlayer(g, w, id) ==
  LET Removed(p) ==
        [g EXCEPT !.listed[w][id] = 0,
                  !.entities[w] = {e \in @ : e.id # g.player[p].char},
                  !.player[p] = [@ EXCEPT !.world = NoWorld, !.char = 0]]
      found == GetPlayerById(g, id)
  IN IF found = {} THEN g ELSE Removed(CHOOSE p \in found : TRUE)

\* Faulty variant: the character is made anew in the destination.
TransferPlayerAsNew(g, w, id, entityId, destination, outcome) ==
  LET left  == RemovePlayer(g, w, id)
      found == GetPlayerById(left, id)
  IN IF found = {} \/ destination = NoWorld THEN left
     ELSE AddPlayer(left, CHOOSE p \in found : TRUE, destination, 0, outcome)

\* World::TransferPlayerToWorld and Server::AddPlayerToWorld.  NoWorld stands
\* for a destination name that no world has.
TransferPlayerToWorld(g, w, id, entityId, destination, outcome) ==
  LET left  == RemovePlayer(g, w, id)
      found == GetPlayerById(left, id)
  IN IF found = {} \/ destination = NoWorld THEN left
     ELSE AddPlayer(left, CHOOSE p \in found : TRUE, destination, entityId, outcome)

-----------------------------------------------------------------------------
(***************************************************************************)
(* The Server's handlers, one per handing-over step of the feed.           *)
(***************************************************************************)
OnClientAdd(c) ==
  /\ c \in connected
  /\ Feed!HandAdd(c)
  /\ idCount' = idCount + 1
  /\ game' = [game EXCEPT !.player[c].id = idCount + 1]
  /\ unauthenticated' = Append(unauthenticated, c)
  /\ UNCHANGED <<clientVars, savedId, players, nullDereferenced, warps>>

\* Faulty variant: the player is erased before its world looks it up by id.
OnClientRemoveErasedFirst(c) ==
  /\ ~Crashed
  /\ Feed!HandRemove(c)
  /\ players' = SelectSeq(players, LAMBDA p : p # c)
  /\ UNCHANGED <<clientVars, idCount, savedId, unauthenticated, game, nullDereferenced, warps>>

\* Only _players is searched.
OnClientRemove(c) ==
  LET i == FirstOf(players, {c}) IN
    /\ ~Crashed
    /\ Feed!HandRemove(c)
    /\ IF i = 0 THEN UNCHANGED <<players, game>>
       ELSE /\ players' = RemoveAt(players, i)
            /\ game' = IF game.player[c].world = NoWorld THEN game
                       ELSE RemovePlayer(game, game.player[c].world, game.player[c].id)
    /\ UNCHANGED <<clientVars, idCount, savedId, unauthenticated, nullDereferenced, warps>>

HandleRequestHashedPassword(p) ==
  /\ \/ game' = SendTo(game, p, <<"hash">>)
     \/ Faults /\ UNCHANGED game
  /\ UNCHANGED <<listVars, nullDereferenced>>

\* Faulty variant: an account is inserted although the table has it.
IdOfAccountAlwaysInserted(a) ==
  1 + CHOOSE m \in PlayerIds : /\ m = 0 \/ \E b \in Accounts : savedId[b] = m
                               /\ \A b \in Accounts : savedId[b] <= m

\* InsertPlayer takes the next id of the table, UpdatePlayerLogin changes
\* nothing modelled here.
IdOfAccount(a) ==
  IF savedId[a] > 0 THEN savedId[a]
  ELSE 1 + CHOOSE m \in PlayerIds :
             /\ m = 0 \/ \E b \in Accounts : savedId[b] = m
             /\ \A b \in Accounts : savedId[b] <= m

\* _players.push_back( *playerIt ) after _unauthenticatedPlayers.erase(playerIt).
\* playerIt then names the element that slid into the gap; at the end of the
\* vector it names a destroyed pointer, whose bits still lead to the object as
\* long as that is alive, which it is when it is the player being handled.
PushedAfterErase(list, i, handling) ==
  IF i > 0 /\ i < Len(list) THEN list[i + 1]
  ELSE IF i > 0 /\ list[i] = handling THEN handling
  ELSE Dangling

\* Faulty variant: the player is not taken off the unauthenticated list.
HandlePlayerAuthenticateUnerased(p) ==
  LET id == IdOfAccount(AccountOf[p])
  IN /\ savedId' = [savedId EXCEPT ![AccountOf[p]] = id]
     /\ game' = SendTo([game EXCEPT !.player[p] = [@ EXCEPT !.ready = TRUE, !.id = id]],
                        p, <<"details", id>>)
     /\ players' = Append(players, p)
     /\ UNCHANGED <<idCount, unauthenticated, nullDereferenced>>

HandlePlayerAuthenticate(p) ==
  LET id == IdOfAccount(AccountOf[p])
      g  == [game EXCEPT !.player[p] = [@ EXCEPT !.ready = TRUE, !.id = id]]
      i  == FirstOf(unauthenticated, WithId(g, id))
  IN /\ savedId' = [savedId EXCEPT ![AccountOf[p]] = id]
     /\ game' = SendTo(g, p, <<"details", id>>)
     /\ unauthenticated' = IF i = 0 THEN unauthenticated ELSE RemoveAt(unauthenticated, i)
     /\ players' = Append(players, PushedAfterErase(unauthenticated, i, p))
     /\ UNCHANGED <<idCount, nullDereferenced>>

\* A query fails: before the account is inserted, or after.
AuthenticateFails(p) ==
  /\ Faults
  /\ \/ UNCHANGED savedId
     \/ savedId' = [savedId EXCEPT ![AccountOf[p]] = IdOfAccount(AccountOf[p])]
  /\ UNCHANGED <<idCount, unauthenticated, players, game, nullDereferenced>>

\* HandleClientServerWorldLoadedPacket: everyone in the world is told of every
\* character.  Without a world the packet is ignored; with a world but no
\* character the null character is dereferenced.
HandleWorldLoaded(p) ==
  LET w == game.player[p].world IN
    /\ game' = IF w = NoWorld THEN game ELSE SendCharacterDetails(game, w)
    /\ nullDereferenced' = (w # NoWorld /\ game.player[p].char = 0)
    /\ UNCHANGED listVars

\* OnReceivePacket for the next TCP packet of c; no player, no effect.
OnReceiveTcp(c) ==
  LET found == FindPlayer({c}) IN
    /\ ~Crashed
    /\ handed[c] < Len(written[c])
    /\ Feed!HandPacket(c)
    /\ LET m == written[c][handed[c] + 1] IN
         \/ found = {} /\ UNCHANGED <<listVars, game, nullDereferenced>>
         \/ \E p \in found :
              CASE m = "requestHash" -> HandleRequestHashedPassword(p)
                [] m = "auth"        -> HandlePlayerAuthenticate(p) \/ AuthenticateFails(p)
                [] m = "loaded"      -> HandleWorldLoaded(p)
    /\ UNCHANGED <<clientVars, warps>>

\* HandleClientServerTestUdpPacket: the address is taken before anything that
\* may fail is tried.
OnReceiveUdpTest(d) ==
  /\ ~Crashed
  /\ phase = "packets"
  /\ \E p \in FindPlayer(WithId(game, d.id)) :
       /\ game.player[p].addr # d.addr
       /\ game.player[p].char = 0 \/ game.nextEntity <= MaxEntities
       /\ LET g    == [game EXCEPT !.player[p].addr = d.addr]
              last == game.saved[game.player[p].id]
              w    == IF last = NoWorld THEN StartingWorld ELSE last
          IN \/ \E outcome \in Outcomes : game' = AddPlayer(g, p, w, 0, outcome)
             \/ Faults /\ game' = g
  /\ UNCHANGED <<feedVars, clientVars, listVars, nullDereferenced, warps>>

Destinations == IF Faults THEN Worlds \union {NoWorld} ELSE Worlds

\* Warp::Run for a player's character in world w, from World::Tick.  The main
\* thread is outside ClientConnectionManager::Tick then.
WarpPlayer(w, entity, destination) ==
  /\ ~Crashed
  /\ phase = "idle"
  /\ warps < MaxWarps
  /\ warps' = warps + 1
  /\ destination # w
  /\ \E outcome \in Outcomes :
       game' = TransferPlayerToWorld(game, w, entity.owner, entity.id, destination, outcome)
  /\ UNCHANGED <<feedVars, clientVars, listVars, nullDereferenced>>

Batch ==
  /\ Feed!BeginBatch \/ Feed!BeginRemoves \/ Feed!BeginPackets \/ Feed!EndBatch
  /\ UNCHANGED <<clientVars, listVars, game, nullDereferenced, warps>>

Next ==
  \/ ClientStep
  \/ Batch
  \/ \E c \in Clients : OnClientAdd(c) \/ OnClientRemove(c) \/ OnReceiveTcp(c)
  \/ \E d \in datagrams : OnReceiveUdpTest(d)
  \/ \E w \in Worlds, v \in Destinations : \E e \in game.entities[w] : WarpPlayer(w, e, v)

Spec == Init /\ [][Next]_vars

\* The worker and the main thread run (ClientConnections hands over whatever
\* it reads), a client goes on with its login, and a datagram repeated for
\* ever gets through at last.
Fairness ==
  /\ WF_vars(Batch)
  /\ \A c \in Clients :
       /\ SF_vars(OnClientAdd(c))
       /\ SF_vars(OnReceiveTcp(c))
       /\ WF_vars(WriteUdpTest(c) /\ ClientStep)
       /\ WF_vars((\E m \in TcpMessages : WriteTcp(c, m)) /\ ClientStep)
  /\ \A c \in Clients : SF_vars(\E d \in datagrams : d.addr[1] = c /\ OnReceiveUdpTest(d))

FairSpec == Spec /\ Fairness

-----------------------------------------------------------------------------
(***************************************************************************)
(* Properties.                                                             *)
(***************************************************************************)
InWorld(w) == {c \in Clients : game.player[c].world = w /\ game.player[c].char > 0}

\* A connected client that has logged in has its Player in _players, exactly
\* once, and no longer among the unauthenticated; nothing dangles.
SessionTable ==
  /\ ~Contains(players, Dangling)
  /\ \A c \in Clients : status[c] = "live" /\ game.player[c].ready =>
       /\ Cardinality({i \in DOMAIN players : players[i] = c}) = 1
       /\ ~Contains(unauthenticated, c)

\* A world's player list, its characters and the players' own records agree:
\* each player placed in a world is listed there once, with one character.
WorldMembership ==
  \A w \in Worlds :
    /\ \A id \in PlayerIds :
         game.listed[w][id] = IF \E c \in InWorld(w) : game.player[c].id = id THEN 1 ELSE 0
    /\ game.entities[w] = {[id |-> game.player[c].char, owner |-> game.player[c].id] :
                             c \in InWorld(w)}

\* The server forgets a character in the handler that removes its client: each
\* character and each listed id belongs to a client that is still connected.
NoCharacterOutlivesClient ==
  LET liveIds == {game.player[c].id : c \in {d \in Clients : status[d] = "live"}} IN
    \A w \in Worlds :
      /\ ListedIds(game, w) \subseteq liveIds
      /\ \A e \in game.entities[w] : e.owner \in liveIds

\* "we need to start the world load on the client before they receive the
\* character details packet": on each client's TCP stream, details of the
\* characters of a world come only while that world is the last one to load.
LoadWorldFirst ==
  \A c \in Clients : \A i \in DOMAIN game.sent[c] :
    game.sent[c][i][1] = "char" =>
      \E l \in 1..i : /\ game.sent[c][l] = <<"load", game.sent[c][i][2]>>
                     /\ \A k \in l+1..i : game.sent[c][k][1] # "load"

\* A warp takes the character along: its entity id never changes while the
\* player has one, or between the world it leaves and the one it enters.
EntityIdIsKept ==
  [][\A c \in Clients : game.player[c].char > 0 /\ game'.player[c].char > 0
        => game'.player[c].char = game.player[c].char]_vars

\* Every login ends in a world, or with the client's removal.
LoginReachesWorld ==
  \A c \in Clients :
    (c \in connected) ~> (game.player[c].char > 0 \/ status[c] \in {"draining", "gone"})

\* What is left of WorldMembership when a client's UDP address changes: a
\* player id listed in a world has a character there.
ListedHasCharacter ==
  \A w \in Worlds : \A id \in ListedIds(game, w) :
    \E e \in game.entities[w] : e.owner = id

\* "TCP packets use the network client to identity sender": a connected client
\* is found by its network client.
SenderIsIdentified ==
  \A c \in Clients : status[c] = "live" =>
    Contains(players, c) \/ Contains(unauthenticated, c)
=============================================================================

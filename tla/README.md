# projectfarm in TLA+

projectfarm is a multiplayer farming game in C++: a server that owns the worlds
and a client that shows one of them. This directory holds TLA+ models of the
program's own logic — the threads and messages of both sides, the packets'
bytes, the maps, the databases, the movement of characters, the user interface
— the TLC configurations that check them on small instances, and TLAPS proofs,
for instances of any size, about nine parts of it: the connection layer, sessions and
worlds, the packet sender, replication, movement, packets, islands, the databases, and
the user interface.

Contents: [1 The system](#1-the-system) ·
[2 The modules](#2-the-modules-and-the-code) ·
[3 The runs](#3-the-runs) ·
[4 Fairness](#4-fairness) ·
[5 Disagreements found](#5-disagreements-found) ·
[6 The proofs](#6-the-proofs) ·
[7 Not modelled](#7-what-is-not-modelled) ·
[8 Plan](#8-plan)

How to run, in this directory:

    tlc -workers 2 -config MCReplication.cfg MCReplication
    tlapm ClientConnections_proofs.tla

`ServerSessions_proofs` and `Replication_proofs` take tlapm some minutes each, the
others less.

## 1 The system

Paths are relative to `src/src/`. "→" names the direction of calls or messages.

### The server process

| component | state | operations | talks to |
|---|---|---|---|
| **Connection layer** `server_main/server/client_connection_manager{,_worker}.cpp`, `client.cpp` | the worker's client list, socket set and list of clients to remove; three vectors and a flag behind a mutex | worker: accept, read TCP and UDP, remove, shut down; main thread: `Tick`, `Shutdown` | → Server (three callbacks, on the main thread) |
| **Sessions** `server_main/server/server.cpp`, `engine/player.h` | `_unauthenticatedPlayers`, `_players`, each Player's ids, address, world, character | `OnClientAdd`, `OnClientRemove`, `OnReceivePacket` and its handlers: password hash, authentication, UDP test; `AddPlayerToWorld` | → worlds, database, packet sender |
| **Worlds and entities** `server_main/engine/world/world.cpp`, `engine/entities/` | per world: listed player ids, entities, islands, pending tile actions, a timer | add, remove and transfer players and characters; tick and broadcast entities; handle world-loaded, entity-update and chat packets | → packet sender, database, Server |
| **Islands** `server_main/engine/world/island.cpp` | grids of plot indexes, action tiles | load from binary or JSON, look up the plot at a position | → worlds |
| **Action tiles** `engine/world/action_tile_actions/warp.cpp` | none | `Warp::Run`: inside a world, or to another one | → worlds |
| **Packet sender** `shared_library/networking/packet_sender{,_worker}.cpp` | queue, countdown list, run flag, lower-activity flag, mutex, condition variable | `AddPacketToSend`, the worker's loop, `StopThread` | → sockets |
| **Database** `server_main/engine/data/data_manager.cpp`, `shared_library/persistence/` | prepared statements; SQLite tables of players, and of looks in a cache in memory | lookups, inserts and updates, each of which can fail | |
| **Scripting** `shared_library/scripting/`, `server_main/engine/scripting/` | a V8 isolate and the scripts' own state | behaviour of characters without a player | → characters |

### The client process

| component | state | operations | talks to |
|---|---|---|---|
| **Network thread** `client_main/network_client/` | sockets | read a packet, pass it on | → scene manager's queue |
| **Scene manager and scenes** `client_main/scenes/` | packet queue, queued scene and parameters, the current scene (login, loading, world) | hand out packets, tick, change scene at the end of a frame | ↔ server |
| **World and entities** `client_main/engine/world/world.cpp`, `engine/entities/character.cpp` | the shown entities, last update time and appearance of each, the player's own character | update, create and remove entities; move the own character | → broadcast of its state |
| **Islands and tile maps** `engine/world/island.cpp`, `graphics/tile_map.cpp` | layers of tiles, animated tiles, a table from tiles to plots | load, tick, find the plot at a position, draw what the camera shows | → world |
| **Game loop and actions** `client_main/engine/game.cpp`, `action_manager.cpp`, `keyboard_input.cpp` | the lower activity state, keys held, registered actionable entities | a frame: events, tick, actions, render, change of scene | → scenes, entities |
| **User interface** `client_main/graphics/ui/` | tree of controls, focus, hover, drag | mouse, layout, visibility, calls of scripts | → scripting, key mappings |
| **Text to controls** `shared_library/css/`, `markdown/` | none | tokens, styles, controls | |
| **Rendering and resource pools** `client_main/graphics/` | pools with reference counts, render layers | load, share, free | OpenGL |

### Shared

| component | state | operations |
|---|---|---|
| **Packets and streams** `shared_library/networking/packets/`, `packet_factory.cpp`, `utils/stream.cpp` | none | size, bytes and parsing of 15 packet classes |
| **State machine** `shared_library/state/` | a stack of states with cancellation marks | push, cancel, read |
| **Timers** `shared_library/time/` | a stopwatch with callbacks, frame timer | tick, reset |
| **Engine start-up** `shared_library/game/`, `concurrency/`, `application_main/` | a running flag, a thread per world | a third program, the beginning of a rewrite |
| **Pure code** `shared_library/math/`, `graphics/colors/`, `api/config/`, `crypto/` | none | conversions, parsing |

### How they interact

A client connects over TCP and is put into the server's connection layer by a
worker thread. The server's main loop calls `ClientConnectionManager::Tick`,
which hands over, in one batch, the clients added, then those removed, then
the packets, and then ticks the worlds. A login takes five messages: the
client asks for the salt of a password hash, authenticates, is given its player
id, repeats a UDP test packet until the server has seen its address, and is told
the world to load. The server adds a character to that world; the client loads
the world and reports it; the server answers with the details of every
character and forces its next broadcast of the player's own character. From then
on entity states travel over UDP in both directions, every 50 ms, and
everything that must not get lost over TCP, through the packet sender's thread.
Both sides load the same island files and decide by them where a character may
go; the server saves each player's position every second.

### What is hard, and what makes each part correct

* **Connection layer**: two threads and the network. `Tick` looks at a flag
  without the mutex. Correct if the server sees each client added once, its
  packets in order, one removal, and nothing afterwards — and if a connection
  that ended leaves nothing behind.
* **Sessions**: the batch order (removals before packets), identifiers from two
  sources, repeated, lost and late UDP tests, queries and worlds that fail
  half-way. Correct if the two lists, the worlds' lists and the characters agree,
  and a login ends in a world.
* **Packet sender**: lost wakeups, delays, sockets closed by another thread.
  Correct if packets keep their order, none is slept over, and the join returns.
* **Packets**: the size, the writing and the reading of a class are three
  hand-written lists; a stream has no other boundary than the announced size. Correct if what is
  read is what was written, for every class.
* **Replication**: packets are interpreted by whichever scene the client has
  reached; updates are lost and overtaken; entities leave and return. Correct if
  the client never goes on showing what is not there, knows the appearance of
  what it shows, controls a character that is shown, and ends in the world its
  player is in.
* **Movement**: two copies of a character's position and states, each side
  applying the other's delayed updates, and a stack of states that is never
  cleaned except at its front. Correct if the keys decide, and both sides agree
  once they are let go.
* **Islands**: one file, two representations, and a way back from pictures
  to plots. Correct if both sides forbid the same and the player sees it.
* **Database**: statements that a failure leaves unreset, and a row written
  in two places. Correct if a session never works with another user's row, and a player
  comes back to where it was last saved.
* **User interface**: cached visibility, unsigned positions that wrap, a drag
  that outlives everything, a key mapping pushed and popped by clicks. Correct
  if a click goes to what is seen, and the keyboard to what was clicked.

The hazards themselves, each at its line, are the `hazards` of `PROJECT.json`.

## 2 The modules and the code

    ClientFeed  <--implements--  ClientConnections      Outbox  <--implements--  PacketSender
        ^                              ^
        | drives
    ServerSessions

    ClientScenes  <--extended by--  Replication         StateMachine  <--extended by--  Movement

    Packets, Islands, UserInterface, Persistence, Movement  <--put together by--  MCParts

    ClientConnections, ServerSessions, PacketSender, Replication, Movement, UserInterface,
        Persistence  each  <--extended by--  a module of theorems, …_proofs
    Packets, Islands  <--extended by--  Formats_proofs

| module | models |
|---|---|
| `ClientFeed` | abstract: what `Tick` promises `Server` — one add, packets in order, one removal, packets after the removal only in its batch |
| `ClientConnections` | the connection layer: worker, main thread, mutex, network |
| `ServerSessions` | `Server`'s handlers and the worlds' player lists, driven by a `ClientFeed` |
| `Outbox` | abstract: what `PacketSender` promises — at most once, in order, a delayed packet overtakes nothing |
| `PacketSender` | the sender: callers, worker, condition variable, clock, sockets |
| `ClientScenes` | the client's scene manager, its three scenes and the entities of a world scene |
| `Replication` | the server's worlds as one client sees them, TCP, UDP, and `ClientScenes` |
| `StateMachine` | the stack of a character's states, as operators |
| `Movement` | the own character on both sides: keys, bindings, stacks, positions, updates that are lost, duplicated or late |
| `Packets` | every packet class in bytes, the stream, the datagrams, the receivers |
| `Islands` | an island loaded from one file by both sides, the look-up of plots, animation, the columns drawn |
| `Persistence` | the data manager, its statements and tables, the handlers that call it, failures and restarts |
| `UserInterface` | the controls of a scene, mouse and focus, the key mapping, frame by frame |
| `…_proofs` | theorems about the module named, and the lemmas they rest on (section 6) |
| `Formats_proofs` | the same about `Packets` and `Islands`, which share the lemmas about loops |
| `MC…` | instances for TLC |

The pieces fit together through the abstract modules: `ServerSessions` assumes
of its input exactly `ClientFeed`, which `ClientConnections` is shown to
implement (`Feed == INSTANCE ClientFeed WITH …`), and `Replication` puts the
delayed second removal on the TCP stream after whatever was sent before it,
which is what `Outbox` promises (`Promise == INSTANCE Outbox WITH …` in `PacketSender`).
What one module abstracts another one shows: packets are numbers in
`ClientConnections` and records in `Replication`, and bytes in `Packets`; a
query fails at will in `ServerSessions`, and leaves its statement behind in
`Persistence`; entities have no position in `Replication`, and one in `Movement`.

An action is a whole handler. In `PROJECT.json`, `map` gives the lines each
definition stands for. Definitions marked *Faulty variant* are not
used by any action: each is a plausible mistake in the definition that follows it,
which the properties must notice (`mutants`).

**ClientConnections.** `conn`, `clients`, `socketSet`, `toRemove`, `ready` are
the worker's; `clientsToAdd`, `clientsToRemove`, `packetsToProcess` and
`hasItems` what the mutex protects, held by `mutex`; `wpc` is the place of the
worker in `ThreadWorker`. A packet is its number in its client's stream. The
worker takes the mutex per callback, the main thread for the whole of `Tick`;
the flag is read before the mutex is taken. Connecting, sending, closing and
resetting are the remote side's. `status`, `handed` and `phase` are what the
server has been told, the variables of `ClientFeed`.

**ServerSessions.** `players` and `unauthenticated` are the two vectors, as
sequences of players (a player is named by its client, or `Dangling`, the
value behind an iterator past the end); `FirstOf` is the search that each look-up
makes. `game` holds each Player's fields, the worlds' `_players` (`listed`: how
often an id is in the list, as its order decides nothing) and `_entities`, the
database's saved world of each player, and what was sent to each client. Queries and worlds fail when `Faults`
says so, at every place where the code looks at a result. A client presses the
login button once, repeats its UDP test at will, and may get a new UDP address
(`Rebind`). A dereference of a null character sets `nullDereferenced`, and nothing
happens after it.

**PacketSender.** `wpc` is the place of the worker between its accesses to
shared memory, which are steps of their own: reading the clock, testing the
flag, locking, evaluating the predicate, blocking, waking (also spuriously),
sending each packet, and counting down entry by entry: `cursor` is the iterator
of that loop, which stays where it is when an entry is erased. `AddPacketToSend` and its notification are
two steps, as are the store of `_runThread` and its notification. `elapsed` is
the time since the clock was last read, at most `Delay`, since a longer time
lets the same entries fall due.

**ClientScenes** and **Replication.** `client` is one record of the scene
manager's and the current scene's fields. Changing the scene is `LoadScene`: it builds the
record anew. The queue between network thread and main thread only keeps the
order of arrival, so handling a packet is one step, and the end of a frame can come after
any packet. A world that does not load ends the client's main loop
(`WorldFailsToLoad`; `Running` is the loop's condition). `where`, `force` and `time`
are the server's; `arrived` is history and used by properties only. `tcp` is a
sequence, `udp` a set of datagrams, each lost or received once, in any order; `delayed` is the part of the
packet sender's countdown list that concerns the client.

**StateMachine** and **Movement.** A stack is a sequence of `[state, cancelled]`,
its front first; `PushState`, `CancelState` and `CurrentState` with `Popped` are
the three operations of the class. `ClientFrame` is one pass of `Game::MainLoop`
in its order: a packet, the tick that moves the character by the state it reads,
the broadcast, the actions of the keys. `ServerTick` is `World::Tick`: entity, broadcast,
action tiles. An update is a datagram with position and state; since only "newer
than the last one applied" matters of its time, a packet carries `old` instead of
a time. Forced updates go to the client over TCP, in order (`toClient`).

**Packets.** A class is its number, whether it is vital, the list of fields its
`SizeInBytes` counts, the list its `SerializeBytes` writes and the list its `FromBytes`
reads: three lists, as in the code, so that a mistake in one of them is visible. Numbers are
big-endian with the widths of the code, texts have a length in front. `SendPacket` puts a packet
into the stream if its class is vital or it is forced, which a world does with the update of a character
that its own player shall have (`MayBeForced`); 13 of the 15 classes can be in the stream. `CheckTCPSocket` reads size, type
and body from it; `CheckUDPSocket` takes a datagram, which may come again.

**Islands.** `plots` and `file` are what is on disk. `grids` is the server's
island after loading; `tileSets`, `tiles`, `layerTiles` and `plotOfTile` are the
client's, built by the loops of `RefreshTileSet` in their order, because a later plot
with the same picture replaces the entry of an earlier one. `viewport` is the camera.

**Persistence.** `players` and `cache` are the tables; `held` says for each
command of each SQL file what it was last given if it was not reset. A handler passes one record from
call to call (`Begin`, the calls, `Commit`), and one command in it may fail. `Restart`
is a stop or a crash: rows stay, sessions, statements and the cache go.

**UserInterface.** `tree` holds the controls' fields as functions, `pointer` the
UI's own, `phase` the place in the frame: events and the server's messages, `Tick` (`WorldScene::Tick`), `UpdateInput`
with the actions and the rendering. A script is a sequence of assignments to the properties a script can assign —
`text`, `height`, `pos_y`, `is_visible`, `is_enabled` — and every handler that calls a
script may have any of `Scripts` run; a message that a script sends to other controls is part of that script.
`SetText` follows `Label::SetText`: the picture's height, its fit, and the offset of a label
that scrolls to its bottom, which moves what is inside without any visibility being looked at. `stale` is
history and used by properties only: the controls that have moved like that. Loading goes control by
control in the order of the file, then the `OnLoad` scripts run, and the end of
`WorldScene::Initialize` looks at all sizes and flags again (`Reconfirmed`), those of controls with a centred
origin, too; `Loaded` is the tree that is left for each screen and script. `Dragged` is `OnDrag`, which only labels and textures have. `Hittable` asks everything
`GetFocusedControlAtPoint` does, `_canFocus` too, so the cursor, which lies on top, is never hit.
`PaintedAt` has what paints at a point: the pictures of textures and labels, moved by the control's own offset, where their
masks let them through. Canvases and custom controls paint nothing.

What is abstracted: one axis of the two, the vertical one, along which labels scroll. An assignment to `pos_x` or
`width` also fixes the other axis, which amounts to an assignment of the present `pos_y` or `height`. The height of a
text is a constant of the text, as the widths do not change here. A label's height of 0 divides in `SetText`, and a parent's height of 0
in the share a script's `height` makes of it; the instance has neither. A mask is stretched over a picture of another
size; such pictures do not count as painted. Nor does the cursor's, as no click can go to it. `RenderChildren` asks for
the visibility of children only, so the base canvas is rendered though it be invisible.

## 3 The runs

Sizes are distinct states; every run takes a few minutes at most on two
workers. Runs that expect a violation are explained in section 5.

| run | instance | shows |
|---|---|---|
| `connections` (0.29 M) | 2 clients that compete for a socket set of 1, a packet each, 1 datagram | `TypeOK`, `FlagCoversQueues`, `Agreement`, `GoneLeavesNothing`, `ImplementsFeed`, `PacketsAreHanded`, `HangUpIsReported`, `StopCompletes` |
| `sessions` (0.17 M) | 2 clients in turn, 4 packets each, 2 worlds, 2 warps, all failures | `TypeOK`, `SessionTable`, `WorldMembership`, `LoadWorldFirst`, `NoCharacterOutlivesClient`, `EntityIdIsKept` |
| `sessions_live` (65 k) | 2 clients in turn, 1 warp, 1 change of address, no failures | `ListedHasCharacter`, `LoginReachesWorld` |
| `sender` (0.7 M) | 4 packets, 2 of them delayed, lower activity state | `TypeOK`, `NoSleepOverPackets`, `KeepsOrder`, `ImmediateIsSent` |
| `replication` (0.88 M) | own character and one other, 2 worlds, 2 transfers or reports, 1 unforced broadcast, worlds that fail to load | `TypeOK`, `NoGhosts`, `AppearanceKnown`, `ControlledCharacterIsShown`, `ClientArrives` |
| `parts` (0.19 M) | five modules, one moving in each behaviour | see below |
| `sessions_concurrent` | 2 clients at once | violates `SenderIsIdentified` |
| `sessions_relogin` | 2 logins to one account | violates `LoginReachesWorld` |
| `sender_stop`, `sender_delayed`, `sender_left` | 1 or 2 packets | violate `StopCompletes`, `DelayedIsSent`, `NothingSentToThoseWhoLeft` |
| `movement_warp` | 3 tiles, a warp on the last | violates `WarpDecides` |

`parts` checks five modules that share no variable in one run: `MCParts`
chooses one of them in the initial state and only that one moves, so the state space is
the sum of the five and not their product.

| part | instance | shows |
|---|---|---|
| packets (5 k) | 2 packets of any two classes, 3 samples of each field | `ReadsWhatWasWritten`, `EntityDataIsUnderstood` |
| islands (20 k) | 2 tiles, 3 lists of plots, binary and JSON files of 1 or 2 layers | `PlotsAgree`, `ShowsThePlots` |
| interface (50 k) | a chat box that scrolls, an entry inside that reaches beyond it, a button over both, the mouse cursor on top, 2 screens, 2 scripts | `KeyboardFollowsFocus`, `HiddenIsAccurate`, `ClicksHitWhatIsSeen`, `DragGoesOn` |
| databases (71 k) | 2 users of whom 1 plays, 2 worlds, 1 failure, 1 restart, 2 entities | `SessionsOwnTheirRows`, `PositionSurvives`, `AppearanceIsKept` |
| movement (41 k) | 3 tiles, 2 keys, a plot that forbids running, 2 updates under way | `MovementTypeOK`, `KeysDecide`, `Agreement`, `StaysSynced` |

Why the bounds are enough.

* *Connections*: what can go wrong takes a second client between two steps of the
  first, a packet that is under way when its client goes, and a datagram that has no
  client; the socket set of one makes one client be refused, so that the refusal and the slot
  that becomes free both happen. Order among many packets of one client does not
  depend on this instance: `Refinement` (section 6) proves it for any number.
* *Sessions*: four packets are the login, the report of a world, and the report
  after a warp; two warps lead to another world and back.
* *Sender*: two immediate and two delayed packets are the least with which
  a delayed packet can overtake, or be overtaken by, either kind; a delay of two
  ticks lets an entry survive one countdown.
* *Replication*: a ghost takes one departure and one update; a stale answer to a
  report takes two transfers of the own player. The properties speak about each
  entity by itself, so a third entity adds only load.
* *Packets*: two packets are the least in which a wrong size of the first shifts
  the second; all pairs of classes are tried. A byte has its 256 values, and the
  samples use a zero, a negative number, a number that needs several bytes, and texts of
  length 0, 1 and 3.
* *Islands*: a cell is looked up by itself; a second tile and a second layer are
  what it takes to have one plot over another and an animated tile next to a still
  one. The viewport (3 pixels) is no multiple of a tile (2 pixels).
* *Interface*: the least tree in which a control is clipped by its parent, which
  scrolls and can be dragged, overlaps a sibling that comes after it in the order, and lies under a
  cursor; the script moves, hides and lets the chat box scroll, in one go; the button is centred; positions wrap at 64.
* *Databases*: the second user gives the wrong row to be found; one failure
  leaves one statement unreset; one restart separates what is saved from what is
  known. `Failing` bounds which files fail to two whose failures have lasting effects.
* *Movement*: a run crosses two tiles, so that of three tiles one is a place where
  only a walk fits; a duplicate and a late update need two under way.

Bounds are named constants: `MaxPackets`, `MaxDatagrams`, `MaxRebinds`,
`MaxWarps`, `MaxEntities`, `MaxId`, `Delay`, `MaxMoves`, `MaxUpdates`,
`MaxTime`, `MaxFailures`, `Failing`, `Playing`, `MaxRestarts`, `MaxStack`,
`MaxInFlight`; `BroadcastFrames`, `ByteValues`, `Samples`, `PositionValues`,
`UnitsPerMetre` scale the code's own numbers. No run uses symmetry.
`CHECK_DEADLOCK FALSE` stands where a run really ends: nobody has to log in,
send, or move again.

Assumptions that a run makes explicit:

* `Orderly` (sessions): a client connects when no other is in the middle of
  logging in or out. Without it the finding of `sessions_concurrent` makes most
  of the other properties false. With it, they hold under all failures.
* `Timely` (replication): a datagram arrives before the second removal of
  whatever was removed after it was sent — that is, within 100 ms — or never.
  Without it `NoGhosts` is false: the code bounds the life of a late
  update by nothing else.
* `SlowReturn` (replication): nobody comes back to a world before the second
  removal of its departure was sent. With `SlowReturn = FALSE`, `AppearanceKnown` is
  violated: the second removal names only entity and world, and removes the
  character that has come back; its next update creates it without appearance.
  `NoGhosts` and `ControlledCharacterIsShown` hold without the assumption.
* Files of islands: no two plots share the number of a picture (`PicturesAreOwn`) or a name,
  and an animation uses the first tile set, whose name is no plot's (`TileSetsAreFound`); a
  binary file has no other numbers than those of plots and -1 (`PlotsAreInTable`), and a JSON
  layer has a default plot (`DefaultsAreGiven`). `PlotsAgree` needs the first, third and fourth,
  what is shown the first three. Without the first the client takes one plot for another, without the
  second it draws other pictures than the plots', without the last the two sides forbid
  different movements.
* `HiddenIsAccurate` holds of a control that has not moved since its visibility was looked at, and says that
  only what is inside a scrolling label (`label.cpp:91`) and the mouse cursor ever move so
  (`MovesUnnoticed`). `ClicksHitWhatIsSeen` speaks of a control if nothing above it or itself has moved
  so, no position among these wraps (which happens beyond the near edge of the screen), and the point is on no far
  edge of them (`IsUsual`); the painted controls it compares with are those that take clicks
  (`TakesClicks`): not disabled, and allowed the focus with all above them.
* `SessionsOwnTheirRows`, `PositionSurvives` and `AppearanceIsKept` each name the
  SQL files whose failure breaks them: until one of those has failed, they hold,
  whatever else fails.
* `Agreement` and `StaysSynced` are checked on a map without warps, because of the
  finding of `movement_warp`.

## 4 Fairness

* `ClientConnections`: weak fairness of the worker, of `Tick`, and of the
  join. Both threads are loops that no condition in the code ends but the run
  flag. Nothing is assumed of clients.
* `ServerSessions`: weak fairness of the batches; strong fairness of handing
  over an add, a packet, a UDP test, since each is possible only in its
  phase of a batch, which returns for ever (`PacketsAreHanded` is the
  reason it may be assumed); weak fairness of a client's own next message, which
  it sends from its frame loop. A test that is repeated for ever is at some time received.
* `PacketSender`: weak fairness of the worker's steps, of the notifications that
  follow in the caller's code, of the join, and of the clock. None for spurious
  wakeups: code that needs them is wrong.
* `Replication`: weak fairness of the handling of the own client's report, of the forced
  broadcast of its character (every 50 ms), of TCP delivery and of the end of
  a frame, as long as the client runs. None for UDP, for other broadcasts, for the
  second removal, or for the failure to load a world.
* `Movement`: weak fairness of the client's frame and the server's tick, which are
  the bodies of the two main loops; strong fairness of applying an update that has
  come: of the updates a client sends again and again, some arrive. It is stated
  in `MCParts`, which knows which part moves. None for keys, losses or duplicates.

The other parts have no liveness: an island is loaded, or a handler runs, when it is asked.

## 5 Disagreements found

Each is a run that expects a violation. The trace TLC prints is the explanation.

1. **`sessions_concurrent`** — `server.cpp:594` uses `playerIt` after it was
   erased from `_unauthenticatedPlayers`; with two clients in the vector the
   *other* player is pushed into `_players`, and the client that authenticated can no
   longer be identified.
2. **`sessions_relogin`** — `OnClientRemove` looks in `_players` only, and
   removals come before packets: a client that authenticates in its last batch stays
   in `_players`. The next login to that account is found under the
   stale Player and never gets a world.
3. **`sender_stop`** — `StopThread` clears the flag and notifies without the
   mutex. Between the worker's predicate and its wait the notification is lost
   and the join does not return.
4. **`sender_delayed`** — the predicate of the wait looks at the queue only: a
   delayed packet is sent when the next packet is added, which may be never.
5. **`sender_left`** — the queue holds `TCPsocket` values that the connection
   thread closes and frees; the null check in `SendPacket` tests a copy.
6. **`movement_warp`** — a warp inside a world clears the character's states and
   moves it, but an update the client sent before it knew of the warp names the
   same world and is newer than the last: it puts the character back where it
   walked. The forced update that was to show the destination carries that place.

Seen while modelling, not runs of their own: the return within 100 ms
(`SlowReturn`), the JSON layer without a default plot, the shared pictures and the animations
that are looked up under the name of their tile set (conditions on files, section 3), the unreset statement that gives a session another user's row
(`SessionsOwnTheirRows` without its condition), the flags that are stale when a label has scrolled
(`stale`), a cursor that is out of sight when it is flagged hidden and never comes back, the division by a label's height
of 0 (`label.cpp:73`), and a
player's world that is saved before its position.

## 6 The proofs

Every theorem holds for all values of the constants that satisfy the module's
`ASSUME`, not only for the instances of section 3. A theorem whose
statement begins with a condition, `Condition => (Spec => …)`, needs that
condition of the environment; the runs check the property under the same condition.

| module | theorem | needs | statement |
|---|---|---|---|
| `ClientConnections_proofs` | `TypeCorrect` | | `Spec => []TypeOK` |
| | `AgreementHolds` | | `Spec => []Agreement` |
| | `FlagCorrect` | | `Spec => []FlagCoversQueues` |
| | `NothingLeft` | | `Spec => []GoneLeavesNothing` |
| | `Refinement` | | `Spec => ImplementsFeed` |
| `PacketSender_proofs` | `TypeCorrect` | | `Spec => []TypeOK` |
| | `NeverSleepsOverPackets` | | `Spec => []NoSleepOverPackets` |
| | `OrderHolds` | | `Spec => []InOrder` |
| | `Refinement` | | `Spec => KeepsOrder` |
| `Replication_proofs` | `TypeCorrect` | | `Spec => []TypeOK` |
| | `NeverControlsAHiddenCharacter` | | `Spec => []ControlledCharacterIsShown` |
| | `NoGhostStays` | `Timely` | `Spec => []NoGhosts` |
| | `AppearancesArrive` | `SlowReturn` | `Spec => []AppearanceKnown` |
| `ServerSessions_proofs` | `TypeCorrect` | | `Spec => []TypeOK` |
| | `SessionsAreTabled` | `TakingTurns` | `Spec => []SessionTable` |
| | `ListedPlayersHaveCharacters` | `TakingTurns` | `Spec => []ListedHasCharacter` |
| | `WorldsAgree` | `TakingTurns`, `OneAddress` | `Spec => []WorldMembership` |
| | `CharactersLeaveWithTheirClients` | the same | `Spec => []NoCharacterOutlivesClient` |
| | `LoadComesFirst` | the same | `Spec => []LoadWorldFirst` |
| | `TransfersKeepTheEntity` | the same | `Spec => EntityIdIsKept` |
| `Movement_proofs` | `TypeCorrect` | | `MovementSpec => []MovementTypeOK` |
| | `RestIsStable` | | `MovementSpec => StaysSynced` |
| `Formats_proofs` | `PlotsAgreeAlways` | | `IslandsSpec => []PlotsAgree` |
| | `ShowsThePlotsAlways` | | `IslandsSpec => []ShowsThePlots` |
| | `ReadsWhatWasWrittenAlways` | | `PacketsSpec => []ReadsWhatWasWritten` |
| | `EntityDataIsUnderstoodAlways` | | `PacketsSpec => []EntityDataIsUnderstood` |
| `UserInterface_proofs` | `KeyboardHasOneOwner` | | `UISpec => []KeyboardFollowsFocus` |
| | `DragsGoOn` | | `UISpec => DragGoesOn` |
| | `HiddenIsAccurateAlways` | | `UISpec => []HiddenIsAccurate` |
| | `ClicksHitWhatIsSeenAlways` | | `UISpec => []ClicksHitWhatIsSeen` |
| `Persistence_proofs` | `SessionsOwnTheirRowsAlways` | | `PersistenceSpec => []SessionsOwnTheirRows` |
| | `AppearanceIsKeptAlways` | | `PersistenceSpec => AppearanceIsKept` |
| | `PositionSurvivesAlways` | | `PersistenceSpec => PositionSurvives` |

### Why the invariants are what they are

**Connection layer.** What the server has been told about a client depends on
three places that change at different times: the worker's own record of it, the
vectors behind the mutex, and `status`. The invariant `TypeOK /\ Agreement`
relates them, in nine parts. A client is in `clientsToAdd` exactly when
the worker has accepted it and the server does not know it
(`AddsArePending`); in `clientsToRemove` exactly when the worker dropped it and the
server has not been told (`RemovesArePending`); and the queue holds exactly
the packets read and not yet handed over, oldest first (`PacketsArePending`).
These make the refinement go through: the first element of each vector is always one
that `ClientFeed` is ready to take. `PhaseEmptiesVectors` and `RemovedIsDropped` are
what makes the end of a batch safe: by then the packets of a removed client have
all been handed over, and no more can be read.

**Packet sender.** `NoSleepOverPackets` is inductive given the types: the
places of the worker between predicate and wait are those in which it holds the
mutex. The order is not: the refinement to `Outbox` needs, for every
packet in the queue, that what must precede it is on the wire or ahead of it in
the queue (`QueueInOrder`), the same for the countdown list (`CountdownInOrder`), and that
entries of that list fall due in the order they were added (`SoonestFirst`). The last is
true in the middle of a pass only if the part of the list behind `cursor` is counted as if
it had been decremented already, which is what `Remaining` says. The proof of a pass
is where an iterator that is advanced after an erase would fail.

**Replication.** Three invariants, by what they need. `Always`: scene changes
carry the world they are for; the last world the client is told to load is the one its
player is in (`HeadingHome`); a removal of the own character is never sent to its client.
From these and the types follows `ControlledCharacterIsShown`. `IfTimely`: an update on the
stream is of the present stay of its entity, or a removal or another world is behind
it; a datagram is of the present stay, or the second removal is still held back
and was decided later. From it follows `NoGhosts`. Without `Timely` a datagram could arrive after the
second removal, and the code bounds its life by nothing. `IfSlow`: no second
removal is held back for an entity that is there, a removal of one that is there has its
details behind it, and whoever is in the client's world is known to it or has its details
under way. From it follows `AppearanceKnown`. Without `SlowReturn` the held-back removal hits the
character that has come back.

**Sessions and worlds.** The types need that ids do not run out: the counter of
sessions and the ids of accounts stay ahead of those who can still ask for one (`IdsSuffice`).
`Sessions` is about the two lists: each session in one of them, once (`Roster`); a
player's id is its account's once it has logged in and a session's before, from disjoint
ranges (`IdsTellApart`); one login is under way at a time and is the last entry of
`_unauthenticatedPlayers` (`OneLogin`), which is what makes the use of the erased iterator at
`server.cpp:594` harmless; a datagram leads to its sender or to nobody. `Peopled` is
about entities: whoever is listed owns one, and an entity id has one owner. `Places` says
exactly what a world holds, in terms of the players in it: an id is listed once if its player is
there with a character, an entity is there for the same players and no one else.
The properties about worlds are readings of these.

`TakingTurns` says that clients take turns (`Orderly`), each with an account of its own, and that
ids of accounts lie above those of sessions, which takes a database that is not
empty. Each part is needed, since the code goes wrong without it: `sessions_concurrent` shows the
first, `sessions_relogin` the second, and overlapping ids make a look-up by id find
another player. `OneAddress` excludes a second UDP address in one session, after
which a player is added to its world again with a second character; `SessionTable` and
`ListedHasCharacter` hold nevertheless. All of them hold under every failure of a query, a map or a
property (`Faults`).

**Movement.** `RestIsStable` is an action property; `AtRest` is what it has to
mean that both sides agree: no key is held, both stacks read as idle, the positions are
the same, nothing is forced, and each update still under way either is older than the
last one applied or would change nothing (`Harmless`). With the types it is inductive
up to the next key. The lemmas about `PushState`, `CancelState` and `CurrentState` say what is left at the front of a stack.

**Islands.** `IslandsInv` says that both sides hold what their loads left, except that animations
go on. The work is to say what that is: `IsTileMap` is the invariant of the client's loops over
layers and cells — every tile is a plot's, which the table says, and no plot has two tiles — and `Shows`
what a round leaves at its cell. If no two plots share a picture, both searches of `SetTileIndex`
find a plot's tile if there is one (`PictureIsFound`, `AnimationIsFound`); so entries of the table are
never replaced by another plot's, and later rounds keep what earlier ones left. That there are no more tiles than
plots is a pigeonhole argument (`TilesAreFew`), and keeps the 16-bit index from wrapping. Loops
are recursive functions over `0..N`: that such a function exists is shown by growing it, and what it
computes by its least index that would be wrong (`Rounds`); no induction theorem is used.

**Packets.** `ReadsWhatWasWritten` is almost inductive: `StreamHoldsTheRest` adds that only packets of
the 15 classes are sent (of which 13 can be in the stream; the proof does not need to know which). The step that matters is that a receiver finds the packet at the
front of the stream and nothing of the next one. It goes from small to large. A number is the
sum of its digits (`DigitsMakeNumber`), so whatever fits its bytes comes back (`NumberReadsBack`), and what is
negative too (`SignedReadsBack`). A field that lies in a byte sequence behind some position (`At`) is read
from there as its value, and reading ends where the field ends (`FieldReadsBack`). So each field of a list
is read where it was written (`RoundTrip`), if no two have a name in common, which is shown class by class, with
the equality of the three lists. The size announced is that of the bytes (`SizeIsOfBytes`) and fits
the four bytes it has (`PacketFields`). `WriteAll` then puts the next packet right behind those that were
read (`NextPacketIsThere`). The assumption on `Samples` is that a number has the
width of its field, that a text has no zero in it (it would be cut there), and that sixteen times a text's length,
and 64 bytes, can be announced: texts of up to 268 million bytes.

**User interface.** `KeyboardFollowsFocus` only counts mappings; the invariant `Keyboard` says
which they are, and that nobody walks where no character listens. It and `DragGoesOn` do not open
the tree of controls. `HiddenIsAccurate` does. `Accurate` says that the flag of every control but the `stale` ones is
right. What is seen of a control depends on it and on those
above it and on nothing else (`SeenAlike`), so whatever is done to a control and to
those below it leaves the other flags right, and its `UpdateVisibility` does the rest. The
proof is by the operations of the tree: each change of a field leaves what is not below alone
(`Beside`), each operation that moves something ends in `UpdateVisibility` or adds to `stale` what it has moved,
and that lies inside a scrolling label or is the cursor (`IsRight` is kept, `Keeping`). So whatever a script, a
drag, a text, a frame or a new screen does keeps the flags right: a script goes assignment by assignment, loading
control by control, both as recursive functions of a number. A centred control's origin comes last, after its
`UpdateVisibility`, so nothing is claimed of the flags while a file is loaded; `Reconfirmed` starts
at the base canvas, below which everything is, and makes them all right.
Positions, heights and masks are recursive over the
tree; that these functions exist is shown by growing them in the order of loading.
`ClicksHitWhatIsSeen` follows from it. Above a control where nothing is hidden or stale masks only clip: a point is in its mask
exactly if it is inside the control and all above it (`MasksClip`), so what is painted at a point is
inside (`PlainIsInside`) and, if it takes clicks, reached by the search, along with all above it (`PaintedIsReached`). The search goes from the leaves upwards, children
last in the file first, and is grown in that order. What it returns for a control is painted after all
else that is reached below it: those below an earlier child come before, and so does the control itself; and
what it returns is itself reached (`HitIsReached`), so it is inside its own mask (`HitIsSeen`).

**Databases.** Any command may fail at any time, so each part of the invariants says which files
must not have failed for it to hold. There are three, each on top of the one before.
`RowInv`: a command is held only if its file has failed (`HeldHaveFailed`); names occur once, and an
insertion that is held, and will be repeated with its old values for the next new user, names
somebody who has no row (`NamesOnce`); sessions have the rows of their users (`OwnRows`).
Without the middle part the repeated insertion could double a row.
`LookInv`: an appearance that is held belongs to a row without one, or with just that one
(`LooksHeld`). `PlaceInv`: while no file of the login or of places has failed, whoever was saved
has a row with a world and that place (`Seen`), and whoever has a character has a row with a world
(`Standing`). So the next login does not take a saved player for a new one: the world is written
before the first save. A relation between the handler's state before and after a call carries each
of them (`GoesOn`, `LooksKept`, `PlacesKept`); it holds of every call but the few that write the
column concerned, and it chains, as the calls of a handler do.

### What is only model-checked

* Liveness under fairness (`PacketsAreHanded`, `HangUpIsReported`, `StopCompletes`,
  `ImmediateIsSent`, `LoginReachesWorld`, `ClientArrives`, `KeysDecide`,
  `Agreement` of `Movement`) and whatever needs `ENABLED`: TLAPS has no rules for them that
  the installed provers support.

Every invariant the passing runs check is proved, and every action property. The models avoid folds
where something is to be proved, since what a fold computes needs an induction over data, whose theorems take
an operator as a parameter, which none of the provers can instantiate: the look-ups of
`ServerSessions` are stated by the least index, the countdown of `PacketSender` goes entry by entry,
the loops of `Islands` and `Packets`, the loading of `UserInterface` and its search are functions of a number or of a
control, and the order of drawing is a relation. Of `Agreement` of `Movement`, what is proved is that agreement, once
reached, stays (`RestIsStable`); that it is reached is left to TLC.

### How the proofs are laid out

A step lemma per invariant has one case per action; the parts an action
does not touch are dispatched together. Facts about sequences, stacks, finite sets and the modules'
own operators are lemmas at the top of each module. Operators of the models that
change several fields of a record have a lemma that says which (`Added` and its kin in
`ServerSessions_proofs`, `DragKeeps` in `UserInterface_proofs`, `CallRan` in `Persistence_proofs`), so that the proofs of
handlers need not open them.

## 7 What is not modelled

* Packets whose bytes arrive in pieces. The receiver reads size, type and body
  with one blocking call each and takes what it gets; the model delivers a
  packet's bytes together.
* The SQL files. They are not in the repository; `Persistence` models each from
  the parameters the code sets and the results it counts. SQLite, V8, SDL and
  OpenGL are external.
* Scripting: a wrapper around V8, whose behaviour is that of the scripts. `Scripts` of `UserInterface` are
  sequences of assignments to controls, which is all that a script can change of them. Characters
  without a player, which scripts move, are in `Replication` and `Persistence`
  only as far as they change worlds.
* Rendering, textures, fonts, resource pools: OpenGL and geometry on one thread.
  The order of drawing matters for clicks, and that is in `UserInterface`; the tiles in
  view are in `Islands`.
* CSS, markdown, the layout of text, custom controls: text to records on one thread,
  on which no property of the system depends. A control that a custom control brings along is a control of the tree like any
  other.
* The login scene's interface. It loads its controls as the world scene does but
  does not look at sizes again at the end, so the flag of a centred control may be stale there until
  the screen is resized.
* Interpolation of positions on the client shows only its end (`Movement`);
  the animations of actions are left out, and chat and debug output but for the
  labels that show them (`SendMessage`, `UpdateDebugInfo` of `UserInterface`).
* Timers. Where time matters a module counts ticks; the conversions are
  arithmetic.
* The third program, `application_main`, with the engine, game and world of the
  shared library and `concurrency/`: its worlds only wait for the running flag,
  so there is nothing yet whose correctness could be stated. The flag is
  set after the world threads have started (`engine.cpp:32`), which will matter
  when they do something.
* Start-up and shutdown of the two programs, configuration, cryptography, logging,
  build files, tests, platform glue, vendored data.

`PROJECT.json` lists each component with its status and the reason.

## 8 Plan

Done: the connection layer with its abstract promise and proofs, sessions, the packet
sender with its abstract promise, scenes and replication, movement with the state
machine, packets, islands, databases, the interface.

Proved: section 6.

To model when there is reason to: packets in pieces, scripts' timers that reset
themselves, resource pools.

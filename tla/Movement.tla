------------------------------ MODULE Movement ------------------------------
(***************************************************************************)
(* The movement of one player's character inside one world: the keys held  *)
(* at the client, the character's stack of states and position there, the  *)
(* updates the client sends, and the character of the same entity on the   *)
(* server.  The world is a row of tiles; a walk crosses one tile in a      *)
(* frame, a run two.                                                       *)
(*                                                                         *)
(* The client's main loop makes a ClientFrame, the server's main loop      *)
(* hands over the updates that have come (ApplyUpdate, IgnoreUpdate) and   *)
(* ticks the worlds (ServerTick).                                          *)
(*                                                                         *)
(* Updates to the server are datagrams: lost, duplicated, reordered.  The  *)
(* times they carry are compared with the newest one applied only, so a    *)
(* packet records whether it is old in that sense instead of a time.       *)
(***************************************************************************)
EXTENDS StateMachine, SequencesExt

CONSTANTS Keys,             \* the keys the player uses
          LastTile,         \* the tiles are 0..LastTile
          Disallowed,       \* Disallowed[t]: keys of states the plot at t forbids
          WarpTiles, WarpTo, \* action tiles that warp inside the world, and where to
          BroadcastFrames,  \* frames between two broadcasts, on either side
          MaxStack,         \* bound: no key is pressed over a longer stack
          MaxInFlight       \* bound: packets under way in one direction

Tiles == 0..LastTile

ASSUME MovementAssumption ==
  /\ Keys \subseteq {"a", "d", "shift"}
  /\ LastTile \in Nat /\ WarpTiles \subseteq Tiles /\ WarpTo \in Tiles
  /\ Disallowed \in [Tiles -> SUBSET {"walk", "run"}]
  /\ BroadcastFrames \in Nat \ {0} /\ MaxStack \in Nat /\ MaxInFlight \in Nat \ {0}

VARIABLES keys,      \* keys down (KeyboardInput)
          binding,   \* keys of the current binding, {} if there is none
          cStack, cPos, cSince, \* the client's character and its broadcast counter
          toServer, toClient,   \* updates under way
          sStack, sPos, sSince, \* the server's character
          sForce,    \* _forceSendToOwningPlayer
          sLerp,     \* _lerpPositionChangeOnClient
          warped     \* history: warped since the last broadcast

clientVars == <<keys, binding, cStack, cPos, cSince>>
tickVars   == <<sSince, sForce, sLerp, warped>>
movementVars == <<clientVars, toServer, toClient, sStack, sPos, tickVars>>

Idle == State("idle", "none")

(* The part of the key bindings that a row of tiles needs. *)
Bindings ==
  [K \in {{"a"}, {"d"}, {"a", "shift"}, {"d", "shift"}} |->
     State(IF "shift" \in K THEN "run" ELSE "walk", IF "a" \in K THEN "left" ELSE "right")]

States == {Idle} \cup Range(Bindings)
Items  == [state : States, cancelled : BOOLEAN]

MovementTypeOK ==
  /\ keys \subseteq Keys /\ binding \in {{}} \cup DOMAIN Bindings
  /\ cStack \in Seq(Items) /\ sStack \in Seq(Items)
  /\ cPos \in Tiles /\ sPos \in Tiles
  /\ cSince \in 0..BroadcastFrames /\ sSince \in 0..BroadcastFrames
  /\ toServer \in Seq([pos : Tiles, state : States, old : BOOLEAN])
  /\ toClient \in Seq([pos : Tiles, state : States, lerp : BOOLEAN, warped : BOOLEAN])
  /\ sForce \in BOOLEAN /\ sLerp \in BOOLEAN /\ warped \in BOOLEAN

(* The character has been created on both sides and has had its first
   broadcast. *)
MovementInit ==
  /\ keys = {} /\ binding = {} /\ cStack = <<>> /\ cPos = 0 /\ cSince = 0
  /\ toServer = <<>> /\ toClient = <<>>
  /\ sStack = <<>> /\ sPos = 0 /\ sSince = 0 /\ sForce = FALSE /\ sLerp = TRUE
  /\ warped = FALSE

----------------------------------------------------------------------------
(* Both sides' ProcessState and Move. *)

Speed(s) == CASE s.key = "idle" -> 0 [] s.key = "walk" -> 1 [] s.key = "run" -> 2

Step(s) == IF s.value = "left" THEN -Speed(s) ELSE Speed(s)

MayMove(pos, s) == /\ s # Idle
                   /\ pos + Step(s) \in Tiles
                   /\ s.key \notin Disallowed[pos + Step(s)]

(* Faulty variant: the edge of the map is not looked at. *)
MovedOffTheMap(pos, s) ==
  IF s # Idle /\ (pos + Step(s) \in Tiles => s.key \notin Disallowed[pos + Step(s)])
  THEN pos + Step(s) ELSE pos

Moved(pos, s) == IF MayMove(pos, s) THEN pos + Step(s) ELSE pos

(* On the server a move onto an action tile leaves the tile's action to be
   run at the end of the tick. *)
TriggerActionTiles(pos, s) == MayMove(pos, s) /\ Moved(pos, s) \in WarpTiles

(* A datagram is added; when the network is full the oldest is lost. *)
Sent(net, m) == Append(IF Len(net) < MaxInFlight THEN net ELSE Tail(net), m)

----------------------------------------------------------------------------
(* The client. *)

(* A key event of the window system; UpdateKeyboardKey. *)
Press(k) ==
  /\ k \notin keys /\ Len(cStack) < MaxStack
  /\ keys' = keys \cup {k}
  /\ UNCHANGED <<binding, cStack, cPos, cSince, toServer, toClient, sStack, sPos, tickVars>>

Release(k) ==
  /\ k \in keys
  /\ keys' = keys \ {k}
  /\ UNCHANGED <<binding, cStack, cPos, cSince, toServer, toClient, sStack, sPos, tickVars>>

(* Faulty variant: keys without a binding leave the last binding current. *)
NewBindingSticky == IF keys \in DOMAIN Bindings THEN keys ELSE IF keys = {} THEN {} ELSE binding

(* ActionInputSourceKeyboard::Tick: a binding is current when exactly its
   keys are down.  Its action is added in every frame; a binding that was
   current before has its action removed. *)
NewBinding == IF keys \in DOMAIN Bindings THEN keys ELSE {}

Added(stack) == IF NewBinding = {} THEN stack ELSE PushState(stack, Bindings[NewBinding])

Removed(stack) ==
  IF binding \in {{}, NewBinding} THEN stack ELSE CancelState(stack, Bindings[binding].key)

(* ActionManager::ProcessActions and Character::ProcessAction: what was added
   is pushed before what was removed is cancelled. *)
ProcessActions(stack) == Removed(Added(stack))

(* Character::SetData: the update replaces all states; the position is taken
   over, by interpolation (whose end is shown here) or at once. *)
Received(m) == PushState(<<>>, m.state)

(* Faulty variant: a character that stands still is not broadcast. *)
ClientBroadcastMoving(pos, s) ==
  IF s = Idle THEN toServer ELSE Sent(toServer, [pos |-> pos, state |-> s, old |-> FALSE])

(* The broadcast of the own character: World::UpdateEntities, GetEntityData. *)
ClientBroadcast(pos, s) == Sent(toServer, [pos |-> pos, state |-> s, old |-> FALSE])

(* One pass of Game::MainLoop: the packets that have come (here: at most one),
   the tick of the entity, its broadcast when due, the actions. *)
ClientFrame ==
  \E n \in 0..1 :
    LET taken  == n = 1
        stack0 == IF taken THEN Received(toClient[1]) ELSE cStack
        pos0   == IF taken THEN toClient[1].pos ELSE cPos
        s      == CurrentState(stack0, Idle)
        due    == cSince + 1 >= BroadcastFrames
    IN  /\ n <= Len(toClient)
        /\ toClient' = IF taken THEN Tail(toClient) ELSE toClient
        /\ cPos' = Moved(pos0, s)
        /\ cSince' = IF due THEN 0 ELSE cSince + 1
        /\ toServer' = IF due THEN ClientBroadcast(Moved(pos0, s), s) ELSE toServer
        /\ cStack' = ProcessActions(Popped(stack0))
        /\ binding' = NewBinding
        /\ UNCHANGED <<keys, sStack, sPos, tickVars>>

----------------------------------------------------------------------------
(* The server: HandleClientServerEntityUpdatePacket, Character::SetData. *)

(* The packets sent up to the i-th are no longer newer than the last applied. *)
Outdated(net, i) == [j \in DOMAIN net |-> [net[j] EXCEPT !.old = @ \/ j <= i]]

(* Faulty variant: the time of the update is not compared. *)
IsNewAlways(m) == TRUE

IsNew(m) == ~m.old

(* An update that is newer replaces the states and the position; a duplicate
   of it may stay in the network. *)
ApplyUpdate(i, stays) ==
  /\ IsNew(toServer[i])
  /\ toServer' = IF stays THEN Outdated(toServer, i) ELSE RemoveAt(Outdated(toServer, i), i)
  /\ sStack' = PushState(<<>>, toServer[i].state)
  /\ sPos' = toServer[i].pos
  /\ UNCHANGED <<clientVars, toClient, tickVars>>

(* An update that is not newer is ignored. *)
IgnoreUpdate(i) ==
  /\ ~IsNew(toServer[i])
  /\ toServer' = RemoveAt(toServer, i)
  /\ UNCHANGED <<clientVars, toClient, sStack, sPos, tickVars>>

LoseUpdate(i) ==
  /\ toServer' = RemoveAt(toServer, i)
  /\ UNCHANGED <<clientVars, toClient, sStack, sPos, tickVars>>

----------------------------------------------------------------------------
(* World::Tick, in the order entity, broadcast, actions of tiles.  Broadcasts
   to other players are not looked at here.  Character::Warp clears the states
   and forces the next broadcast, without interpolation, to the owning player. *)
ServerTick ==
  LET s      == CurrentState(sStack, Idle)
      warps  == TriggerActionTiles(sPos, s)
      due    == sSince + 1 >= BroadcastFrames
      forced == due /\ sForce
  IN  /\ forced => Len(toClient) < MaxInFlight
      /\ sPos' = IF warps THEN WarpTo ELSE Moved(sPos, s)
      /\ sStack' = IF warps THEN <<>> ELSE Popped(sStack)
      /\ sSince' = IF due THEN 0 ELSE sSince + 1
      /\ toClient' = IF forced
                     THEN Append(toClient, [pos |-> Moved(sPos, s), state |-> s, lerp |-> sLerp, warped |-> warped])
                     ELSE toClient
      /\ sForce' = (warps \/ (sForce /\ ~due))
      /\ sLerp' = (~warps /\ (sLerp \/ due))
      /\ warped' = (warps \/ (warped /\ ~due))
      /\ UNCHANGED <<clientVars, toServer>>

MovementNext ==
  \/ \E k \in Keys : Press(k) \/ Release(k)
  \/ ClientFrame
  \/ \E i \in DOMAIN toServer :
       \/ \E stays \in BOOLEAN : ApplyUpdate(i, stays)
       \/ IgnoreUpdate(i)
       \/ LoseUpdate(i)
  \/ ServerTick

MovementSpec == MovementInit /\ [][MovementNext]_movementVars

----------------------------------------------------------------------------
(* The keys decide what the character does: whatever happened before, while
   the same keys stay down it is in the state they are bound to, and it
   stands when none are. *)
StateOf(K) == IF K \in DOMAIN Bindings THEN Bindings[K] ELSE Idle

KeysDecide ==
  \A K \in SUBSET Keys : <>[](keys = K) => <>[](CurrentState(cStack, Idle) = StateOf(K))

(* Client and server agree about a character at rest, and no packet
   under way can change that. *)
Rest(pos) == [pos |-> pos, state |-> Idle]

Synced ==
  /\ keys = {} /\ binding = {} /\ CurrentState(cStack, Idle) = Idle
  /\ CurrentState(sStack, Idle) = Idle /\ sPos = cPos
  /\ ~sForce /\ toClient = <<>>
  /\ \A i \in DOMAIN toServer : toServer[i].old \/ [pos |-> toServer[i].pos, state |-> toServer[i].state] = Rest(cPos)

(* However updates were lost, duplicated or overtaken, a player who lets go of
   the keys ends at the same place on both sides. *)
Agreement == <>[](keys = {}) => <>[]Synced

(* Once they agree, nothing that is still under way moves the character again:
   only a key does. *)
StaysSynced == [][Synced => Synced' \/ keys' # {}]_movementVars

(* "any state should be decided by what happens at the new location": the
   update that tells the player of a warp shows the character at the
   destination, in no state from before. *)
WarpDecides ==
  \A i \in DOMAIN toClient :
    toClient[i].warped => toClient[i].pos = WarpTo /\ toClient[i].state = Idle
=============================================================================

--------------------------- MODULE Movement_proofs ---------------------------
(***************************************************************************)
(* Proofs about Movement, for any row of tiles, any action tiles and plots *)
(* and any size of the networks.  The lemmas on stacks of states are used  *)
(* by both theorems: what is pushed, cancelled and read.                   *)
(***************************************************************************)
EXTENDS Movement, WellFoundedInduction, TLAPS

-----------------------------------------------------------------------------
(***************************************************************************)
(* Stacks of states.                                                       *)
(***************************************************************************)

LEMMA LeastElement ==
  ASSUME NEW S, S \subseteq Nat, S # {}
  PROVE  Min(S) \in S /\ \A y \in S : Min(S) <= y
<1> DEFINE Less == {ss \in Nat \X Nat : ss[1] < ss[2]}
<1>1. IsWellFoundedOn(Less, Nat)
  BY NatLessThanWellFounded, Zenon DEF OpToRel
<1> HIDE DEF Less
<1>2. \E x \in S : \A y \in S : ~ (<<y, x>> \in Less)
  BY <1>1, WFMin
<1>3. ASSUME NEW x \in Nat, NEW y \in Nat, ~ (<<y, x>> \in Less)
      PROVE  x <= y
  <2>1. <<y, x>> \in Nat \X Nat /\ <<y, x>>[1] = y /\ <<y, x>>[2] = x
    OBVIOUS
  <2>2. ~ (y < x)
    BY <1>3, <2>1 DEF Less
  <2> QED BY <2>2
<1>4. \E x \in S : \A y \in S : x <= y
  BY <1>2, <1>3
<1> QED BY <1>4 DEF Min

\* The front of a stack that has a live state.
LEMMA FrontIsLive ==
  ASSUME NEW stack \in Seq(Items), Live(stack) # {}
  PROVE  /\ Min(Live(stack)) \in DOMAIN stack
         /\ ~stack[Min(Live(stack))].cancelled
         /\ \A i \in DOMAIN stack : i < Min(Live(stack)) => stack[i].cancelled
<1> DEFINE m == Min(Live(stack))
<1>1. Live(stack) \subseteq Nat
  BY DEF Live
<1>2. m \in Live(stack) /\ \A y \in Live(stack) : m <= y
  BY <1>1, LeastElement
<1> HIDE DEF m
<1>3. m \in DOMAIN stack /\ ~stack[m].cancelled
  BY <1>2 DEF Live
<1>4. ASSUME NEW i \in DOMAIN stack, i < m
      PROVE  stack[i].cancelled
  <2>1. i \in Nat /\ m \in Nat /\ i \notin Live(stack)
    BY <1>2, <1>3, <1>4
  <2> QED BY <2>1 DEF Live
<1> QED BY <1>3, <1>4 DEF m

LEMMA StatesAreStates ==
  /\ Idle \in States
  /\ \A K \in DOMAIN Bindings : Bindings[K] \in States /\ Bindings[K].key \in {"walk", "run"}
  /\ \A s \in States : s = Idle \/ s.key \in {"walk", "run"}
BY DEF States, Bindings, Idle, State, Range

LEMMA PushStateType ==
  ASSUME NEW stack \in Seq(Items), NEW s \in States
  PROVE  PushState(stack, s) \in Seq(Items)
<1>1. Item(s) \in Items
  BY DEF Item, Items
<1>2. CASE stack # <<>> /\ stack[1].state.key = s.key
  <2>1. 1 \in DOMAIN stack /\ stack[1] \in Items
    BY <1>2
  <2>2. [stack[1] EXCEPT !.state = s] \in Items
    BY <2>1 DEF Items
  <2>3. PushState(stack, s) = [stack EXCEPT ![1] = [stack[1] EXCEPT !.state = s]]
    BY <1>2 DEF PushState
  <2> QED BY <2>1, <2>2, <2>3
<1>3. CASE ~ (stack # <<>> /\ stack[1].state.key = s.key)
  BY <1>1, <1>3 DEF PushState
<1> QED BY <1>2, <1>3

LEMMA CancelStateType ==
  ASSUME NEW stack \in Seq(Items), NEW k
  PROVE  CancelState(stack, k) \in Seq(Items)
<1>1. ASSUME NEW i \in DOMAIN stack
      PROVE  [stack[i] EXCEPT !.cancelled = @ \/ stack[i].state.key = k] \in Items
  <2>1. stack[i] \in Items
    OBVIOUS
  <2>2. (stack[i].cancelled \/ stack[i].state.key = k) \in BOOLEAN
    OBVIOUS
  <2> QED BY <2>1, <2>2 DEF Items
<1>2. DOMAIN stack = 1..Len(stack) /\ Len(stack) \in Nat
  OBVIOUS
<1> QED BY <1>1, <1>2 DEF CancelState

LEMMA PoppedType ==
  ASSUME NEW stack \in Seq(Items)
  PROVE  Popped(stack) \in Seq(Items)
<1>1. CASE Live(stack) = {}
  BY <1>1 DEF Popped
<1>2. CASE Live(stack) # {}
  BY <1>2, FrontIsLive DEF Popped
<1> QED BY <1>1, <1>2

LEMMA CurrentStateType ==
  ASSUME NEW stack \in Seq(Items)
  PROVE  CurrentState(stack, Idle) \in States
<1>1. CASE Live(stack) = {}
  BY <1>1, StatesAreStates DEF CurrentState
<1>2. CASE Live(stack) # {}
  <2>1. stack[Min(Live(stack))] \in Items
    BY <1>2, FrontIsLive
  <2> QED BY <1>2, <2>1 DEF CurrentState, Items
<1> QED BY <1>1, <1>2

\* Reading the stack does not change what it says.
LEMMA PoppedKeepsCurrent ==
  ASSUME NEW stack \in Seq(Items), NEW base
  PROVE  CurrentState(Popped(stack), base) = CurrentState(stack, base)
<1>1. CASE Live(stack) = {}
  <2>1. Popped(stack) = <<>> /\ Live(<<>>) = {}
    BY <1>1 DEF Popped, Live
  <2> QED BY <1>1, <2>1 DEF CurrentState
<1>2. CASE Live(stack) # {}
  <2> DEFINE m == Min(Live(stack))
             rest == SubSeq(stack, m, Len(stack))
  <2>1. m \in DOMAIN stack /\ ~stack[m].cancelled
    BY <1>2, FrontIsLive
  <2>2. rest \in Seq(Items) /\ Len(rest) = Len(stack) - m + 1 /\ rest[1] = stack[m]
    BY <2>1
  <2>3. Popped(stack) = rest
    BY <1>2 DEF Popped
  <2>4. CurrentState(stack, base) = stack[m].state
    BY <1>2 DEF CurrentState
  <2> HIDE DEF rest, m
  <2>5. 1 \in Live(rest)
    BY <2>1, <2>2 DEF Live
  <2>6. Live(rest) \subseteq Nat /\ \A i \in Live(rest) : 1 <= i
    BY <2>2 DEF Live
  <2>7. Min(Live(rest)) \in Live(rest) /\ Min(Live(rest)) <= 1
    BY <2>5, <2>6, LeastElement
  <2>8. Min(Live(rest)) = 1
    BY <2>6, <2>7
  <2>9. CurrentState(rest, base) = rest[1].state
    BY <2>5, <2>8 DEF CurrentState
  <2> QED BY <2>2, <2>3, <2>4, <2>9
<1> QED BY <1>1, <1>2

\* A state pushed on an empty stack is the current one.
LEMMA FirstPushed ==
  ASSUME NEW s \in States, NEW base
  PROVE  CurrentState(PushState(<<>>, s), base) = s
<1> DEFINE stack == <<Item(s)>>
<1>1. PushState(<<>>, s) = stack
  BY DEF PushState
<1>2. stack \in Seq(Items) /\ Len(stack) = 1 /\ stack[1].state = s /\ ~stack[1].cancelled
  BY DEF Item, Items
<1>3. Live(stack) = {1}
  BY <1>2 DEF Live
<1>4. Min({1}) = 1
  BY LeastElement
<1> QED BY <1>1, <1>2, <1>3, <1>4 DEF CurrentState

-----------------------------------------------------------------------------
(***************************************************************************)
(* The networks.                                                           *)
(***************************************************************************)

ServerUpdates == [pos : Tiles, state : States, old : BOOLEAN]
ClientUpdates == [pos : Tiles, state : States, lerp : BOOLEAN, warped : BOOLEAN]

LEMMA RemoveAtType ==
  ASSUME NEW S, NEW s \in Seq(S), NEW i \in DOMAIN s
  PROVE  /\ RemoveAt(s, i) \in Seq(S)
         /\ \A j \in DOMAIN RemoveAt(s, i) :
              \E k \in DOMAIN s : RemoveAt(s, i)[j] = s[k]
<1> DEFINE before == SubSeq(s, 1, i - 1)
           after  == SubSeq(s, i + 1, Len(s))
<1>1. /\ before \in Seq(S) /\ Len(before) = i - 1
      /\ \A j \in DOMAIN before : j \in DOMAIN s /\ before[j] = s[j]
  OBVIOUS
<1>2. /\ after \in Seq(S) /\ Len(after) = Len(s) - i
      /\ \A j \in DOMAIN after : i + j \in DOMAIN s /\ after[j] = s[i + j]
  OBVIOUS
<1>3. RemoveAt(s, i) = before \o after
  BY DEF RemoveAt
<1> HIDE DEF before, after
<1>4. before \o after \in Seq(S)
  BY <1>1, <1>2
<1>5. ASSUME NEW j \in DOMAIN (before \o after)
      PROVE  \E k \in DOMAIN s : (before \o after)[j] = s[k]
  <2>1. CASE j < i
    BY <1>1, <1>2, <2>1
  <2>2. CASE ~ (j < i)
    <3>1. (before \o after)[j] = after[j - (i - 1)] /\ j - (i - 1) \in DOMAIN after
      BY <1>1, <1>2, <1>4, <2>2
    <3> QED BY <1>2, <3>1
  <2> QED BY <2>1, <2>2
<1> QED BY <1>3, <1>4, <1>5

LEMMA SentType ==
  ASSUME NEW S, NEW net \in Seq(S), NEW m \in S, MovementAssumption
  PROVE  /\ Sent(net, m) \in Seq(S)
         /\ \A j \in DOMAIN Sent(net, m) :
              \/ Sent(net, m)[j] = m
              \/ \E k \in DOMAIN net : Sent(net, m)[j] = net[k]
<1> DEFINE kept == IF Len(net) < MaxInFlight THEN net ELSE Tail(net)
<1>1. kept \in Seq(S) /\ \A j \in DOMAIN kept : \E k \in DOMAIN net : kept[j] = net[k]
  <2>1. CASE Len(net) < MaxInFlight
    BY <2>1
  <2>2. CASE ~ (Len(net) < MaxInFlight)
    <3>1. net # <<>>
      BY <2>2 DEF MovementAssumption
    <3> QED BY <2>2, <3>1
  <2> QED BY <2>1, <2>2
<1>2. Sent(net, m) = Append(kept, m)
  BY DEF Sent
<1> HIDE DEF kept
<1> QED BY <1>1, <1>2

LEMMA OutdatedType ==
  ASSUME NEW net \in Seq(ServerUpdates), NEW i \in DOMAIN net
  PROVE  /\ Outdated(net, i) \in Seq(ServerUpdates)
         /\ DOMAIN Outdated(net, i) = DOMAIN net
         /\ \A j \in DOMAIN net : /\ Outdated(net, i)[j].pos = net[j].pos
                                  /\ Outdated(net, i)[j].state = net[j].state
                                  /\ net[j].old => Outdated(net, i)[j].old
<1>1. DOMAIN net = 1..Len(net) /\ Len(net) \in Nat
  OBVIOUS
<1>2. ASSUME NEW j \in DOMAIN net
      PROVE  LET u == [net[j] EXCEPT !.old = @ \/ j <= i]
             IN  /\ u \in ServerUpdates /\ u.pos = net[j].pos /\ u.state = net[j].state
                 /\ net[j].old => u.old
  <2>1. net[j] \in ServerUpdates /\ (net[j].old \/ j <= i) \in BOOLEAN
    OBVIOUS
  <2> QED BY <2>1 DEF ServerUpdates
<1>3. Outdated(net, i) = [j \in 1..Len(net) |-> [net[j] EXCEPT !.old = @ \/ j <= i]]
  BY <1>1 DEF Outdated
<1> DEFINE u(j) == [net[j] EXCEPT !.old = @ \/ j <= i]
<1>4. Outdated(net, i) = [j \in 1..Len(net) |-> u(j)]
  BY <1>3
<1>5. \A j \in 1..Len(net) :
        /\ u(j) \in ServerUpdates /\ u(j).pos = net[j].pos /\ u(j).state = net[j].state
        /\ net[j].old => u(j).old
  BY <1>1, <1>2
<1> HIDE DEF u
<1> QED BY <1>1, <1>4, <1>5

-----------------------------------------------------------------------------
(***************************************************************************)
(* Type correctness.                                                       *)
(***************************************************************************)

LEMMA MovedType ==
  ASSUME NEW pos \in Tiles, NEW s
  PROVE  Moved(pos, s) \in Tiles
BY DEF Moved, MayMove

LEMMA ProcessActionsType ==
  ASSUME MovementTypeOK, NEW stack \in Seq(Items)
  PROVE  ProcessActions(stack) \in Seq(Items)
<1>1. Added(stack) \in Seq(Items)
  <2>1. CASE NewBinding = {}
    BY <2>1 DEF Added
  <2>2. CASE NewBinding # {}
    <3>1. Bindings[NewBinding] \in States
      BY <2>2, StatesAreStates DEF NewBinding
    <3> QED BY <2>2, <3>1, PushStateType DEF Added
  <2> QED BY <2>1, <2>2
<1> QED BY <1>1, CancelStateType DEF Removed, ProcessActions

LEMMA ReceivedType ==
  ASSUME NEW m \in ClientUpdates
  PROVE  Received(m) \in Seq(Items)
<1>1. m.state \in States
  BY DEF ClientUpdates
<1>2. <<>> \in Seq(Items)
  OBVIOUS
<1> QED BY <1>1, <1>2, PushStateType DEF Received

LEMMA ClientFrameType == MovementTypeOK /\ ClientFrame => MovementTypeOK'
<1> SUFFICES ASSUME MovementTypeOK, ClientFrame PROVE MovementTypeOK'
  OBVIOUS
<1>1. PICK n \in 0..1 : ClientFrame!(n)
  BY DEF ClientFrame
<1> DEFINE taken  == n = 1
           stack0 == IF taken THEN Received(toClient[1]) ELSE cStack
           pos0   == IF taken THEN toClient[1].pos ELSE cPos
           s      == CurrentState(stack0, Idle)
           due    == cSince + 1 >= BroadcastFrames
           update == [pos |-> Moved(pos0, s), state |-> s, old |-> FALSE]
<1>2. /\ n <= Len(toClient)
      /\ toClient' = IF taken THEN Tail(toClient) ELSE toClient
      /\ cPos' = Moved(pos0, s)
      /\ cSince' = IF due THEN 0 ELSE cSince + 1
      /\ toServer' = IF due THEN Sent(toServer, update) ELSE toServer
      /\ cStack' = ProcessActions(Popped(stack0))
      /\ binding' = NewBinding
      /\ UNCHANGED <<keys, sStack, sPos, sSince, sForce, sLerp, warped>>
  BY <1>1 DEF ClientBroadcast, tickVars
<1>3. /\ toServer \in Seq(ServerUpdates) /\ toClient \in Seq(ClientUpdates)
      /\ cStack \in Seq(Items) /\ cPos \in Tiles /\ cSince \in 0..BroadcastFrames
  BY DEF MovementTypeOK, ServerUpdates, ClientUpdates
<1>4. stack0 \in Seq(Items) /\ pos0 \in Tiles
  <2>1. CASE taken
    <3>1. toClient[1] \in ClientUpdates
      BY <1>2, <1>3, <2>1
    <3> QED BY <2>1, <3>1, ReceivedType DEF ClientUpdates
  <2>2. CASE ~taken
    BY <1>3, <2>2
  <2> QED BY <2>1, <2>2
<1>5. s \in States
  BY <1>4, CurrentStateType
<1> HIDE DEF taken, stack0, pos0, s
<1>6. cPos' \in Tiles
  BY <1>2, <1>4, MovedType
<1>7. cStack' \in Seq(Items)
  BY <1>2, <1>4, PoppedType, ProcessActionsType
<1>8. toServer' \in Seq(ServerUpdates)
  <2>1. update \in ServerUpdates
    BY <1>2, <1>5, <1>6 DEF ServerUpdates
  <2> HIDE DEF update
  <2> QED BY <1>2, <1>3, <2>1, SentType, MovementAssumption
<1>9. toClient' \in Seq(ClientUpdates)
  <2>1. taken => toClient # <<>>
    BY <1>2, <1>3 DEF taken
  <2> QED BY <1>2, <1>3, <2>1
<1>10. cSince' \in 0..BroadcastFrames
  BY <1>2, <1>3, MovementAssumption DEF MovementAssumption
<1>11. binding' \in {{}} \cup DOMAIN Bindings
  BY <1>2 DEF NewBinding
<1> QED BY <1>2, <1>6, <1>7, <1>8, <1>9, <1>10, <1>11
        DEF MovementTypeOK, ServerUpdates, ClientUpdates

LEMMA ServerTickType == MovementTypeOK /\ ServerTick => MovementTypeOK'
<1> SUFFICES ASSUME MovementTypeOK, ServerTick PROVE MovementTypeOK'
  OBVIOUS
<1> DEFINE s      == CurrentState(sStack, Idle)
           warps  == TriggerActionTiles(sPos, s)
           due    == sSince + 1 >= BroadcastFrames
           forced == due /\ sForce
           update == [pos |-> Moved(sPos, s), state |-> s, lerp |-> sLerp, warped |-> warped]
<1>1. /\ sPos' = IF warps THEN WarpTo ELSE Moved(sPos, s)
      /\ sStack' = IF warps THEN <<>> ELSE Popped(sStack)
      /\ sSince' = IF due THEN 0 ELSE sSince + 1
      /\ toClient' = IF forced THEN Append(toClient, update) ELSE toClient
      /\ sForce' = (warps \/ (sForce /\ ~due))
      /\ sLerp' = (~warps /\ (sLerp \/ due))
      /\ warped' = (warps \/ (warped /\ ~due))
      /\ UNCHANGED <<keys, binding, cStack, cPos, cSince, toServer>>
  BY DEF ServerTick, clientVars
<1>2. /\ toClient \in Seq(ClientUpdates) /\ sLerp \in BOOLEAN /\ warped \in BOOLEAN
      /\ sStack \in Seq(Items) /\ sPos \in Tiles /\ sSince \in 0..BroadcastFrames
  BY DEF MovementTypeOK, ClientUpdates
<1>3. s \in States /\ Moved(sPos, s) \in Tiles
  BY <1>2, CurrentStateType, MovedType
<1>4. update \in ClientUpdates
  BY <1>2, <1>3 DEF ClientUpdates
<1> HIDE DEF s, warps, update
<1>5. toClient' \in Seq(ClientUpdates)
  BY <1>1, <1>2, <1>4
<1>6. sPos' \in Tiles
  BY <1>1, <1>3, MovementAssumption DEF MovementAssumption
<1>7. sStack' \in Seq(Items)
  <2>1. <<>> \in Seq(Items)
    OBVIOUS
  <2> QED BY <1>1, <1>2, <2>1, PoppedType
<1>8. sSince' \in 0..BroadcastFrames
  BY <1>1, <1>2, MovementAssumption DEF MovementAssumption
<1>9. sForce' \in BOOLEAN /\ sLerp' \in BOOLEAN /\ warped' \in BOOLEAN
  BY <1>1
<1> QED BY <1>1, <1>5, <1>6, <1>7, <1>8, <1>9 DEF MovementTypeOK, ClientUpdates

LEMMA UpdateType ==
  ASSUME MovementTypeOK, NEW i \in DOMAIN toServer,
         \/ \E stays \in BOOLEAN : ApplyUpdate(i, stays)
         \/ IgnoreUpdate(i)
         \/ LoseUpdate(i)
  PROVE  MovementTypeOK'
<1>1. toServer \in Seq(ServerUpdates)
  BY DEF MovementTypeOK, ServerUpdates
<1>2. ASSUME NEW stays \in BOOLEAN, ApplyUpdate(i, stays) PROVE MovementTypeOK'
  <2>1. Outdated(toServer, i) \in Seq(ServerUpdates) /\ i \in DOMAIN Outdated(toServer, i)
    BY <1>1, OutdatedType
  <2>2. toServer' \in Seq(ServerUpdates)
    BY <1>2, <2>1, RemoveAtType DEF ApplyUpdate
  <2>3. toServer[i].pos \in Tiles /\ toServer[i].state \in States
    <3>1. toServer[i] \in ServerUpdates
      BY <1>1
    <3> QED BY <3>1 DEF ServerUpdates
  <2>4. <<>> \in Seq(Items)
    OBVIOUS
  <2>5. sStack' \in Seq(Items)
    BY <1>2, <2>3, <2>4, PushStateType DEF ApplyUpdate
  <2> QED BY <1>2, <2>2, <2>3, <2>5
          DEF ApplyUpdate, MovementTypeOK, clientVars, tickVars, ServerUpdates
<1>3. CASE IgnoreUpdate(i) \/ LoseUpdate(i)
  <2>1. toServer' \in Seq(ServerUpdates)
    BY <1>1, <1>3, RemoveAtType DEF IgnoreUpdate, LoseUpdate
  <2> QED BY <1>3, <2>1
          DEF IgnoreUpdate, LoseUpdate, MovementTypeOK, clientVars, tickVars, ServerUpdates
<1> QED BY <1>2, <1>3

LEMMA TypeStep == MovementTypeOK /\ [MovementNext]_movementVars => MovementTypeOK'
<1> SUFFICES ASSUME MovementTypeOK, [MovementNext]_movementVars PROVE MovementTypeOK'
  OBVIOUS
<1>1. ASSUME NEW k \in Keys, Press(k) \/ Release(k) PROVE MovementTypeOK'
  BY <1>1 DEF Press, Release, MovementTypeOK, tickVars
<1>2. CASE UNCHANGED movementVars
  BY <1>2 DEF MovementTypeOK, movementVars, clientVars, tickVars
<1> QED BY <1>1, <1>2, ClientFrameType, ServerTickType, UpdateType DEF MovementNext

\* In every reachable state both characters stand on the map, in states of
\* the key bindings, and every update under way says so: no move, warp, lost
\* or repeated update takes a character off the row of tiles.
THEOREM TypeCorrect == MovementSpec => []MovementTypeOK
<1>1. MovementInit => MovementTypeOK
  <2> SUFFICES ASSUME MovementInit PROVE MovementTypeOK
    OBVIOUS
  <2>1. 0 \in Tiles /\ 0 \in 0..BroadcastFrames
    BY MovementAssumption DEF MovementAssumption, Tiles
  <2>2. /\ cStack \in Seq(Items) /\ sStack \in Seq(Items)
        /\ toServer \in Seq(ServerUpdates) /\ toClient \in Seq(ClientUpdates)
    BY DEF MovementInit
  <2> QED BY <2>1, <2>2 DEF MovementInit, MovementTypeOK, ServerUpdates, ClientUpdates
<1> QED BY <1>1, TypeStep, PTL DEF MovementSpec

-----------------------------------------------------------------------------
(***************************************************************************)
(* A character at rest stays at rest.                                      *)
(***************************************************************************)

\* An update that moves nobody who rests at the position.
Harmless(u, pos) == u.old \/ (u.pos = pos /\ u.state = Idle)

AtRest ==
  /\ keys = {} /\ binding = {} /\ CurrentState(cStack, Idle) = Idle
  /\ CurrentState(sStack, Idle) = Idle /\ sPos = cPos
  /\ ~sForce /\ toClient = <<>>
  /\ \A i \in DOMAIN toServer : Harmless(toServer[i], cPos)

LEMMA SyncedMeans == Synced <=> AtRest
<1>1. ASSUME NEW p, NEW s
      PROVE  [pos |-> p, state |-> s] = Rest(cPos) <=> p = cPos /\ s = Idle
  <2>1. ASSUME [pos |-> p, state |-> s] = Rest(cPos) PROVE p = cPos /\ s = Idle
    <3>1. /\ [pos |-> p, state |-> s].pos = p /\ [pos |-> p, state |-> s].state = s
          /\ Rest(cPos).pos = cPos /\ Rest(cPos).state = Idle
      BY DEF Rest
    <3> QED BY <2>1, <3>1
  <2> QED BY <2>1 DEF Rest
<1> QED BY <1>1 DEF Synced, AtRest, Harmless

LEMMA RestDoesNotMove ==
  ASSUME NEW pos
  PROVE  Moved(pos, Idle) = pos /\ ~TriggerActionTiles(pos, Idle)
BY DEF Moved, MayMove, TriggerActionTiles

\* Without keys and without a binding, the actions leave the stack as it is.
LEMMA NoKeysNoAction ==
  ASSUME NEW stack, keys = {}, binding = {}
  PROVE  NewBinding = {} /\ ProcessActions(stack) = stack
<1>1. {} \notin DOMAIN Bindings
  BY DEF Bindings
<1> QED BY <1>1 DEF NewBinding, ProcessActions, Added, Removed

LEMMA ClientFrameSynced == MovementTypeOK /\ AtRest /\ ClientFrame => AtRest'
<1> SUFFICES ASSUME MovementTypeOK, AtRest, ClientFrame PROVE AtRest'
  OBVIOUS
<1>1. PICK n \in 0..1 : ClientFrame!(n)
  BY DEF ClientFrame
<1> DEFINE due    == cSince + 1 >= BroadcastFrames
           update == [pos |-> cPos, state |-> Idle, old |-> FALSE]
<1>2. n = 0
  BY <1>1 DEF AtRest
<1>3. CurrentState(cStack, Idle) = Idle /\ Moved(cPos, Idle) = cPos
  BY RestDoesNotMove DEF AtRest
<1>4. /\ toClient' = toClient /\ cPos' = cPos
      /\ toServer' = IF due THEN Sent(toServer, update) ELSE toServer
      /\ cStack' = ProcessActions(Popped(cStack))
      /\ binding' = NewBinding
      /\ UNCHANGED <<keys, sStack, sPos, sForce>>
  BY <1>1, <1>2, <1>3 DEF ClientBroadcast, tickVars
<1>5. cStack' = Popped(cStack) /\ binding' = {}
  BY <1>4, NoKeysNoAction DEF AtRest
<1>6. cStack \in Seq(Items) /\ toServer \in Seq(ServerUpdates) /\ cPos \in Tiles
  BY DEF MovementTypeOK, ServerUpdates
<1>7. CurrentState(cStack', Idle) = Idle
  BY <1>3, <1>5, <1>6, PoppedKeepsCurrent
<1>8. \A i \in DOMAIN toServer' : Harmless(toServer'[i], cPos)
  <2>1. update \in ServerUpdates /\ Harmless(update, cPos)
    BY <1>6, StatesAreStates DEF ServerUpdates, Harmless
  <2>2. \A i \in DOMAIN toServer : Harmless(toServer[i], cPos)
    BY DEF AtRest
  <2> HIDE DEF update, due
  <2>3. CASE due
    <3>1. \A j \in DOMAIN Sent(toServer, update) :
            \/ Sent(toServer, update)[j] = update
            \/ \E k \in DOMAIN toServer : Sent(toServer, update)[j] = toServer[k]
      BY <1>6, <2>1, SentType, MovementAssumption
    <3> QED BY <1>4, <2>1, <2>2, <2>3, <3>1
  <2>4. CASE ~due
    BY <1>4, <2>2, <2>4
  <2> QED BY <2>3, <2>4
<1> QED BY <1>4, <1>5, <1>7, <1>8 DEF AtRest, Harmless

LEMMA ServerTickSynced == MovementTypeOK /\ AtRest /\ ServerTick => AtRest'
<1> SUFFICES ASSUME MovementTypeOK, AtRest, ServerTick PROVE AtRest'
  OBVIOUS
<1>1. CurrentState(sStack, Idle) = Idle /\ sPos = cPos /\ ~sForce
  BY DEF AtRest
<1>2. Moved(sPos, Idle) = sPos /\ ~TriggerActionTiles(sPos, Idle)
  BY RestDoesNotMove
<1>3. /\ sPos' = sPos /\ sStack' = Popped(sStack) /\ ~sForce'
      /\ UNCHANGED <<keys, binding, cStack, cPos, toServer, toClient>>
  BY <1>1, <1>2 DEF ServerTick, clientVars
<1>4. CurrentState(sStack', Idle) = Idle
  <2>1. sStack \in Seq(Items)
    BY DEF MovementTypeOK
  <2> QED BY <1>1, <1>3, <2>1, PoppedKeepsCurrent
<1> QED BY <1>3, <1>4 DEF AtRest, Harmless

LEMMA UpdateSynced ==
  ASSUME MovementTypeOK, AtRest, NEW i \in DOMAIN toServer,
         \/ \E stays \in BOOLEAN : ApplyUpdate(i, stays)
         \/ IgnoreUpdate(i)
         \/ LoseUpdate(i)
  PROVE  AtRest'
<1>1. toServer \in Seq(ServerUpdates)
  BY DEF MovementTypeOK, ServerUpdates
<1>2. \A j \in DOMAIN toServer : Harmless(toServer[j], cPos)
  BY DEF AtRest
<1>3. ASSUME NEW stays \in BOOLEAN, ApplyUpdate(i, stays) PROVE AtRest'
  <2> DEFINE outdated == Outdated(toServer, i)
  <2>1. toServer[i].pos = cPos /\ toServer[i].state = Idle
    BY <1>2, <1>3 DEF ApplyUpdate, IsNew, Harmless
  <2>2. sPos' = cPos /\ sStack' = PushState(<<>>, Idle)
    BY <1>3, <2>1 DEF ApplyUpdate
  <2>3. CurrentState(sStack', Idle) = Idle
    BY <2>2, FirstPushed, StatesAreStates
  <2>4. /\ outdated \in Seq(ServerUpdates) /\ DOMAIN outdated = DOMAIN toServer
        /\ \A j \in DOMAIN outdated : Harmless(outdated[j], cPos)
    BY <1>1, <1>2, OutdatedType DEF Harmless
  <2>5. toServer' = IF stays THEN outdated ELSE RemoveAt(outdated, i)
    BY <1>3 DEF ApplyUpdate
  <2> HIDE DEF outdated
  <2>6. \A j \in DOMAIN toServer' : Harmless(toServer'[j], cPos)
    <3>1. CASE stays
      BY <2>4, <2>5, <3>1
    <3>2. CASE ~stays
      <4>1. \A j \in DOMAIN RemoveAt(outdated, i) :
              \E k \in DOMAIN outdated : RemoveAt(outdated, i)[j] = outdated[k]
        BY <2>4, RemoveAtType
      <4> QED BY <2>4, <2>5, <3>2, <4>1
    <3> QED BY <3>1, <3>2
  <2> QED BY <1>3, <2>2, <2>3, <2>6 DEF ApplyUpdate, AtRest, Harmless, clientVars, tickVars
<1>4. CASE IgnoreUpdate(i) \/ LoseUpdate(i)
  <2>1. toServer' = RemoveAt(toServer, i)
    BY <1>4 DEF IgnoreUpdate, LoseUpdate
  <2>2. \A j \in DOMAIN toServer' : Harmless(toServer'[j], cPos)
    BY <1>1, <1>2, <2>1, RemoveAtType
  <2> QED BY <1>4, <2>2 DEF IgnoreUpdate, LoseUpdate, AtRest, Harmless, clientVars, tickVars
<1> QED BY <1>3, <1>4

\* Once client and server agree about a character at rest, no update still
\* under way (old, repeated, overtaken) and no tick of either side moves it:
\* only a key does.
THEOREM RestIsStable == MovementSpec => StaysSynced
<1>1. MovementTypeOK /\ [MovementNext]_movementVars
        => [AtRest => AtRest' \/ keys' # {}]_movementVars
  <2> SUFFICES ASSUME MovementTypeOK, MovementNext, AtRest, keys' = {} PROVE AtRest'
    OBVIOUS
  <2>1. ASSUME NEW k \in Keys, Press(k) \/ Release(k) PROVE FALSE
    BY <2>1 DEF Press, Release, AtRest
  <2> QED BY <2>1, ClientFrameSynced, ServerTickSynced, UpdateSynced DEF MovementNext
<1> QED BY <1>1, TypeCorrect, SyncedMeans, PTL DEF MovementSpec, StaysSynced
=============================================================================

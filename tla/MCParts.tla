------------------------------ MODULE MCParts ------------------------------
(***************************************************************************)
(* Five parts that share no variable, checked together: the packets        *)
(* between client and server, an island of both sides, the interface of    *)
(* the client, the databases of the server, a character's movement.  As no *)
(* step of one can change what the properties of another are about, one    *)
(* part moves in each behaviour and the others stay as they began.         *)
(***************************************************************************)
EXTENDS Packets, Islands, UserInterface, Persistence, Movement

VARIABLE part

(* Fields of packets: small, with all bytes in use, and texts of lengths 0, 1, 3. *)
FieldSamples ==
  [bool |-> <<FALSE, TRUE, FALSE>>, u8 |-> <<1, 2, 255>>, u32 |-> <<0, 258, 65536>>,
   i32 |-> <<0, -3, 70000>>, u64 |-> <<1, 65537, 16777216>>, text |-> <<<<>>, <<7>>, <<7, 8, 9>>>>]

(* Plots with one picture and with two, on one tile set and on two, and one *)
(* that shares a picture with another; binary and JSON files of two layers.  *)
Frame(s, i, t) == [set |-> s, index |-> i, time |-> t]
Plot(n, frames, forbids) == [name |-> n, frames |-> frames, forbids |-> forbids]
Grass == Plot("grass", <<Frame("ground", 0, 0)>>, {})
Water == Plot("water", <<Frame("ground", 1, 1), Frame("ground", 2, 2)>>, {"walk", "run"})
Fire == Plot("fire", <<Frame("ground", 3, 1), Frame("ground", 4, 1)>>, {"walk"})
Puddle == Plot("puddle", <<Frame("ground", 1, 0)>>, {"run"})
Rock == Plot("rock", <<Frame("stones", 5, 0)>>, {"run"})
SomePlots == {<<Grass, Water, Fire>>, <<Grass, Rock, Water>>, <<Grass, Water, Puddle>>}

SomeGrids ==
  {[json |-> FALSE, layers |-> <<[grid |-> g], [grid |-> h]>>] :
     g \in [Cells -> {-1, 0, 1, 2}], h \in [Cells -> {-1, 2}]}
Region(n, x, w) == [name |-> n, x |-> x, y |-> 0, w |-> w, h |-> 1]
Layer(default, regions, single) == [default |-> default, regions |-> regions, plots |-> single]
SomeJson ==
  {[json |-> TRUE, layers |-> <<Layer(d, r, p), Layer("", r, <<>>)>>] :
     d \in {"", "grass", "nowhere"},
     r \in {<<>>, <<Region("water", 0, 1)>>, <<Region("rock", 1, 5), Region("water", 1, 1)>>},
     p \in {<<>>, <<[name |-> "fire", x |-> 1, y |-> 0]>>}}
SomeFiles == SomeGrids \cup SomeJson \cup {[j EXCEPT !.layers = <<@[1]>>] : j \in SomeJson}

(* A chat box that scrolls, with an entry inside that reaches beyond it, a
   button over both, and the mouse cursor on top. *)
UIControls == {"base", "chat", "entry", "button", "cursor"}
UIOrder == <<"chat", "entry", "button", "cursor">>
UIParents == [chat |-> "base", entry |-> "chat", button |-> "base", cursor |-> "base"]
UIKinds == [base |-> "canvas", chat |-> "label", entry |-> "texture", button |-> "texture",
            cursor |-> "mouseCursor"]
UIPlaced == [chat |-> 0, entry |-> 50, button |-> 50, cursor |-> 0]
UISized == [chat |-> 75, entry |-> 75, button |-> 50, cursor |-> 25]
UIFits == [c \in UIControls |-> IF c = "chat" THEN "free" ELSE "fit"]
UIFirst == [chat |-> "hello"]
UIHeights == [hello |-> 3, history |-> 6]

Assign(k, c, v) == [kind |-> k, control |-> c, value |-> v]
UIScripts ==
  {NoScript, <<Assign("pos_y", "button", 2), Assign("is_visible", "entry", FALSE), Assign("text", "chat", "history")>>}

(* Two worlds and a place off the metre. *)
SomeWorlds == [meadow |-> <<0, 0>>, cave |-> <<0, 0>>]
SomeSpots == {<<5, 2>>}

(* Three tiles in a row; nobody may run onto the first one. *)
NoRunHome == [t \in Tiles |-> IF t = 0 THEN {"run"} ELSE {}]

-----------------------------------------------------------------------------
Init ==
  /\ part \in {"packets", "islands", "interface", "databases", "movement"}
  /\ PacketsInit /\ IslandsInit /\ UIInit /\ PersistenceInit /\ MovementInit
  /\ part # "islands" => plots = <<Grass, Water, Fire>> /\ file = CHOOSE f \in SomeFiles : TRUE
  /\ part # "interface" => screen = 8 /\ tree = Loaded[8][NoScript]

Next ==
  /\ UNCHANGED part
  /\ \/ /\ part = "packets" /\ PacketsNext
        /\ UNCHANGED <<islandVars, uiVars, persistenceVars, movementVars>>
     \/ /\ part = "islands" /\ IslandsNext
        /\ UNCHANGED <<packetVars, uiVars, persistenceVars, movementVars>>
     \/ /\ part = "interface" /\ UINext
        /\ UNCHANGED <<packetVars, islandVars, persistenceVars, movementVars>>
     \/ /\ part = "databases" /\ PersistenceNext
        /\ UNCHANGED <<packetVars, islandVars, uiVars, movementVars>>
     \/ /\ part = "movement" /\ MovementNext
        /\ UNCHANGED <<packetVars, islandVars, uiVars, persistenceVars>>

(* The loops of client and server go on; of the updates a client sends again *)
(* and again, some arrive.                                                 *)
Fairness ==
  LET Goes(A) == part = "movement" /\ A IN
  /\ WF_movementVars(Goes(ClientFrame)) /\ WF_movementVars(Goes(ServerTick))
  /\ SF_movementVars(Goes(\E i \in DOMAIN toServer : \E stays \in BOOLEAN : ApplyUpdate(i, stays)))

Spec == Init /\ [][Next]_<<part, packetVars, islandVars, uiVars, persistenceVars, movementVars>> /\ Fairness
=============================================================================

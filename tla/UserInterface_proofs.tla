------------------------- MODULE UserInterface_proofs -------------------------
(***************************************************************************)
(* Proofs about UserInterface, for any tree of controls, any screen and    *)
(* any scripts: to whom the keyboard belongs, that a drag goes on, that    *)
(* no cached flag of visibility is stale but where a label scrolls and     *)
(* the cursor is, and that a click goes to what is seen.  The first two do *)
(* not look into the tree: what is hit at a point is a control or None,    *)
(* whichever.                                                              *)
(***************************************************************************)
EXTENDS UserInterface, SequenceTheorems, WellFoundedInduction, TLAPS

Pointer(y, focused, over, drag) == [y |-> y, focused |-> focused, over |-> over, drag |-> drag]

\* The mouse and the pointer are records, whatever is in them.
Records ==
  /\ \E y, down, clicked : mouse = [y |-> y, down |-> down, clicked |-> clicked]
  /\ \E y, focused, over, drag : pointer = Pointer(y, focused, over, drag)

(* The mapping of the interface lies on the one of the game while a control has
   the focus, and only then; a character walks only where one listens, and not
   while the interface has the keyboard, once the frame has read it. *)
Keyboard ==
  /\ inFocus = IsOnControl(pointer.focused)
  /\ mappings = IF inFocus THEN <<"ui", "game">> ELSE <<"game">>
  /\ ~hasEntity => ~walking
  /\ phase = "events" => ~(walking /\ inFocus)

UIInv == Records /\ Keyboard

-----------------------------------------------------------------------------
(***************************************************************************)
(* What the handlers of a tick leave of a pointer.                         *)
(***************************************************************************)

LEMMA PointerFields ==
  ASSUME NEW y, NEW focused, NEW over, NEW drag
  PROVE  /\ Pointer(y, focused, over, drag).focused = focused
         /\ Pointer(y, focused, over, drag).drag = drag
BY DEF Pointer

\* HandleDrag: its focus, and the drag that there is.
LEMMA DragKeeps ==
  ASSUME NEW t, NEW y, NEW focused, NEW over, NEW drag, NEW e
  PROVE  \E z, c : /\ HandleDrag(t, Pointer(y, focused, over, drag), e).pointer = Pointer(z, focused, over, c)
                   /\ drag # None => c = drag
<1> DEFINE p == Pointer(y, focused, over, drag)
           c == DragControl(t, p, mouse.y)
           moved == IF Answers(t, c) /\ c \in Free
                    THEN Dragged(RunScript(t, e), c, Wrap(mouse.y - p.y)) ELSE t
<1>1. CASE mouse.y = p.y
  <2>1. HandleDrag(t, p, e).pointer = p
    BY <1>1 DEF HandleDrag
  <2> QED BY <2>1
<1>2. CASE mouse.y # p.y
  <2>1. HandleDrag(t, p, e) = [tree |-> moved, pointer |-> [p EXCEPT !.y = mouse.y, !.drag = c]]
    BY <1>2 DEF HandleDrag
  <2>2. drag # None => c = drag
    BY DEF DragControl, Pointer
  <2> DEFINE here == mouse.y
             there == Pointer(here, focused, over, drag)
  <2> HIDE DEF moved, c, here
  <2>3. HandleDrag(t, p, e).pointer = [[p EXCEPT !.y = here] EXCEPT !.drag = c]
    BY <2>1 DEF here
  <2>4. [p EXCEPT !.y = here] = there
    BY DEF Pointer
  <2>5. [there EXCEPT !.drag = c] = Pointer(here, focused, over, c)
    BY DEF Pointer
  <2> HIDE DEF p, there
  <2>6. HandleDrag(t, p, e).pointer = Pointer(here, focused, over, c)
    BY <2>3, <2>4, <2>5
  <2> QED BY <2>2, <2>6 DEF p
<1> QED BY <1>1, <1>2

\* HandleMoveMouse: the focus, and no drag.
LEMMA MoveKeeps ==
  ASSUME NEW t, NEW y, NEW focused, NEW over, NEW drag, NEW e, NEW f
  PROVE  \E z, c : HandleMoveMouse(t, Pointer(y, focused, over, drag), e, f).pointer = Pointer(z, focused, c, None)
<1> DEFINE p == Pointer(y, focused, over, drag)
           up == [p EXCEPT !.drag = None]
           c == GetFocusedControlAtPoint(t, mouse.y)
           after == IF c = p.over THEN t
                    ELSE Entered(IF Answers(t, p.over) THEN RunScript(t, e) ELSE t, c, f)
<1>1. HandleMoveMouse(t, p, e, f) =
        IF mouse.y = p.y THEN [tree |-> t, pointer |-> up]
        ELSE [tree |-> after, pointer |-> [up EXCEPT !.y = mouse.y, !.over = c]]
  BY DEF HandleMoveMouse
<1> DEFINE here == mouse.y
           there == Pointer(here, focused, over, None)
<1> HIDE DEF after, c, here
<1>2. up = Pointer(y, focused, over, None)
  BY DEF Pointer
<1> HIDE DEF up
<1>3. [up EXCEPT !.y = here] = there
  BY <1>2 DEF Pointer
<1>4. [there EXCEPT !.over = c] = Pointer(here, focused, c, None)
  BY DEF Pointer
<1> HIDE DEF p, there
<1>5. \/ HandleMoveMouse(t, p, e, f).pointer = up
      \/ HandleMoveMouse(t, p, e, f).pointer = [[up EXCEPT !.y = here] EXCEPT !.over = c]
  BY <1>1 DEF here
<1>6. \/ HandleMoveMouse(t, p, e, f).pointer = Pointer(y, focused, over, None)
      \/ HandleMoveMouse(t, p, e, f).pointer = Pointer(here, focused, c, None)
  <2>1. [[up EXCEPT !.y = here] EXCEPT !.over = c] = [there EXCEPT !.over = c]
    BY <1>3
  <2> QED BY <1>2, <1>4, <1>5, <2>1
<1> QED BY <1>6 DEF p

(* WorldScene::Tick: a click moves the focus and the mapping together;
   while the button is down, a drag stays, and afterwards there is none. *)
LEMMA TickKeeps ==
  ASSUME NEW e, NEW f, NEW debug, Tick(e, f, debug), Records
  PROVE  /\ phase = "events" /\ phase' = "input" /\ UNCHANGED <<hasEntity, walking>>
         /\ Records'
         /\ ~mouse.clicked => /\ pointer'.focused = pointer.focused
                              /\ inFocus' = inFocus /\ mappings' = mappings
         /\ mouse.clicked => /\ inFocus' = IsOnControl(pointer'.focused)
                             /\ mappings' = PushedMapping(IsOnControl(pointer'.focused))
         /\ pointer.drag # None => pointer'.drag = pointer.drag \/ (pointer'.drag = None /\ ~mouse.down)
<1>1. PICK y, old, over, drag : pointer = Pointer(y, old, over, drag)
  BY DEF Records
<1> DEFINE focused == IF mouse.clicked THEN GetFocusedControlAtPoint(tree, mouse.y) ELSE pointer.focused
           clicked == IF mouse.clicked /\ Answers(tree, focused) /\ IsPointInControl(tree, focused, mouse.y)
                      THEN RunScript(tree, e) ELSE tree
           p == [pointer EXCEPT !.focused = focused]
           q == Pointer(y, focused, over, drag)
<1>2. /\ phase = "events" /\ phase' = "input" /\ UNCHANGED <<hasEntity, walking>>
      /\ inFocus' = IF mouse.clicked THEN IsOnControl(focused) ELSE inFocus
      /\ mappings' = IF mouse.clicked THEN PushedMapping(IsOnControl(focused)) ELSE mappings
      /\ mouse' = [mouse EXCEPT !.clicked = FALSE]
      /\ pointer' = (IF mouse.down THEN HandleDrag(clicked, p, f) ELSE HandleMoveMouse(clicked, p, e, f)).pointer
  BY DEF Tick
<1>3. ~mouse.clicked => focused = old
  BY <1>1, PointerFields
<1> HIDE DEF focused, clicked
<1>4. p = q
  BY <1>1 DEF Pointer
<1> HIDE DEF p, q
<1>5. \E z, o, c : /\ pointer' = Pointer(z, focused, o, c)
                   /\ drag # None => c = drag \/ (c = None /\ ~mouse.down)
  <2>1. CASE mouse.down
    <3>1. pointer' = HandleDrag(clicked, q, f).pointer
      BY <1>2, <1>4, <2>1
    <3> QED BY <3>1, DragKeeps DEF q
  <2>2. CASE ~mouse.down
    <3>1. pointer' = HandleMoveMouse(clicked, q, e, f).pointer
      BY <1>2, <1>4, <2>2
    <3> QED BY <3>1, <2>2, MoveKeeps DEF q
  <2> QED BY <2>1, <2>2
<1>6. /\ \E z, o, c : pointer' = Pointer(z, focused, o, c)
      /\ pointer'.focused = focused
      /\ pointer.focused = old /\ pointer.drag = drag
      /\ drag # None => pointer'.drag = drag \/ (pointer'.drag = None /\ ~mouse.down)
  BY <1>1, <1>5, PointerFields
<1>7. Records'
  <2>1. PICK my, down, mc : mouse = [y |-> my, down |-> down, clicked |-> mc]
    BY DEF Records
  <2>2. mouse' = [y |-> my, down |-> down, clicked |-> FALSE]
    BY <1>2, <2>1
  <2> QED BY <1>6, <2>2 DEF Records
<1>8. ~mouse.clicked => pointer'.focused = pointer.focused /\ inFocus' = inFocus /\ mappings' = mappings
  BY <1>2, <1>3, <1>6
<1>9. mouse.clicked => /\ inFocus' = IsOnControl(pointer'.focused)
                       /\ mappings' = PushedMapping(IsOnControl(pointer'.focused))
  BY <1>2, <1>6
<1> QED BY <1>2, <1>6, <1>7, <1>8, <1>9


-----------------------------------------------------------------------------
(***************************************************************************)
(* To whom the keyboard belongs.                                           *)
(***************************************************************************)

LEMMA PairOfSingles ==
  ASSUME NEW a, NEW b
  PROVE  <<a>> \o <<b>> = <<a, b>>
<1> DEFINE S == {a, b}
           s == <<a>>
           t == <<b>>
           u == s \o t
           v == <<a, b>>
<1>1. s \in Seq(S) /\ Len(s) = 1 /\ s[1] = a
  OBVIOUS
<1>2. t \in Seq(S) /\ Len(t) = 1 /\ t[1] = b
  OBVIOUS
<1>3. v \in Seq(S) /\ Len(v) = 2 /\ v[1] = a /\ v[2] = b
  OBVIOUS
<1> HIDE DEF S, s, t, v
<1>4. u \in Seq(S) /\ Len(u) = Len(s) + Len(t) /\ u[1] = a /\ u[2] = b
  BY <1>1, <1>2, ConcatProperties
<1>5. Len(u) = 2
  BY <1>1, <1>2, <1>4
<1> HIDE DEF u
<1>6. \A i \in 1..Len(u) : u[i] = v[i]
  <2>1. \A i \in 1..2 : i = 1 \/ i = 2
    OBVIOUS
  <2> QED BY <1>3, <1>4, <1>5, <2>1
<1>7. u = v
  BY <1>3, <1>4, <1>5, <1>6, SeqEqual
<1> QED BY <1>7 DEF s, t, u, v

\* What a click does to the mappings, whatever had the focus before it.
LEMMA MappingFollows ==
  ASSUME NEW on \in BOOLEAN, inFocus \in BOOLEAN,
         mappings = IF inFocus THEN <<"ui", "game">> ELSE <<"game">>
  PROVE  PushedMapping(on) = IF on THEN <<"ui", "game">> ELSE <<"game">>
<1>1. <<"ui">> \o <<"game">> = <<"ui", "game">>
  BY PairOfSingles
<1>2. Tail(<<"ui", "game">>) = <<"game">>
  OBVIOUS
<1>3. CASE inFocus
  BY <1>2, <1>3 DEF PushedMapping
<1>4. CASE ~inFocus
  BY <1>1, <1>4 DEF PushedMapping
<1> QED BY <1>3, <1>4

LEMMA InvInit ==
  ASSUME UIInit
  PROVE  UIInv
<1>1. Records
  BY DEF UIInit, NewPointer, Pointer, Records
<1>2. Keyboard
  BY DEF UIInit, NewPointer, Keyboard, IsOnControl
<1> QED BY <1>1, <1>2 DEF UIInv

LEMMA InvStep ==
  ASSUME UIInv, [UINext]_uiVars
  PROVE  UIInv'
<1> USE DEF UIInv
<1>0. inFocus \in BOOLEAN
  BY DEF Keyboard, IsOnControl
<1>1. ASSUME NEW y \in MousePositions, MoveMouse(y)
      PROVE  UIInv'
  <2>1. Records'
    BY <1>1 DEF MoveMouse, Records
  <2> QED BY <2>1, <1>1 DEF MoveMouse, Keyboard, IsOnControl
<1>2. ASSUME SetButtonState
      PROVE  UIInv'
  <2>1. Records'
    BY <1>2 DEF SetButtonState, Records
  <2> QED BY <2>1, <1>2 DEF SetButtonState, Keyboard, IsOnControl
<1>3. ASSUME NEW height \in ScreenHeights, ReconfirmSize(height)
      PROVE  UIInv'
  BY <1>3 DEF ReconfirmSize, Records, Keyboard, IsOnControl
<1>4. ASSUME OnPlayerCharacterAdd
      PROVE  UIInv'
  BY <1>4 DEF OnPlayerCharacterAdd, Records, Keyboard, IsOnControl
<1>5. ASSUME NEW e, NEW f, NEW debug, Tick(e, f, debug)
      PROVE  UIInv'
  <2>1. /\ Records' /\ phase' = "input" /\ UNCHANGED <<hasEntity, walking>>
        /\ ~mouse.clicked => /\ pointer'.focused = pointer.focused
                             /\ inFocus' = inFocus /\ mappings' = mappings
        /\ mouse.clicked => /\ inFocus' = IsOnControl(pointer'.focused)
                            /\ mappings' = PushedMapping(IsOnControl(pointer'.focused))
    BY <1>5, TickKeeps
  <2>2. /\ inFocus' = IsOnControl(pointer'.focused)
        /\ mappings' = IF inFocus' THEN <<"ui", "game">> ELSE <<"game">>
    <3>1. CASE mouse.clicked
      <4>1. IsOnControl(pointer'.focused) \in BOOLEAN
        BY DEF IsOnControl
      <4> QED BY <1>0, <2>1, <3>1, <4>1, MappingFollows DEF Keyboard
    <3>2. CASE ~mouse.clicked
      BY <2>1, <3>2 DEF Keyboard
    <3> QED BY <3>1, <3>2
  <2>3. (~hasEntity => ~walking)'
    BY <2>1 DEF Keyboard
  <2>4. IsOnControl(pointer.focused)' = IsOnControl(pointer'.focused)
    BY DEF IsOnControl
  <2> QED BY <2>1, <2>2, <2>3, <2>4 DEF Keyboard
<1>6. ASSUME NEW e \in Scripts, NEW keyDown \in BOOLEAN, UpdateInput(e, keyDown)
      PROVE  UIInv'
  <2>1. UNCHANGED <<mouse, pointer, inFocus, mappings, hasEntity>> /\ walking' = WalkingNow(keyDown)
    BY <1>6 DEF UpdateInput
  <2>2. Records'
    BY <2>1 DEF Records
  <2>3. inFocus => mappings # <<>> /\ mappings[1] = "ui"
    BY DEF Keyboard
  <2>4. /\ ~hasEntity => ~walking'
        /\ hasEntity /\ inFocus => ~walking'
    BY <2>1, <2>3 DEF WalkingNow, Keyboard
  <2> QED BY <2>1, <2>2, <2>4 DEF Keyboard, IsOnControl
<1>7. ASSUME NEW e \in Scripts, InitializeScene(e)
      PROVE  UIInv'
  <2>1. Records'
    BY <1>7 DEF InitializeScene, NewPointer, Pointer, Records
  <2> QED BY <2>1, <1>7 DEF InitializeScene, NewPointer, Keyboard, IsOnControl
<1>8. ASSUME NEW e \in Scripts, SendMessage(e)
      PROVE  UIInv'
  BY <1>8 DEF SendMessage, Records, Keyboard, IsOnControl
<1>9. CASE UNCHANGED uiVars
  BY <1>9 DEF uiVars, Records, Keyboard, IsOnControl
<1> QED BY <1>1, <1>2, <1>3, <1>4, <1>5, <1>6, <1>7, <1>8, <1>9 DEF UINext

LEMMA InvHolds == UISpec => []UIInv
<1> QED BY InvInit, InvStep, PTL DEF UISpec

LEMMA KeyboardMeans ==
  ASSUME UIInv
  PROVE  KeyboardFollowsFocus
<1>1. inFocus \in BOOLEAN
  BY DEF UIInv, Keyboard, IsOnControl
<1>2. Len(mappings) = IF inFocus THEN 2 ELSE 1
  BY <1>1 DEF UIInv, Keyboard
<1> QED BY <1>2 DEF UIInv, Keyboard, KeyboardFollowsFocus

(* WorldScene::UpdateUI pushes and pops the key mapping of the interface as the
   clicks move the focus on to a control and off it: whatever scripts move,
   hide or disable in between, and however often a control is clicked, the two
   agree, and no key makes the character walk while the interface has it. *)
THEOREM KeyboardHasOneOwner == UISpec => []KeyboardFollowsFocus
<1> QED BY InvHolds, KeyboardMeans, PTL

-----------------------------------------------------------------------------
(***************************************************************************)
(* Drags.                                                                  *)
(***************************************************************************)

LEMMA DragStep ==
  ASSUME UIInv, [UINext]_uiVars
  PROVE  [pointer.drag # None /\ pointer'.drag # pointer.drag =>
            pointer'.drag = None /\ (~mouse.down \/ \E onLoad \in Scripts : InitializeScene(onLoad))]_uiVars
<1> SUFFICES ASSUME UINext, pointer.drag # None, pointer'.drag # pointer.drag
             PROVE  pointer'.drag = None /\ (~mouse.down \/ \E onLoad \in Scripts : InitializeScene(onLoad))
  OBVIOUS
<1>1. \/ UNCHANGED pointer
      \/ \E e, f, debug : Tick(e, f, debug)
      \/ \E onLoad \in Scripts : InitializeScene(onLoad)
  BY DEF UINext, MoveMouse, SetButtonState, ReconfirmSize, OnPlayerCharacterAdd, SendMessage, UpdateInput
<1>2. ASSUME NEW e, NEW f, NEW debug, Tick(e, f, debug)
      PROVE  pointer'.drag = None /\ ~mouse.down
  BY <1>2, TickKeeps DEF UIInv
<1>3. ASSUME NEW onLoad \in Scripts, InitializeScene(onLoad)
      PROVE  pointer'.drag = None
  BY <1>3 DEF InitializeScene, NewPointer
<1> QED BY <1>1, <1>2, <1>3

(* UI::HandleDrag goes on with the control it has, wherever the mouse is:
   only UI::HandleMouseUp, and a new interface, end a drag. *)
THEOREM DragsGoOn == UISpec => DragGoesOn
<1> QED BY InvHolds, DragStep, PTL DEF UISpec, DragGoesOn

-----------------------------------------------------------------------------
(***************************************************************************)
(* The tree of controls.  What is computed from a parent to its children   *)
(* is a recursive function over the tree; that it exists is shown by       *)
(* growing it in the order in which controls are loaded, parents first.    *)
(***************************************************************************)

\* What holds at the beginning of a loop and is kept by each round holds at its end.
LEMMA Rounds ==
  ASSUME NEW N \in Nat, NEW T, 0 \in T, \A n \in 1..N : n - 1 \in T => n \in T
  PROVE  N \in T
<1> DEFINE S == {n \in 0..N : n \notin T}
           Less == {ss \in Nat \X Nat : ss[1] < ss[2]}
<1>1. IsWellFoundedOn(Less, Nat)
  BY NatLessThanWellFounded, Zenon DEF OpToRel
<1>2. ASSUME S # {}
      PROVE  FALSE
  <2>1. S \subseteq Nat
    OBVIOUS
  <2> HIDE DEF Less, S
  <2>2. PICK x \in S : \A y \in S : ~ (<<y, x>> \in Less)
    BY <1>1, <1>2, <2>1, WFMin
  <2>3. x \in 1..N /\ x \notin T
    BY <2>2 DEF S
  <2>4. x - 1 \in S
    BY <2>3 DEF S
  <2>5. <<x - 1, x>> \in Nat \X Nat /\ <<x - 1, x>>[1] = x - 1 /\ <<x - 1, x>>[2] = x /\ x - 1 < x
    BY <2>3
  <2>6. <<x - 1, x>> \in Less
    BY <2>5 DEF Less
  <2> QED BY <2>2, <2>4, <2>6
<1> QED BY <1>2

\* The controls that come first in the file, and the base canvas.
First(m) == {Base} \cup {LoadOrder[j] : j \in 1..m}

LEMMA FirstControls ==
  /\ Len(LoadOrder) \in Nat
  /\ First(0) = {Base} /\ First(Len(LoadOrder)) = Controls
  /\ \A m \in 1..Len(LoadOrder) :
       /\ LoadOrder[m] \in Controls /\ LoadOrder[m] # Base
       /\ First(m) = First(m - 1) \cup {LoadOrder[m]}
       /\ LoadOrder[m] \notin First(m - 1)
       /\ ParentOf[LoadOrder[m]] \in First(m - 1)
  /\ \A m \in 0..Len(LoadOrder) :
       First(m) \subseteq Controls /\ \A c \in First(m) : c # Base => ParentOf[c] \in First(m)
<1>1. Len(LoadOrder) \in Nat /\ DOMAIN LoadOrder = 1..Len(LoadOrder)
  BY UserInterfaceAssumption
<1>2. {LoadOrder[j] : j \in 1..Len(LoadOrder)} = Controls \ {Base}
  BY <1>1, UserInterfaceAssumption DEF Range
<1>3. \A m \in 1..Len(LoadOrder) :
        /\ LoadOrder[m] \in Controls /\ LoadOrder[m] # Base
        /\ ParentOf[LoadOrder[m]] \in First(m - 1)
  BY <1>1, <1>2, UserInterfaceAssumption DEF First
<1>4. ASSUME NEW m \in 1..Len(LoadOrder)
      PROVE  First(m) = First(m - 1) \cup {LoadOrder[m]} /\ LoadOrder[m] \notin First(m - 1)
  <2>1. 1..m = (1..(m-1)) \cup {m} /\ m \notin 1..(m-1) /\ 1..(m-1) \subseteq 1..Len(LoadOrder)
    BY <1>1
  <2>2. \A j \in 1..(m-1) : LoadOrder[j] # LoadOrder[m]
    BY <1>1, <2>1, UserInterfaceAssumption
  <2> QED BY <1>3, <2>1, <2>2 DEF First
<1>5. ASSUME NEW m \in 0..Len(LoadOrder)
      PROVE  First(m) \subseteq Controls /\ \A c \in First(m) : c # Base => ParentOf[c] \in First(m)
  <2>1. First(m) \subseteq Controls
    <3>1. \A j \in 1..m : LoadOrder[j] \in Controls
      BY <1>1, <1>3
    <3> QED BY <3>1, UserInterfaceAssumption DEF First
  <2>2. ASSUME NEW j \in 1..m
        PROVE  ParentOf[LoadOrder[j]] \in First(m)
    <3>1. j \in 1..Len(LoadOrder) /\ 1..(j-1) \subseteq 1..m
      BY <1>1
    <3> QED BY <1>3, <3>1 DEF First
  <2> QED BY <2>1, <2>2 DEF First
<1>6. First(0) = {Base} /\ First(Len(LoadOrder)) = Controls
  BY <1>2, UserInterfaceAssumption DEF First
<1> QED BY <1>1, <1>3, <1>4, <1>5, <1>6

\* A control and all above it.
LEMMA UpwardsExists ==
  \A c \in Controls : Upwards[c] = IF c = Base THEN {c} ELSE {c} \cup Upwards[ParentOf[c]]
<1> DEFINE N == Len(LoadOrder)
           Above(v, c) == {c} \cup v
           IsRun(f, D) == f = [c \in D |-> IF c = Base THEN {c} ELSE Above(f[ParentOf[c]], c)]
           T == {m \in 0..N : \E f : IsRun(f, First(m))}
<1>0. N \in Nat
  BY FirstControls
<1>1. 0 \in T
  <2>1. IsRun([c \in {Base} |-> {c}], {Base})
    OBVIOUS
  <2>2. \E f : IsRun(f, First(0))
    BY <2>1, FirstControls
  <2> HIDE DEF IsRun
  <2> QED BY <1>0, <2>2
<1>2. ASSUME NEW m \in 1..N, m - 1 \in T
      PROVE  m \in T
  <2> DEFINE d == LoadOrder[m]
             D == First(m - 1)
  <2>1. PICK f : IsRun(f, D)
    BY <1>2
  <2>2. First(m) = D \cup {d} /\ d \notin D /\ d # Base /\ ParentOf[d] \in D
    BY FirstControls
  <2>3. \A c \in D : c # Base => ParentOf[c] \in D
    BY <1>0, FirstControls
  <2> DEFINE g == [c \in D \cup {d} |-> IF c = d THEN Above(f[ParentOf[d]], d) ELSE f[c]]
  <2> HIDE DEF Above, d, D
  <2>4. \A c \in D : g[c] = f[c]
    BY <2>2
  <2>5. \A c \in D \cup {d} : g[c] = IF c = Base THEN {c} ELSE Above(g[ParentOf[c]], c)
    <3>1. g[d] = Above(g[ParentOf[d]], d)
      BY <2>2, <2>4
    <3>2. ASSUME NEW c \in D
          PROVE  g[c] = IF c = Base THEN {c} ELSE Above(g[ParentOf[c]], c)
      <4> HIDE DEF g
      <4> QED BY <2>1, <2>3, <2>4
    <3> HIDE DEF g
    <3> QED BY <2>2, <3>1, <3>2
  <2>6. IsRun(g, D \cup {d})
    <3>1. g = [c \in D \cup {d} |-> g[c]]
      OBVIOUS
    <3> HIDE DEF g
    <3> QED BY <2>5, <3>1
  <2> HIDE DEF IsRun, g
  <2>7. IsRun(g, First(m))
    BY <2>2, <2>6, Zenon
  <2>8. m \in 0..N
    BY <1>0
  <2> QED BY <2>7, <2>8
<1>3. N \in T
  <2> HIDE DEF T
  <2> QED BY <1>0, <1>1, <1>2, Rounds
<1> DEFINE run == CHOOSE f : IsRun(f, Controls)
<1>4. IsRun(run, Controls)
  <2>1. \E f : IsRun(f, Controls)
    BY <1>3, FirstControls
  <2> HIDE DEF IsRun
  <2> QED BY <2>1
<1>5. Upwards = [c \in Controls |-> run[c]]
  BY DEF Upwards
<1> HIDE DEF run
<1>6. ASSUME NEW c \in Controls
      PROVE  Upwards[c] = IF c = Base THEN {c} ELSE {c} \cup Upwards[ParentOf[c]]
  <2>1. c # Base => ParentOf[c] \in Controls
    BY <1>0, FirstControls
  <2> QED BY <1>4, <1>5, <2>1
<1> QED BY <1>6

\* Positions.
LEMMA PositionsExist ==
  ASSUME NEW t
  PROVE  \A c \in Controls :
           ResolvedPositions(t)[c] =
             IF c = Base THEN t.y[c]
             ELSE LET own  == IF t.percent[c] > 0 THEN (t.height[ParentOf[c]] * t.percent[c]) \div 100 ELSE t.y[c]
                      half == IF t.centered[c] THEN t.height[c] \div 2 ELSE 0
                  IN  Wrap(ResolvedPositions(t)[ParentOf[c]] + t.offset[ParentOf[c]] + own - half)
<1> DEFINE N == Len(LoadOrder)
           own(c)  == IF t.percent[c] > 0 THEN (t.height[ParentOf[c]] * t.percent[c]) \div 100 ELSE t.y[c]
           half(c) == IF t.centered[c] THEN t.height[c] \div 2 ELSE 0
           Next(v, c) == Wrap(v + t.offset[ParentOf[c]] + own(c) - half(c))
           IsRun(f, D) == f = [c \in D |-> IF c = Base THEN t.y[c] ELSE Next(f[ParentOf[c]], c)]
           T == {m \in 0..N : \E f : IsRun(f, First(m))}
<1>0. N \in Nat
  BY FirstControls
<1>1. 0 \in T
  <2>1. IsRun([c \in {Base} |-> t.y[c]], {Base})
    OBVIOUS
  <2>2. \E f : IsRun(f, First(0))
    BY <2>1, FirstControls
  <2> HIDE DEF IsRun
  <2> QED BY <1>0, <2>2
<1>2. ASSUME NEW m \in 1..N, m - 1 \in T
      PROVE  m \in T
  <2> DEFINE d == LoadOrder[m]
             D == First(m - 1)
  <2>1. PICK f : IsRun(f, D)
    BY <1>2
  <2>2. First(m) = D \cup {d} /\ d \notin D /\ d # Base /\ ParentOf[d] \in D
    BY FirstControls
  <2>3. \A c \in D : c # Base => ParentOf[c] \in D
    BY <1>0, FirstControls
  <2> DEFINE g == [c \in D \cup {d} |-> IF c = d THEN Next(f[ParentOf[d]], d) ELSE f[c]]
  <2> HIDE DEF Next, d, D
  <2>4. \A c \in D : g[c] = f[c]
    BY <2>2
  <2>5. \A c \in D \cup {d} : g[c] = IF c = Base THEN t.y[c] ELSE Next(g[ParentOf[c]], c)
    <3>1. g[d] = Next(g[ParentOf[d]], d)
      BY <2>2, <2>4
    <3>2. ASSUME NEW c \in D
          PROVE  g[c] = IF c = Base THEN t.y[c] ELSE Next(g[ParentOf[c]], c)
      <4> HIDE DEF g
      <4> QED BY <2>1, <2>3, <2>4
    <3> HIDE DEF g
    <3> QED BY <2>2, <3>1, <3>2
  <2>6. IsRun(g, D \cup {d})
    <3>1. g = [c \in D \cup {d} |-> g[c]]
      OBVIOUS
    <3> HIDE DEF g
    <3> QED BY <2>5, <3>1
  <2> HIDE DEF IsRun, g
  <2>7. IsRun(g, First(m))
    BY <2>2, <2>6, Zenon
  <2>8. m \in 0..N
    BY <1>0
  <2> QED BY <2>7, <2>8
<1>3. N \in T
  <2> HIDE DEF T
  <2> QED BY <1>0, <1>1, <1>2, Rounds
<1> DEFINE run == CHOOSE f : IsRun(f, Controls)
<1>4. IsRun(run, Controls)
  <2>1. \E f : IsRun(f, Controls)
    BY <1>3, FirstControls
  <2> HIDE DEF IsRun
  <2> QED BY <2>1
<1>5. ResolvedPositions(t) = [c \in Controls |-> run[c]]
  BY DEF ResolvedPositions
<1> HIDE DEF run, Next
<1>6. ASSUME NEW c \in Controls
      PROVE  ResolvedPositions(t)[c] =
               IF c = Base THEN t.y[c] ELSE Next(ResolvedPositions(t)[ParentOf[c]], c)
  <2>1. c # Base => ParentOf[c] \in Controls
    BY <1>0, FirstControls
  <2> QED BY <1>4, <1>5, <2>1
<1> QED BY <1>6 DEF Next

\* Masks.
LEMMA MasksExist ==
  ASSUME NEW t
  PROVE  \A c \in Controls :
           MaskBoundaries(t)[c] =
             IF c # Base /\ HasIntersection(MaskBoundaries(t)[ParentOf[c]], ScreenSpaceBounds(t)[c])
             THEN Intersection(MaskBoundaries(t)[ParentOf[c]], ScreenSpaceBounds(t)[c])
             ELSE ScreenSpaceBounds(t)[c]
<1> DEFINE N == Len(LoadOrder)
           bounds == ScreenSpaceBounds(t)
           Clip(v, c) == IF HasIntersection(v, bounds[c]) THEN Intersection(v, bounds[c]) ELSE bounds[c]
           Next(v, c) == IF c = Base THEN bounds[c] ELSE Clip(v, c)
           IsRun(f, D) == f = [c \in D |-> Next(f[ParentOf[c]], c)]
           T == {m \in 0..N : \E f : IsRun(f, First(m))}
<1>0. /\ N \in Nat
      /\ \A v : Next(v, Base) = bounds[Base]
  BY FirstControls
<1>1. 0 \in T
  <2>1. IsRun([c \in {Base} |-> bounds[c]], {Base})
    OBVIOUS
  <2>2. \E f : IsRun(f, First(0))
    BY <2>1, FirstControls
  <2> HIDE DEF IsRun
  <2> QED BY <1>0, <2>2
<1>2. ASSUME NEW m \in 1..N, m - 1 \in T
      PROVE  m \in T
  <2> DEFINE d == LoadOrder[m]
             D == First(m - 1)
  <2>1. PICK f : IsRun(f, D)
    BY <1>2
  <2>2. First(m) = D \cup {d} /\ d \notin D /\ d # Base /\ ParentOf[d] \in D
    BY FirstControls
  <2>3. \A c \in D : c # Base => ParentOf[c] \in D
    BY <1>0, FirstControls
  <2> DEFINE g == [c \in D \cup {d} |-> IF c = d THEN Next(f[ParentOf[d]], d) ELSE f[c]]
  <2> HIDE DEF Next, d, D
  <2>4. \A c \in D : g[c] = f[c]
    BY <2>2
  <2>5. \A c \in D \cup {d} : g[c] = Next(g[ParentOf[c]], c)
    <3>1. g[d] = Next(g[ParentOf[d]], d)
      BY <2>2, <2>4
    <3>2. ASSUME NEW c \in D
          PROVE  g[c] = Next(g[ParentOf[c]], c)
      <4> HIDE DEF g
      <4>1. f[c] = Next(f[ParentOf[c]], c)
        BY <2>1
      <4> QED BY <1>0, <2>3, <2>4, <4>1
    <3> HIDE DEF g
    <3> QED BY <3>1, <3>2
  <2>6. IsRun(g, D \cup {d})
    <3>1. g = [c \in D \cup {d} |-> g[c]]
      OBVIOUS
    <3> HIDE DEF g
    <3> QED BY <2>5, <3>1
  <2> HIDE DEF IsRun, g
  <2>7. IsRun(g, First(m))
    BY <2>2, <2>6, Zenon
  <2>8. m \in 0..N
    BY <1>0
  <2> QED BY <2>7, <2>8
<1>3. N \in T
  <2> HIDE DEF T
  <2> QED BY <1>0, <1>1, <1>2, Rounds
<1> DEFINE run == CHOOSE f : IsRun(f, Controls)
<1>4. IsRun(run, Controls)
  <2>1. \E f : IsRun(f, Controls)
    BY <1>3, FirstControls
  <2> HIDE DEF IsRun
  <2> QED BY <2>1
<1>5. MaskBoundaries(t) = [c \in Controls |-> run[c]]
  BY DEF MaskBoundaries
<1> HIDE DEF run, Next
<1>6. ASSUME NEW c \in Controls
      PROVE  MaskBoundaries(t)[c] = Next(MaskBoundaries(t)[ParentOf[c]], c)
  <2>1. c # Base => ParentOf[c] \in Controls
    BY <1>0, FirstControls
  <2>2. run[c] = Next(run[ParentOf[c]], c)
    BY <1>4
  <2> QED BY <1>0, <1>5, <2>1, <2>2
<1> QED BY <1>6 DEF Next

\* What lies below a control: itself, and each control whose parent lies there.
LEMMA BelowFacts ==
  ASSUME NEW c \in Controls
  PROVE  /\ c \in Below[c] /\ Below[c] \subseteq Controls
         /\ \A d \in Controls \ {Base} : /\ ParentOf[d] \in Controls
                                         /\ ParentOf[d] \in Below[c] => d \in Below[c]
         /\ \A d \in Below[c] : d # c => d # Base /\ ParentOf[d] \in Below[c]
<1>1. \A d \in Controls : d \in Below[c] <=> c \in Upwards[d]
  BY DEF Below
<1>2. Below[c] \subseteq Controls
  BY DEF Below
<1>3. \A d \in Controls \ {Base} : ParentOf[d] \in Controls
  BY FirstControls
<1>4. \A d \in Controls \ {Base} : Upwards[d] = {d} \cup Upwards[ParentOf[d]]
  BY UpwardsExists
<1>5. c \in Upwards[c]
  BY UpwardsExists
<1>6. Base \in Controls => Upwards[Base] = {Base}
  BY UpwardsExists
<1> QED BY <1>1, <1>2, <1>3, <1>4, <1>5, <1>6

\* Parents are loaded first: nothing below a control is there before it.
LEMMA BelowIsLater ==
  ASSUME NEW m \in 1..Len(LoadOrder)
  PROVE  \A d \in First(m - 1) : d \notin Below[LoadOrder[m]]
<1> DEFINE N == Len(LoadOrder)
           T == {k \in 0..N : \A d \in First(k) : Upwards[d] \subseteq First(k)}
<1>0. N \in Nat
  BY FirstControls
<1>1. 0 \in T
  <2>1. Base \in Controls /\ First(0) = {Base}
    BY FirstControls, UserInterfaceAssumption
  <2>2. Upwards[Base] = {Base}
    BY <2>1, UpwardsExists
  <2> QED BY <1>0, <2>1, <2>2
<1>2. ASSUME NEW k \in 1..N, k - 1 \in T
      PROVE  k \in T
  <2> DEFINE e == LoadOrder[k]
  <2>1. First(k) = First(k - 1) \cup {e} /\ e \in Controls /\ e # Base /\ ParentOf[e] \in First(k - 1)
    BY FirstControls
  <2>2. Upwards[e] = {e} \cup Upwards[ParentOf[e]]
    BY <2>1, UpwardsExists
  <2> HIDE DEF e
  <2> QED BY <1>0, <1>2, <2>1, <2>2
<1>3. \A k \in 0..N : k \in T
  <2>1. ASSUME NEW k \in 0..N
        PROVE  k \in T
    <3>1. \A n \in 1..k : n \in 1..N
      BY <1>0
    <3> HIDE DEF T
    <3> QED BY <1>1, <1>2, <3>1, Rounds
  <2> QED BY <2>1
<1>4. m - 1 \in 0..N
  BY <1>0
<1>5. LoadOrder[m] \in Controls /\ LoadOrder[m] \notin First(m - 1) /\ First(m - 1) \subseteq Controls
  BY <1>4, FirstControls
<1>6. \A d \in First(m - 1) : Upwards[d] \subseteq First(m - 1)
  BY <1>3, <1>4
<1> QED BY <1>5, <1>6 DEF Below

\* Heights, where c has got another size: nothing but what is below c has.
LEMMA HeightsExist ==
  ASSUME NEW t, NEW c \in Controls
  PROVE  \E w : /\ Resized(t, c) = [t EXCEPT !.height = [d \in Controls |-> w[d]]]
                /\ \A d \in (Controls \ Below[c]) \cup {c} : w[d] = t.height[d]
<1> DEFINE N == Len(LoadOrder)
           Share(v, d) == (v * t.share[d][1]) \div t.share[d][2]
           Next(v, d) == IF d \notin Below[c] \ {c} THEN t.height[d] ELSE Share(v, d)
           IsRun(f, D) == f = [d \in D |-> Next(f[ParentOf[d]], d)]
           T == {m \in 0..N : \E f : IsRun(f, First(m))}
<1>0. /\ N \in Nat
      /\ \A d \in (Controls \ Below[c]) \cup {c} : \A v : Next(v, d) = t.height[d]
      /\ \A v : Next(v, Base) = t.height[Base]
  <2>1. Base \notin Below[c] \ {c}
    BY BelowFacts
  <2> QED BY <2>1, FirstControls
<1>1. 0 \in T
  <2>1. IsRun([d \in {Base} |-> t.height[d]], {Base})
    BY <1>0
  <2>2. \E f : IsRun(f, First(0))
    BY <2>1, FirstControls
  <2> HIDE DEF IsRun
  <2> QED BY <1>0, <2>2
<1>2. ASSUME NEW m \in 1..N, m - 1 \in T
      PROVE  m \in T
  <2> DEFINE e == LoadOrder[m]
             D == First(m - 1)
  <2>1. PICK f : IsRun(f, D)
    BY <1>2
  <2>2. First(m) = D \cup {e} /\ e \notin D /\ e # Base /\ ParentOf[e] \in D
    BY FirstControls
  <2>3. \A d \in D : d # Base => ParentOf[d] \in D
    BY <1>0, FirstControls
  <2> DEFINE g == [d \in D \cup {e} |-> IF d = e THEN Next(f[ParentOf[e]], e) ELSE f[d]]
  <2> HIDE DEF Next, e, D
  <2>4. \A d \in D : g[d] = f[d]
    BY <2>2
  <2>5. \A d \in D \cup {e} : g[d] = Next(g[ParentOf[d]], d)
    <3>1. g[e] = Next(g[ParentOf[e]], e)
      BY <2>2, <2>4
    <3>2. ASSUME NEW d \in D
          PROVE  g[d] = Next(g[ParentOf[d]], d)
      <4> HIDE DEF g
      <4>1. f[d] = Next(f[ParentOf[d]], d)
        BY <2>1
      <4> QED BY <1>0, <2>3, <2>4, <4>1
    <3> HIDE DEF g
    <3> QED BY <3>1, <3>2
  <2>6. IsRun(g, D \cup {e})
    <3>1. g = [d \in D \cup {e} |-> g[d]]
      OBVIOUS
    <3> HIDE DEF g
    <3> QED BY <2>5, <3>1
  <2> HIDE DEF IsRun, g, D, e
  <2>7. \E h : IsRun(h, First(m))
    BY <2>2, <2>6
  <2>8. m \in 0..N
    BY <1>0
  <2> QED BY <2>7, <2>8
<1>3. N \in T
  <2> HIDE DEF T
  <2> QED BY <1>0, <1>1, <1>2, Rounds
<1> DEFINE run == CHOOSE f : IsRun(f, Controls)
<1>4. IsRun(run, Controls)
  <2>1. \E f : IsRun(f, Controls)
    BY <1>3, FirstControls
  <2> HIDE DEF IsRun
  <2> QED BY <2>1
<1>5. Resized(t, c) = [t EXCEPT !.height = [d \in Controls |-> run[d]]]
  BY DEF Resized
<1> HIDE DEF run, Next
<1>6. \A d \in (Controls \ Below[c]) \cup {c} : run[d] = t.height[d]
  BY <1>0, <1>4
<1> QED BY <1>5, <1>6

-----------------------------------------------------------------------------
(***************************************************************************)
(* What is seen of a control depends on it and on those above it, and on   *)
(* nothing else: two trees that agree there agree on what is seen.         *)
(***************************************************************************)

SameAt(t, u, c) ==
  /\ t.y[c] = u.y[c] /\ t.percent[c] = u.percent[c]
  /\ t.height[c] = u.height[c] /\ t.centered[c] = u.centered[c]
  /\ c # Base => t.offset[ParentOf[c]] = u.offset[ParentOf[c]]

Agree(t, u, S) == \A c \in S : SameAt(t, u, c)

\* With a control, all that is above it.
IsUpper(S) == S \subseteq Controls /\ \A c \in S : c # Base => ParentOf[c] \in S

\* What the tree computes of a control by way of its parent.
SamePlace(t, u, c) ==
  /\ ResolvedPositions(t)[c] = ResolvedPositions(u)[c]
  /\ MaskBoundaries(t)[c] = MaskBoundaries(u)[c]

LEMMA BoundsAt ==
  ASSUME NEW t, NEW u, NEW c \in Controls, SameAt(t, u, c),
         ResolvedPositions(t)[c] = ResolvedPositions(u)[c]
  PROVE  ScreenSpaceBounds(t)[c] = ScreenSpaceBounds(u)[c]
<1>1. ScreenSpaceBounds(t)[c] =
        [from |-> Signed(ResolvedPositions(t)[c]), to |-> Signed(ResolvedPositions(t)[c]) + Signed(t.height[c])]
  BY DEF ScreenSpaceBounds
<1>2. ScreenSpaceBounds(u)[c] =
        [from |-> Signed(ResolvedPositions(u)[c]), to |-> Signed(ResolvedPositions(u)[c]) + Signed(u.height[c])]
  BY DEF ScreenSpaceBounds
<1>3. t.height[c] = u.height[c]
  BY DEF SameAt
<1> QED BY <1>1, <1>2, <1>3, Zenon

\* A control whose parent has the same place has it too.
LEMMA PlaceOfChild ==
  ASSUME NEW t, NEW u, NEW c \in Controls, SameAt(t, u, c),
         c # Base => SameAt(t, u, ParentOf[c]) /\ SamePlace(t, u, ParentOf[c])
  PROVE  SamePlace(t, u, c)
<1> DEFINE p == ParentOf[c]
           Own(v)  == IF v.percent[c] > 0 THEN (v.height[p] * v.percent[c]) \div 100 ELSE v.y[c]
           Half(v) == IF v.centered[c] THEN v.height[c] \div 2 ELSE 0
<1>1. ResolvedPositions(t)[c] =
        IF c = Base THEN t.y[c] ELSE Wrap(ResolvedPositions(t)[p] + t.offset[p] + Own(t) - Half(t))
  BY PositionsExist
<1>2. ResolvedPositions(u)[c] =
        IF c = Base THEN u.y[c] ELSE Wrap(ResolvedPositions(u)[p] + u.offset[p] + Own(u) - Half(u))
  BY PositionsExist
<1>3. c # Base => Own(t) = Own(u) /\ Half(t) = Half(u) /\ t.offset[p] = u.offset[p]
  <2>1. /\ t.percent[c] = u.percent[c] /\ t.y[c] = u.y[c]
        /\ t.centered[c] = u.centered[c] /\ t.height[c] = u.height[c]
    BY DEF SameAt
  <2>2. c # Base => t.height[p] = u.height[p]
    BY DEF SameAt
  <2>3. c # Base => t.offset[p] = u.offset[p]
    BY DEF SameAt
  <2> QED BY <2>1, <2>2, <2>3, Zenon
<1> HIDE DEF Own, Half
<1>4. ResolvedPositions(t)[c] = ResolvedPositions(u)[c]
  <2>1. CASE c = Base
    BY <1>1, <1>2, <2>1 DEF SameAt
  <2>2. CASE c # Base
    <3>1. ResolvedPositions(t)[p] = ResolvedPositions(u)[p]
      BY <2>2 DEF SamePlace
    <3> QED BY <1>1, <1>2, <1>3, <2>2, <3>1, Zenon
  <2> QED BY <2>1, <2>2
<1>5. ScreenSpaceBounds(t)[c] = ScreenSpaceBounds(u)[c]
  BY <1>4, BoundsAt
<1>6. MaskBoundaries(t)[c] = MaskBoundaries(u)[c]
  <2>1. c # Base => MaskBoundaries(t)[p] = MaskBoundaries(u)[p]
    BY DEF SamePlace
  <2> QED BY <1>5, <2>1, MasksExist
<1> QED BY <1>4, <1>6 DEF SamePlace

LEMMA SeenAlike ==
  ASSUME NEW t, NEW u, NEW S, IsUpper(S), Agree(t, u, S)
  PROVE  \A c \in S : c \in VisibleInParent(t) <=> c \in VisibleInParent(u)
<1> DEFINE N == Len(LoadOrder)
           T == {m \in 0..N : \A c \in First(m) \cap S : SamePlace(t, u, c)}
<1>0. N \in Nat
  BY FirstControls
<1>1. 0 \in T
  <2>1. Base \in Controls /\ First(0) = {Base}
    BY FirstControls, UserInterfaceAssumption
  <2>2. Base \in S => SamePlace(t, u, Base)
    BY <2>1, PlaceOfChild DEF Agree
  <2> QED BY <1>0, <2>1, <2>2
<1>2. ASSUME NEW m \in 1..N, m - 1 \in T
      PROVE  m \in T
  <2> DEFINE e == LoadOrder[m]
  <2>1. First(m) = First(m - 1) \cup {e} /\ e \in Controls /\ e # Base /\ ParentOf[e] \in First(m - 1)
    BY FirstControls
  <2>2. e \in S => SamePlace(t, u, e)
    <3>1. e \in S => ParentOf[e] \in S /\ SameAt(t, u, e) /\ SameAt(t, u, ParentOf[e])
      BY <2>1 DEF IsUpper, Agree
    <3>2. e \in S => SamePlace(t, u, ParentOf[e])
      BY <1>2, <2>1, <3>1
    <3> HIDE DEF e
    <3> QED BY <2>1, <3>1, <3>2, PlaceOfChild
  <2> HIDE DEF e
  <2> QED BY <1>0, <1>2, <2>1, <2>2
<1>3. \A c \in S : SamePlace(t, u, c)
  <2>1. N \in T
    <3> HIDE DEF T
    <3> QED BY <1>0, <1>1, <1>2, Rounds
  <2>2. First(N) = Controls
    BY FirstControls
  <2> QED BY <2>1, <2>2 DEF IsUpper
<1>4. ASSUME NEW c \in S
      PROVE  c \in VisibleInParent(t) <=> c \in VisibleInParent(u)
  <2>1. c \in Controls /\ SameAt(t, u, c) /\ SamePlace(t, u, c)
    BY <1>3 DEF IsUpper, Agree
  <2>2. ScreenSpaceBounds(t)[c] = ScreenSpaceBounds(u)[c]
    BY <2>1, BoundsAt DEF SamePlace
  <2>3. c # Base => MaskBoundaries(t)[ParentOf[c]] = MaskBoundaries(u)[ParentOf[c]]
    BY <1>3 DEF IsUpper, SamePlace
  <2>4. \A v : c \in VisibleInParent(v) <=>
                 c = Base \/ HasIntersection(ScreenSpaceBounds(v)[c], MaskBoundaries(v)[ParentOf[c]])
    BY <2>1 DEF VisibleInParent
  <2> QED BY <2>2, <2>3, <2>4
<1> QED BY <1>4


-----------------------------------------------------------------------------
(***************************************************************************)
(* Which control a click goes to: paths in the tree.                       *)
(***************************************************************************)

\* Above a control lies what is above its parent.
LEMMA AboveIsTransitive ==
  ASSUME NEW a \in Controls
  PROVE  \A e \in Controls : a \in Upwards[e] => Upwards[a] \subseteq Upwards[e]
<1> DEFINE N == Len(LoadOrder)
           T == {k \in 0..N : \A e \in First(k) : a \in Upwards[e] => Upwards[a] \subseteq Upwards[e]}
<1>0. N \in Nat /\ First(N) = Controls
  BY FirstControls
<1>1. 0 \in T
  <2>1. Base \in Controls /\ First(0) = {Base}
    BY FirstControls, UserInterfaceAssumption
  <2>2. Upwards[Base] = {Base}
    BY <2>1, UpwardsExists
  <2> QED BY <1>0, <2>1, <2>2
<1>2. ASSUME NEW k \in 1..N, k - 1 \in T
      PROVE  k \in T
  <2> DEFINE e == LoadOrder[k]
  <2>1. First(k) = First(k - 1) \cup {e} /\ e \in Controls /\ e # Base /\ ParentOf[e] \in First(k - 1)
    BY FirstControls
  <2>2. Upwards[e] = {e} \cup Upwards[ParentOf[e]]
    BY <2>1, UpwardsExists
  <2> HIDE DEF e
  <2>3. a \in Upwards[e] => Upwards[a] \subseteq Upwards[e]
    <3>1. CASE a = e
      BY <3>1
    <3>2. CASE a # e
      BY <1>2, <2>1, <2>2, <3>2
    <3> QED BY <3>1, <3>2
  <2> QED BY <1>0, <1>2, <2>1, <2>3
<1>3. N \in T
  <2> HIDE DEF T
  <2> QED BY <1>0, <1>1, <1>2, Rounds
<1> QED BY <1>0, <1>3

\* What lies below a control, but not the control itself, lies below a child of it.
LEMMA ThroughAChild ==
  ASSUME NEW c \in Controls
  PROVE  \A e \in Below[c] : e # c =>
           \E i \in 1..Len(LoadOrder) : ParentOf[LoadOrder[i]] = c /\ LoadOrder[i] \in Upwards[e]
<1> DEFINE N == Len(LoadOrder)
           Through(e) == \E i \in 1..N : ParentOf[LoadOrder[i]] = c /\ LoadOrder[i] \in Upwards[e]
           T == {k \in 0..N : \A e \in First(k) : e \in Below[c] /\ e # c => Through(e)}
<1>0. N \in Nat /\ First(N) = Controls
  BY FirstControls
<1>1. 0 \in T
  <2>1. First(0) = {Base}
    BY FirstControls
  <2>2. Base \in Below[c] => Base = c
    BY BelowFacts
  <2> QED BY <1>0, <2>1, <2>2
<1>2. ASSUME NEW k \in 1..N, k - 1 \in T
      PROVE  k \in T
  <2> DEFINE e == LoadOrder[k]
  <2>1. First(k) = First(k - 1) \cup {e} /\ e \in Controls /\ e # Base /\ ParentOf[e] \in First(k - 1)
    BY FirstControls
  <2>2. Upwards[e] = {e} \cup Upwards[ParentOf[e]]
    BY <2>1, UpwardsExists
  <2>3. ASSUME e \in Below[c], e # c
        PROVE  Through(e)
    <3>1. ParentOf[e] \in Below[c]
      BY <2>3, BelowFacts
    <3>2. CASE ParentOf[e] = c
      BY <2>2, <3>2
    <3>3. CASE ParentOf[e] # c
      <4>1. Through(ParentOf[e])
        BY <1>2, <2>1, <3>1, <3>3
      <4> QED BY <2>2, <4>1
    <3> QED BY <3>2, <3>3
  <2> HIDE DEF e, Through
  <2> QED BY <1>0, <1>2, <2>1, <2>3
<1>3. N \in T
  <2> HIDE DEF T
  <2> QED BY <1>0, <1>1, <1>2, Rounds
<1>4. Below[c] \subseteq Controls
  BY BelowFacts
<1> QED BY <1>0, <1>3, <1>4

\* The greatest of some indices.
LEMMA GreatestIndex ==
  ASSUME NEW N \in Nat, NEW I, I \subseteq 1..N, I # {}
  PROVE  Max(I) \in I /\ \A i \in I : i <= Max(I)
<1> DEFINE T == {n \in 0..N : \A J \in SUBSET (1..n) : J # {} => \E m \in J : \A i \in J : m >= i}
<1>1. 0 \in T
  <2>1. SUBSET (1..0) = {{}} /\ 0 \in 0..N
    <3>1. 1..0 = {}
      OBVIOUS
    <3> QED BY <3>1
  <2> QED BY <2>1
<1>2. ASSUME NEW n \in 1..N, n - 1 \in T
      PROVE  n \in T
  <2>1. ASSUME NEW J \in SUBSET (1..n), J # {}
        PROVE  \E m \in J : \A i \in J : m >= i
    <3>1. CASE n \in J
      <4>1. \A i \in J : i \in 1..n /\ n >= i
        BY <2>1
      <4> QED BY <3>1, <4>1
    <3>2. CASE n \notin J
      <4>1. J \in SUBSET (1..(n - 1))
        BY <3>2
      <4> QED BY <1>2, <2>1, <4>1
    <3> QED BY <3>1, <3>2
  <2>2. n \in 0..N
    OBVIOUS
  <2>3. \A J \in SUBSET (1..n) : J # {} => \E m \in J : \A i \in J : m >= i
    BY <2>1
  <2> QED BY <2>2, <2>3
<1>3. N \in T
  <2> HIDE DEF T
  <2> QED BY <1>1, <1>2, Rounds
<1>4. \E m \in I : \A i \in I : m >= i
  BY <1>3
<1>5. Max(I) \in I /\ \A i \in I : Max(I) >= i
  BY <1>4 DEF Max
<1>6. \A i \in I : i \in 1..N
  OBVIOUS
<1> HIDE DEF T
<1> QED BY <1>5, <1>6

-----------------------------------------------------------------------------
(***************************************************************************)
(* The search from the base canvas downwards.                              *)
(***************************************************************************)

\* The children of c for which the search found something.
Found(f, c) == {i \in 1..Len(LoadOrder) : ParentOf[LoadOrder[i]] = c /\ f[LoadOrder[i]] # None}

\* What the search returns for c, if f is what it returns for the children.
Search(hittable, f, c) ==
  IF c \notin hittable THEN None
  ELSE IF Found(f, c) = {} THEN c ELSE f[LoadOrder[Max(Found(f, c))]]

LEMMA LastFound ==
  ASSUME NEW f, NEW c, Found(f, c) # {}
  PROVE  /\ Max(Found(f, c)) \in Found(f, c) /\ Max(Found(f, c)) # 0
         /\ \A i \in Found(f, c) : i <= Max(Found(f, c))
<1>1. Len(LoadOrder) \in Nat /\ Found(f, c) \subseteq 1..Len(LoadOrder)
  BY FirstControls DEF Found
<1>2. Max(Found(f, c)) \in Found(f, c) /\ \A i \in Found(f, c) : i <= Max(Found(f, c))
  BY <1>1, GreatestIndex
<1> QED BY <1>1, <1>2

\* The controls that come last in the file: children before their parents.
Late(k) == {LoadOrder[j] : j \in (Len(LoadOrder) - k + 1)..Len(LoadOrder)}

LEMMA LateControls ==
  /\ Late(0) = {} /\ Late(Len(LoadOrder)) = Controls \ {Base}
  /\ \A k \in 1..Len(LoadOrder) :
       /\ Late(k) = Late(k - 1) \cup {LoadOrder[Len(LoadOrder) - k + 1]}
       /\ LoadOrder[Len(LoadOrder) - k + 1] \notin Late(k - 1)
       /\ LoadOrder[Len(LoadOrder) - k + 1] \in Controls \ {Base}
       /\ \A j \in 1..Len(LoadOrder) :
            ParentOf[LoadOrder[j]] \in Late(k) => LoadOrder[j] \in Late(k - 1)
<1> DEFINE N == Len(LoadOrder)
<1>1. /\ N \in Nat /\ DOMAIN LoadOrder = 1..N
      /\ \A i, j \in 1..N : LoadOrder[i] = LoadOrder[j] => i = j
      /\ {LoadOrder[j] : j \in 1..N} = Controls \ {Base}
      /\ \A j \in 1..N : LoadOrder[j] \in Controls \ {Base}
      /\ \A j \in 1..N : ParentOf[LoadOrder[j]] \in {Base} \cup {LoadOrder[i] : i \in 1..j-1}
  <2>1. N \in Nat /\ DOMAIN LoadOrder = 1..N
    BY UserInterfaceAssumption
  <2>2. {LoadOrder[j] : j \in 1..N} = Controls \ {Base}
    BY <2>1, UserInterfaceAssumption DEF Range
  <2>3. \A j \in 1..N : LoadOrder[j] \in Controls \ {Base}
    BY <2>2
  <2> HIDE DEF N
  <2> QED BY <2>1, <2>2, <2>3, UserInterfaceAssumption
<1>2. Late(0) = {} /\ Late(N) = Controls \ {Base}
  <2>1. (N - 0 + 1)..N = {} /\ (N - N + 1)..N = 1..N
    BY <1>1
  <2> QED BY <1>1, <2>1 DEF Late
<1>3. ASSUME NEW k \in 1..N
      PROVE  /\ Late(k) = Late(k - 1) \cup {LoadOrder[N - k + 1]}
             /\ LoadOrder[N - k + 1] \notin Late(k - 1)
             /\ LoadOrder[N - k + 1] \in Controls \ {Base}
             /\ \A j \in 1..N : ParentOf[LoadOrder[j]] \in Late(k) => LoadOrder[j] \in Late(k - 1)
  <2> DEFINE m == N - k + 1
  <2>1. m \in 1..N /\ N - (k - 1) + 1 = m + 1 /\ m..N = ((m + 1)..N) \cup {m} /\ (m + 1)..N \subseteq 1..N /\ m \notin (m + 1)..N
    BY <1>1
  <2>2. Late(k) = {LoadOrder[j] : j \in m..N} /\ Late(k - 1) = {LoadOrder[j] : j \in (m + 1)..N}
    BY <2>1 DEF Late
  <2> HIDE DEF m
  <2>3. Late(k) = Late(k - 1) \cup {LoadOrder[m]} /\ LoadOrder[m] \notin Late(k - 1)
    <3>1. \A j \in (m + 1)..N : LoadOrder[j] # LoadOrder[m]
      BY <1>1, <2>1
    <3> HIDE DEF N
    <3> QED BY <2>1, <2>2, <3>1
  <2>4. ASSUME NEW j \in 1..N, ParentOf[LoadOrder[j]] \in Late(k)
        PROVE  LoadOrder[j] \in Late(k - 1)
    <3>1. PICK i \in m..N : ParentOf[LoadOrder[j]] = LoadOrder[i]
      BY <2>2, <2>4
    <3>2. i \in 1..N /\ LoadOrder[i] # Base
      BY <1>1, <2>1, <3>1
    <3>3. PICK h \in 1..j-1 : LoadOrder[i] = LoadOrder[h]
      BY <1>1, <3>1, <3>2
    <3>4. h \in 1..N
      BY <1>1, <3>3
    <3>5. h = i
      BY <1>1, <3>2, <3>3, <3>4
    <3>6. j \in (m + 1)..N
      BY <1>1, <2>1, <3>1, <3>3, <3>5
    <3> QED BY <2>2, <3>6
  <2> QED BY <1>1, <2>1, <2>3, <2>4 DEF m
<1> QED BY <1>1, <1>2, <1>3

\* The search looks at children only.
LEMMA SearchOfChildren ==
  ASSUME NEW h, NEW f, NEW g, NEW c,
         \A j \in 1..Len(LoadOrder) : ParentOf[LoadOrder[j]] = c => f[LoadOrder[j]] = g[LoadOrder[j]]
  PROVE  Search(h, f, c) = Search(h, g, c)
<1>1. Found(f, c) = Found(g, c)
  BY DEF Found
<1>2. Found(f, c) # {} => Max(Found(f, c)) \in Found(f, c)
  BY LastFound
<1>3. Found(f, c) # {} => f[LoadOrder[Max(Found(f, c))]] = g[LoadOrder[Max(Found(f, c))]]
  <2>1. \A i \in Found(f, c) : f[LoadOrder[i]] = g[LoadOrder[i]]
    BY DEF Found
  <2> QED BY <1>2, <2>1
<1> QED BY <1>1, <1>3 DEF Search

LEMMA SearchExists ==
  ASSUME NEW h
  PROVE  \E f : f = [c \in Controls |-> Search(h, f, c)]
<1> DEFINE N == Len(LoadOrder)
           IsRun(f, D) == f = [c \in D |-> Search(h, f, c)]
           T == {k \in 0..N : \E f : IsRun(f, Late(k))}
<1>0. N \in Nat
  BY FirstControls
\* One more control, whose children are there already.
<1>1. ASSUME NEW f, NEW D, IsRun(f, D), NEW e, e \notin D,
             \A j \in 1..N : ParentOf[LoadOrder[j]] \in D \cup {e} => LoadOrder[j] \in D
      PROVE  \E g : IsRun(g, D \cup {e})
  <2> DEFINE g == [c \in D \cup {e} |-> IF c = e THEN Search(h, f, e) ELSE f[c]]
  <2>1. \A c \in D : g[c] = f[c]
    BY <1>1
  <2>2. g[e] = Search(h, f, e)
    OBVIOUS
  <2>3. g = [c \in D \cup {e} |-> g[c]]
    OBVIOUS
  <2> HIDE DEF g
  <2>4. \A c \in D \cup {e} : Search(h, g, c) = Search(h, f, c)
    <3>1. ASSUME NEW c \in D \cup {e}
          PROVE  Search(h, f, c) = Search(h, g, c)
      <4>1. \A j \in 1..Len(LoadOrder) : ParentOf[LoadOrder[j]] = c => f[LoadOrder[j]] = g[LoadOrder[j]]
        BY <1>1, <2>1
      <4> QED BY <4>1, SearchOfChildren
    <3> QED BY <3>1
  <2>5. \A c \in D : f[c] = Search(h, f, c)
    BY <1>1
  <2>6. \A c \in D \cup {e} : g[c] = Search(h, g, c)
    BY <2>1, <2>2, <2>4, <2>5
  <2>7. IsRun(g, D \cup {e})
    BY <2>3, <2>6
  <2> HIDE DEF IsRun
  <2> QED BY <2>7
<1>2. 0 \in T
  <2>1. IsRun([c \in {} |-> None], {})
    OBVIOUS
  <2>2. \E f : IsRun(f, Late(0))
    BY <2>1, LateControls
  <2> HIDE DEF IsRun
  <2> QED BY <1>0, <2>2
<1>3. ASSUME NEW k \in 1..N, k - 1 \in T
      PROVE  k \in T
  <2> DEFINE e == LoadOrder[N - k + 1]
  <2>1. PICK f : IsRun(f, Late(k - 1))
    BY <1>3
  <2>2. /\ Late(k) = Late(k - 1) \cup {e} /\ e \notin Late(k - 1)
        /\ \A j \in 1..N : ParentOf[LoadOrder[j]] \in Late(k) => LoadOrder[j] \in Late(k - 1)
    BY LateControls
  <2> HIDE DEF IsRun, e
  <2>3. \E g : IsRun(g, Late(k - 1) \cup {e})
    BY <1>1, <2>1, <2>2
  <2>4. \E g : IsRun(g, Late(k))
    BY <2>2, <2>3, Zenon
  <2>5. k \in 0..N
    BY <1>0
  <2> QED BY <2>4, <2>5
<1>4. N \in T
  <2> HIDE DEF T
  <2> QED BY <1>0, <1>2, <1>3, Rounds
<1>5. PICK f : IsRun(f, Controls \ {Base})
  <2> HIDE DEF IsRun
  <2>1. \E f : IsRun(f, Late(N))
    BY <1>4
  <2>2. Late(N) = Controls \ {Base}
    BY LateControls
  <2> QED BY <2>1, <2>2, Zenon
<1>6. /\ Base \in Controls
      /\ \A j \in 1..N : LoadOrder[j] \in Controls \ {Base}
  BY FirstControls, UserInterfaceAssumption
<1>7. (Controls \ {Base}) \cup {Base} = Controls
  BY <1>6
<1> HIDE DEF IsRun
<1>8. \E g : IsRun(g, (Controls \ {Base}) \cup {Base})
  BY <1>1, <1>5, <1>6
<1> QED BY <1>7, <1>8 DEF IsRun

\* GetFocusedControlAtPoint, for all controls.
LEMMA SearchOfBase ==
  ASSUME NEW t, NEW y
  PROVE  \E f : /\ \A c \in Controls : f[c] = Search(Hittable(t, y), f, c)
                /\ GetFocusedControlAtPoint(t, y) = f[Base]
<1> DEFINE h == Hittable(t, y)
           Asked(f, c) ==
             IF c \notin h THEN None
             ELSE LET hit == SelectLastInSeq(LoadOrder, LAMBDA d : ParentOf[d] = c /\ f[d] # None)
                  IN  IF hit = 0 THEN c ELSE f[LoadOrder[hit]]
           IsRun(f) == f = [c \in Controls |-> Asked(f, c)]
           run == CHOOSE f : IsRun(f)
<1>1. GetFocusedControlAtPoint(t, y) = run[Base]
  BY UserInterfaceAssumption DEF GetFocusedControlAtPoint
<1>2. \A f, c : Asked(f, c) = Search(h, f, c)
  <2>1. ASSUME NEW f, NEW c
        PROVE  Asked(f, c) = Search(h, f, c)
    <3> DEFINE hit == SelectLastInSeq(LoadOrder, LAMBDA d : ParentOf[d] = c /\ f[d] # None)
    <3>1. Asked(f, c) = IF c \notin h THEN None ELSE IF hit = 0 THEN c ELSE f[LoadOrder[hit]]
      OBVIOUS
    <3>2. hit = IF Found(f, c) # {} THEN Max(Found(f, c)) ELSE 0
      BY DEF SelectLastInSeq, Found
    <3> HIDE DEF hit, Asked
    <3> QED BY <3>1, <3>2, LastFound DEF Search
  <2> HIDE DEF Asked
  <2> QED BY <2>1
<1> HIDE DEF Asked, h
<1>3. \E f : IsRun(f)
  <2>1. PICK f : f = [c \in Controls |-> Search(h, f, c)]
    BY SearchExists
  <2>2. [c \in Controls |-> Search(h, f, c)] = [c \in Controls |-> Asked(f, c)]
    BY <1>2
  <2> QED BY <2>1, <2>2
<1>4. IsRun(run)
  <2> HIDE DEF IsRun
  <2> QED BY <1>3
<1> HIDE DEF run
<1>5. \A c \in Controls : run[c] = Search(h, run, c)
  BY <1>2, <1>4
<1> QED BY <1>1, <1>5 DEF h

-----------------------------------------------------------------------------
(***************************************************************************)
(* What the search finds is painted last.                                  *)
(***************************************************************************)

\* Everything lies below the base canvas, and only controls above a control.
LEMMA AllBelowBase ==
  \A c \in Controls : Base \in Upwards[c] /\ Upwards[c] \subseteq Controls
<1> DEFINE N == Len(LoadOrder)
           T == {k \in 0..N : \A c \in First(k) : Base \in Upwards[c] /\ Upwards[c] \subseteq Controls}
<1>0. N \in Nat /\ First(N) = Controls
  BY FirstControls
<1>1. 0 \in T
  <2>1. Base \in Controls /\ First(0) = {Base}
    BY FirstControls, UserInterfaceAssumption
  <2>2. Upwards[Base] = {Base}
    BY <2>1, UpwardsExists
  <2> QED BY <1>0, <2>1, <2>2
<1>2. ASSUME NEW k \in 1..N, k - 1 \in T
      PROVE  k \in T
  <2> DEFINE e == LoadOrder[k]
  <2>1. First(k) = First(k - 1) \cup {e} /\ e \in Controls /\ e # Base /\ ParentOf[e] \in First(k - 1)
    BY FirstControls
  <2>2. Upwards[e] = {e} \cup Upwards[ParentOf[e]]
    BY <2>1, UpwardsExists
  <2> HIDE DEF e
  <2> QED BY <1>0, <1>2, <2>1, <2>2
<1>3. N \in T
  <2> HIDE DEF T
  <2> QED BY <1>0, <1>1, <1>2, Rounds
<1> QED BY <1>0, <1>3

\* The controls that can be hit, as can all above them.
Reached(h) == {c \in Controls : Upwards[c] \subseteq h}

\* What is to be said of what the search returns for c.
HitsTop(h, f, c) ==
  /\ f[c] # None <=> c \in h
  /\ c \in Reached(h) => /\ f[c] \in Below[c] \cap Reached(h)
                         /\ (Below[c] \cap Reached(h)) \ {f[c]} \subseteq PaintedBefore[f[c]]

LEMMA HitsTopFromChildren ==
  ASSUME NEW h, NEW f, NEW c \in Controls, f[c] = Search(h, f, c),
         \A j \in 1..Len(LoadOrder) : ParentOf[LoadOrder[j]] = c => HitsTop(h, f, LoadOrder[j])
  PROVE  HitsTop(h, f, c)
<1> DEFINE N == Len(LoadOrder)
           F == Found(f, c)
<1>0. /\ N \in Nat /\ DOMAIN LoadOrder = 1..N
      /\ None \notin Controls
      /\ \A j \in 1..N : LoadOrder[j] \in Controls /\ LoadOrder[j] # Base
  BY FirstControls, UserInterfaceAssumption
<1>1. c \in Below[c] /\ c \in Upwards[c]
  BY BelowFacts DEF Below
<1>2. \A j \in 1..N : ParentOf[LoadOrder[j]] = c => Upwards[LoadOrder[j]] = {LoadOrder[j]} \cup Upwards[c]
  BY <1>0, UpwardsExists
\* A child is found if it can be hit.
<1>3. \A j \in 1..N : j \in F <=> ParentOf[LoadOrder[j]] = c /\ LoadOrder[j] \in h
  BY DEF Found, HitsTop
<1>4. CASE c \notin h
  <2>1. f[c] = None /\ c \notin Reached(h)
    BY <1>1, <1>4 DEF Search, Reached
  <2> QED BY <1>4, <2>1 DEF HitsTop
<1>5. CASE c \in h /\ F = {}
  <2>1. f[c] = c
    BY <1>5 DEF Search
  <2>2. ASSUME NEW e \in Below[c], e \in Reached(h)
        PROVE  e = c
    <3>1. SUFFICES ASSUME e # c PROVE FALSE
      OBVIOUS
    <3>2. PICK i \in 1..N : ParentOf[LoadOrder[i]] = c /\ LoadOrder[i] \in Upwards[e]
      BY <3>1, ThroughAChild
    <3>3. LoadOrder[i] \in h
      BY <2>2, <3>2 DEF Reached
    <3> QED BY <1>3, <1>5, <3>2, <3>3
  <2> QED BY <1>0, <1>1, <1>5, <2>1, <2>2 DEF HitsTop
<1>6. CASE c \in h /\ F # {}
  <2> DEFINE m == Max(F)
             d == LoadOrder[m]
             top == f[d]
  <2>1. m \in F /\ \A i \in F : i <= m
    BY <1>6, LastFound
  <2>2. m \in 1..N /\ ParentOf[d] = c /\ d \in h /\ d \in Controls
    BY <1>0, <1>3, <2>1 DEF Found
  <2>3. f[c] = top /\ HitsTop(h, f, d)
    BY <1>6, <2>2 DEF Search
  <2> HIDE DEF top, d, F, m
  <2>4. top # None
    BY <2>2, <2>3 DEF HitsTop, top
  <2>5. ASSUME c \in Reached(h)
        PROVE  /\ top \in Below[c] \cap Reached(h)
               /\ (Below[c] \cap Reached(h)) \ {top} \subseteq PaintedBefore[top]
    <3>1. d \in Reached(h) /\ Upwards[d] = {d} \cup Upwards[c]
      BY <1>2, <2>2, <2>5 DEF Reached, d
    <3>2. /\ top \in Below[d] \cap Reached(h)
          /\ (Below[d] \cap Reached(h)) \ {top} \subseteq PaintedBefore[top]
      BY <2>3, <3>1 DEF HitsTop, top
    <3>3. top \in Controls /\ d \in Upwards[top] /\ Upwards[d] \subseteq Upwards[top]
      BY <2>2, <3>2, AboveIsTransitive DEF Below
    <3>4. c \in Upwards[top]
      BY <1>1, <3>1, <3>3
    <3>5. top # c
      <4>1. c \in First(m - 1)
        BY <2>2, FirstControls DEF d
      <4>2. c \notin Below[d]
        BY <2>2, <4>1, BelowIsLater DEF d
      <4> QED BY <3>2, <4>2
    <3>6. PaintedBefore[top] =
            (Upwards[top] \ {top}) \cup
            {b \in Controls : \E i, j \in DOMAIN LoadOrder :
               /\ i < j /\ ParentOf[LoadOrder[i]] = ParentOf[LoadOrder[j]]
               /\ LoadOrder[i] \in Upwards[b] /\ LoadOrder[j] \in Upwards[top]}
      BY <3>3 DEF PaintedBefore
    <3>7. ASSUME NEW e \in Below[c], e \in Reached(h), e # top, e # c
          PROVE  e \in PaintedBefore[top]
      <4>1. PICK i \in 1..N : ParentOf[LoadOrder[i]] = c /\ LoadOrder[i] \in Upwards[e]
        BY <3>7, ThroughAChild
      <4>2. LoadOrder[i] \in h
        BY <3>7, <4>1 DEF Reached
      <4>3. i \in F /\ i <= m /\ e \in Controls
        BY <1>3, <2>1, <3>7, <4>1, <4>2 DEF Reached
      <4>4. CASE i = m
        <5>1. e \in Below[d]
          BY <2>2, <4>1, <4>3, <4>4 DEF Below, d
        <5> QED BY <3>2, <3>7, <5>1
      <4>5. CASE i # m
        <5>1. i < m /\ i \in DOMAIN LoadOrder /\ m \in DOMAIN LoadOrder
          BY <1>0, <2>2, <4>3, <4>5
        <5> QED BY <2>2, <3>3, <3>6, <4>1, <4>3, <5>1 DEF d
      <4> QED BY <4>4, <4>5
    <3>8. c \in PaintedBefore[top]
      BY <3>4, <3>5, <3>6
    <3>9. top \in Below[c]
      BY <3>3, <3>4 DEF Below
    <3> QED BY <3>2, <3>7, <3>8, <3>9
  <2> QED BY <1>6, <2>3, <2>4, <2>5 DEF HitsTop
<1> QED BY <1>4, <1>5, <1>6

LEMMA SearchHitsTop ==
  ASSUME NEW t, NEW y, Reached(Hittable(t, y)) # {}
  PROVE  LET hit == GetFocusedControlAtPoint(t, y)
         IN  /\ hit \in Reached(Hittable(t, y))
             /\ Reached(Hittable(t, y)) \ {hit} \subseteq PaintedBefore[hit]
<1> DEFINE h == Hittable(t, y)
           N == Len(LoadOrder)
<1>1. PICK f : /\ \A c \in Controls : f[c] = Search(h, f, c)
               /\ GetFocusedControlAtPoint(t, y) = f[Base]
  BY SearchOfBase
<1> HIDE DEF h
<1> DEFINE T == {k \in 0..N : \A c \in Late(k) : HitsTop(h, f, c)}
<1>2. N \in Nat /\ Base \in Controls
  BY FirstControls, UserInterfaceAssumption
<1>3. 0 \in T
  BY <1>2, LateControls
<1>4. ASSUME NEW k \in 1..N, k - 1 \in T
      PROVE  k \in T
  <2> DEFINE e == LoadOrder[N - k + 1]
  <2>1. /\ Late(k) = Late(k - 1) \cup {e} /\ e \in Controls
        /\ \A j \in 1..N : ParentOf[LoadOrder[j]] \in Late(k) => LoadOrder[j] \in Late(k - 1)
    BY LateControls
  <2> HIDE DEF e
  <2>2. \A j \in 1..N : ParentOf[LoadOrder[j]] = e => HitsTop(h, f, LoadOrder[j])
    BY <1>4, <2>1
  <2>3. HitsTop(h, f, e)
    BY <1>1, <2>1, <2>2, HitsTopFromChildren
  <2>4. k \in 0..N
    BY <1>2
  <2> QED BY <1>4, <2>1, <2>3, <2>4
<1>5. N \in T
  <2> HIDE DEF T
  <2> QED BY <1>2, <1>3, <1>4, Rounds
<1>6. \A j \in 1..N : HitsTop(h, f, LoadOrder[j])
  <2>1. \A j \in 1..N : LoadOrder[j] \in Controls \ {Base}
    BY FirstControls
  <2> QED BY <1>5, <2>1, LateControls
<1>7. HitsTop(h, f, Base)
  BY <1>1, <1>2, <1>6, HitsTopFromChildren
<1>8. Base \in Reached(h) /\ Below[Base] = Controls
  <2>1. Upwards[Base] = {Base} /\ \A c \in Controls : Base \in Upwards[c]
    BY <1>2, UpwardsExists, AllBelowBase
  <2>2. Base \in h
    BY <2>1 DEF Reached, h
  <2> QED BY <1>2, <2>1, <2>2 DEF Reached, Below
<1>9. Reached(h) \subseteq Controls
  BY DEF Reached
<1> QED BY <1>1, <1>7, <1>8, <1>9 DEF HitsTop, h
-----------------------------------------------------------------------------
(***************************************************************************)
(* Trees, and what the operations on one control leave of the others.      *)
(***************************************************************************)

IsMap(f) == f = [c \in Controls |-> f[c]]

Maps == {"y", "percent", "offset", "share", "height", "centered", "visible", "enabled", "hidden",
         "text", "picture", "mask"}

IsTree(t) ==
  /\ t = [k \in Maps \cup {"stale"} |-> t[k]]
  /\ \A k \in Maps : IsMap(t[k])
  /\ t.stale \subseteq Controls

LEMMA MapChanged ==
  ASSUME NEW f, IsMap(f), NEW c, NEW v
  PROVE  /\ IsMap([f EXCEPT ![c] = v])
         /\ \A d \in Controls : d # c => [f EXCEPT ![c] = v][d] = f[d]
BY DEF IsMap

\* One field is another.
LEMMA FieldSet ==
  ASSUME NEW t, IsTree(t), NEW k \in Maps, NEW f, IsMap(f)
  PROVE  /\ IsTree([t EXCEPT ![k] = f])
         /\ [t EXCEPT ![k] = f].stale = t.stale
         /\ [t EXCEPT ![k] = f][k] = f
         /\ \A j \in Maps \ {k} : [t EXCEPT ![k] = f][j] = t[j]
<1> DEFINE u == [t EXCEPT ![k] = f]
<1>1. u = [j \in Maps \cup {"stale"} |-> u[j]] /\ u[k] = f /\ \A j \in (Maps \cup {"stale"}) \ {k} : u[j] = t[j]
  BY DEF IsTree
<1>2. "stale" \notin Maps
  BY DEF Maps
<1> HIDE DEF u
<1> QED BY <1>1, <1>2 DEF IsTree, u

LEMMA StaleSet ==
  ASSUME NEW t, IsTree(t), NEW s \in SUBSET Controls
  PROVE  /\ IsTree([t EXCEPT !.stale = s])
         /\ [t EXCEPT !.stale = s].stale = s
         /\ \A j \in Maps : [t EXCEPT !.stale = s][j] = t[j]
<1> DEFINE u == [t EXCEPT !["stale"] = s]
<1>1. u = [j \in Maps \cup {"stale"} |-> u[j]] /\ u["stale"] = s /\ \A j \in Maps \ {"stale"} : u[j] = t[j]
  BY DEF IsTree
<1>2. "stale" \notin Maps
  BY DEF Maps
<1> HIDE DEF u
<1>3. IsTree(u) /\ u["stale"] = s /\ \A j \in Maps : u[j] = t[j]
  BY <1>1, <1>2 DEF IsTree
<1> QED BY <1>3 DEF u

\* The same but for what lies below c.
Beside(t, u, c) ==
  /\ IsTree(u)
  /\ u.stale = t.stale
  /\ \A k \in Maps : \A d \in Controls \ Below[c] : u[k][d] = t[k][d]

LEMMA BesideTwice ==
  ASSUME NEW t, NEW u, NEW v, NEW c, Beside(t, u, c), Beside(u, v, c)
  PROVE  Beside(t, v, c)
BY DEF Beside

\* One value of c is another.
Put(t, k, c, v) == [t EXCEPT ![k] = [t[k] EXCEPT ![c] = v]]

LEMMA PutAt ==
  ASSUME NEW t, IsTree(t), NEW k \in Maps, NEW c \in Controls, NEW v
  PROVE  /\ Beside(t, Put(t, k, c, v), c)
         /\ \A j \in Maps \ {k} : Put(t, k, c, v)[j] = t[j]
         /\ \A d \in Controls \ {c} : Put(t, k, c, v)[k][d] = t[k][d]
<1> DEFINE f == [t[k] EXCEPT ![c] = v]
           u == [t EXCEPT ![k] = f]
<1>1. IsMap(f) /\ \A d \in Controls : d # c => f[d] = t[k][d]
  BY MapChanged DEF IsTree
<1> HIDE DEF f
<1>2. IsTree(u) /\ u.stale = t.stale /\ u[k] = f /\ \A j \in Maps \ {k} : u[j] = t[j]
  BY <1>1, FieldSet
<1> HIDE DEF u
<1>3. c \in Below[c]
  BY BelowFacts
<1>4. Put(t, k, c, v) = u
  BY DEF Put, u, f
<1> QED BY <1>1, <1>2, <1>3, <1>4 DEF Beside

\* Nothing is its own parent's parent.
LEMMA ParentIsNotBelow ==
  ASSUME NEW c \in Controls \ {Base}
  PROVE  ParentOf[c] \notin Below[c]
<1>1. Len(LoadOrder) \in Nat /\ {LoadOrder[j] : j \in 1..Len(LoadOrder)} = Controls \ {Base}
  BY FirstControls, UserInterfaceAssumption DEF Range
<1>2. PICK m \in 1..Len(LoadOrder) : LoadOrder[m] = c
  BY <1>1
<1>3. ParentOf[c] \in First(m - 1)
  BY <1>2, FirstControls
<1> QED BY <1>2, <1>3, BelowIsLater

\* What lies above the controls that are not below c, with them.
LEMMA BesideIsUpper ==
  ASSUME NEW c \in Controls
  PROVE  IsUpper(Controls \ Below[c]) /\ IsUpper(Controls)
BY BelowFacts DEF IsUpper

\* The fields that places depend on.
LEMMA PlacesAre ==
  /\ {"y", "percent", "height", "centered", "offset", "hidden"} \subseteq Maps
  /\ "stale" \notin Maps
BY DEF Maps

LEMMA BesideIsSame ==
  ASSUME NEW t, NEW u, NEW c \in Controls, Beside(t, u, c)
  PROVE  \A d \in Controls \ Below[c] : SameAt(t, u, d) /\ t.hidden[d] = u.hidden[d]
<1>1. ASSUME NEW d \in Controls \ Below[c]
      PROVE  SameAt(t, u, d) /\ t.hidden[d] = u.hidden[d]
  <2>1. d # Base => ParentOf[d] \in Controls \ Below[c]
    BY BelowFacts
  <2>2. \A e \in Controls \ Below[c] :
          /\ u["y"][e] = t["y"][e] /\ u["percent"][e] = t["percent"][e] /\ u["height"][e] = t["height"][e]
          /\ u["centered"][e] = t["centered"][e] /\ u["offset"][e] = t["offset"][e]
          /\ u["hidden"][e] = t["hidden"][e]
    BY PlacesAre DEF Beside
  <2> QED BY <2>1, <2>2 DEF SameAt
<1> QED BY <1>1

\* The flags are what they are to be, but for what has moved since they were computed.
Accurate(t) == \A c \in Controls \ t.stale : t.hidden[c] = (c \notin VisibleInParent(t))

\* The flags that were right are, or something has moved that moves unnoticed.
Keeping(t, u) ==
  /\ IsTree(u)
  /\ u.stale \subseteq t.stale \cup MovesUnnoticed
  /\ Accurate(t) => Accurate(u)

LEMMA KeepingTwice ==
  ASSUME NEW t, NEW u, NEW v, Keeping(t, u), Keeping(u, v)
  PROVE  Keeping(t, v)
BY DEF Keeping

LEMMA KeepingItself ==
  ASSUME NEW t, IsTree(t)
  PROVE  Keeping(t, t)
BY DEF Keeping

\* What moves only the controls in D, and says so.
LEMMA LeftStale ==
  ASSUME NEW t, NEW u, IsTree(u), NEW D \in SUBSET MovesUnnoticed, IsUpper(Controls \ D),
         u.stale = t.stale \cup D,
         \A d \in Controls \ D : SameAt(t, u, d) /\ t.hidden[d] = u.hidden[d]
  PROVE  Keeping(t, u)
<1>1. \A d \in Controls \ D : d \in VisibleInParent(t) <=> d \in VisibleInParent(u)
  BY SeenAlike DEF Agree
<1>2. ASSUME Accurate(t), NEW d \in Controls \ u.stale
      PROVE  u.hidden[d] = (d \notin VisibleInParent(u))
  <2>1. d \in Controls \ D /\ t.hidden[d] = (d \notin VisibleInParent(t))
    BY <1>2 DEF Accurate
  <2> QED BY <1>1, <2>1
<1> QED BY <1>2 DEF Keeping, Accurate

\* What changes neither places nor flags.
LEMMA SameKeeps ==
  ASSUME NEW t, NEW u, IsTree(u), u.stale = t.stale,
         \A k \in {"y", "percent", "height", "centered", "offset", "hidden"} : u[k] = t[k]
  PROVE  Keeping(t, u)
<1> DEFINE D == {}
<1>1. IsUpper(Controls \ D)
  <2>1. Controls \ D = Controls
    OBVIOUS
  <2> QED BY <2>1, UserInterfaceAssumption, BesideIsUpper
<1>2. \A d \in Controls \ D : SameAt(t, u, d) /\ t.hidden[d] = u.hidden[d]
  BY DEF SameAt
<1>3. u.stale = t.stale \cup D
  OBVIOUS
<1>4. D \in SUBSET MovesUnnoticed
  OBVIOUS
<1> HIDE DEF D
<1> QED BY <1>1, <1>2, <1>3, <1>4, LeftStale

\* BaseControl::UpdateVisibility: nothing moves, and the flags below c are right.
LEMMA VisibilityUpdated ==
  ASSUME NEW t, IsTree(t), NEW c \in Controls
  PROVE  /\ IsTree(UpdateVisibility(t, c))
         /\ UpdateVisibility(t, c).stale = t.stale \ Below[c]
         /\ \A d \in Controls :
              /\ SameAt(t, UpdateVisibility(t, c), d)
              /\ UpdateVisibility(t, c).hidden[d] =
                   IF d \in Below[c] THEN d \notin VisibleInParent(t) ELSE t.hidden[d]
<1> DEFINE seen == VisibleInParent(t)
           hidden == [d \in Controls |-> IF d \in Below[c] THEN d \notin seen ELSE t.hidden[d]]
           mask == [d \in Controls |-> IF d \in Below[c] \cap seen THEN MadeMask(t, d) ELSE t.mask[d]]
           stale == t.stale \ Below[c]
           u1 == [t EXCEPT !["hidden"] = hidden]
           u2 == [u1 EXCEPT !["mask"] = mask]
           u3 == [u2 EXCEPT !.stale = stale]
<1>1. IsMap(hidden) /\ IsMap(mask) /\ stale \in SUBSET Controls
  BY DEF IsMap, IsTree
<1>2. \A d \in Controls : hidden[d] = IF d \in Below[c] THEN d \notin VisibleInParent(t) ELSE t.hidden[d]
  OBVIOUS
<1>3. UpdateVisibility(t, c) = [t EXCEPT !.hidden = hidden, !.mask = mask, !.stale = stale]
  BY DEF UpdateVisibility, Looked
<1> HIDE DEF hidden, mask, stale, seen
<1>4. UpdateVisibility(t, c) = u3
  BY <1>3
<1>5. "hidden" \in Maps /\ "mask" \in Maps
  BY DEF Maps
<1>6. IsTree(u1) /\ u1["hidden"] = hidden /\ \A j \in Maps \ {"hidden"} : u1[j] = t[j]
  BY <1>1, <1>5, FieldSet
<1> HIDE DEF u1
<1>7. IsTree(u2) /\ \A j \in Maps \ {"mask"} : u2[j] = u1[j]
  BY <1>1, <1>5, <1>6, FieldSet
<1> HIDE DEF u2
<1>8. IsTree(u3) /\ u3.stale = stale /\ \A j \in Maps : u3[j] = u2[j]
  BY <1>1, <1>7, StaleSet
<1> HIDE DEF u3
<1>9. /\ u3["y"] = t["y"] /\ u3["percent"] = t["percent"] /\ u3["height"] = t["height"]
      /\ u3["centered"] = t["centered"] /\ u3["offset"] = t["offset"] /\ u3["hidden"] = hidden
  BY <1>6, <1>7, <1>8 DEF Maps
<1>10. \A d \in Controls : SameAt(t, u3, d)
  BY <1>9 DEF SameAt
<1> QED BY <1>2, <1>4, <1>8, <1>9, <1>10 DEF stale

\* Whatever is done to c and to what lies below it, its UpdateVisibility makes up for it.
LEMMA Refreshed ==
  ASSUME NEW t, NEW u, NEW c \in Controls, Beside(t, u, c)
  PROVE  Keeping(t, UpdateVisibility(u, c))
<1> DEFINE v == UpdateVisibility(u, c)
<1>1. /\ IsTree(v) /\ v.stale = t.stale \ Below[c]
      /\ \A d \in Controls :
           /\ SameAt(u, v, d)
           /\ v.hidden[d] = IF d \in Below[c] THEN d \notin VisibleInParent(u) ELSE u.hidden[d]
  BY VisibilityUpdated DEF Beside
<1> HIDE DEF v
<1>2. \A d \in Controls : d \in VisibleInParent(u) <=> d \in VisibleInParent(v)
  BY <1>1, BesideIsUpper, SeenAlike DEF Agree
<1>3. \A d \in Controls \ Below[c] :
        (d \in VisibleInParent(t) <=> d \in VisibleInParent(u)) /\ t.hidden[d] = u.hidden[d]
  <2>1. Agree(t, u, Controls \ Below[c]) /\ \A d \in Controls \ Below[c] : t.hidden[d] = u.hidden[d]
    BY BesideIsSame DEF Agree
  <2> QED BY <2>1, BesideIsUpper, SeenAlike
<1>4. ASSUME Accurate(t), NEW d \in Controls \ v.stale
      PROVE  v.hidden[d] = (d \notin VisibleInParent(v))
  <2>1. CASE d \in Below[c]
    BY <1>1, <1>2, <2>1
  <2>2. CASE d \notin Below[c]
    <3>1. t.hidden[d] = (d \notin VisibleInParent(t))
      BY <1>1, <1>4, <2>2 DEF Accurate
    <3> QED BY <1>1, <1>2, <1>3, <2>2, <3>1
  <2> QED BY <2>1, <2>2
<1>5. Keeping(t, v)
  BY <1>1, <1>4 DEF Keeping, Accurate
<1> QED BY <1>5 DEF v

\* For the base canvas all flags are right, whatever they were.
LEMMA AllRefreshed ==
  ASSUME NEW u, IsTree(u), Below[Base] = Controls
  PROVE  LET v == UpdateVisibility(u, Base) IN IsTree(v) /\ v.stale = {} /\ Accurate(v)
<1> DEFINE v == UpdateVisibility(u, Base)
<1>0. Base \in Controls
  BY UserInterfaceAssumption
<1>1. /\ IsTree(v) /\ v.stale = u.stale \ Controls
      /\ \A d \in Controls : SameAt(u, v, d) /\ v.hidden[d] = (d \notin VisibleInParent(u))
  BY <1>0, VisibilityUpdated
<1> HIDE DEF v
<1>2. \A d \in Controls : d \in VisibleInParent(u) <=> d \in VisibleInParent(v)
  BY <1>0, <1>1, BesideIsUpper, SeenAlike DEF Agree
<1>3. v.stale = {}
  BY <1>1 DEF IsTree
<1> QED BY <1>1, <1>2, <1>3 DEF Accurate, v

LEMMA SetPositionKeeps ==
  ASSUME NEW t, IsTree(t), NEW c \in Controls, NEW y
  PROVE  Keeping(t, SetPositionFixed(t, c, y))
<1> DEFINE to == Wrap(y)
           u1 == Put(t, "y", c, to)
           u2 == Put(u1, "percent", c, 0)
<1>1. SetPositionFixed(t, c, y) = UpdateVisibility([t EXCEPT !.y[c] = to, !.percent[c] = 0], c)
  BY DEF SetPositionFixed
<1> HIDE DEF to
<1>2. [t EXCEPT !.y[c] = to, !.percent[c] = 0] = u2
  BY DEF Put
<1>3. Beside(t, u1, c)
  BY PutAt, PlacesAre
<1> HIDE DEF u1
<1>4. Beside(u1, u2, c)
  BY <1>3, PutAt, PlacesAre DEF Beside
<1> HIDE DEF u2
<1> QED BY <1>1, <1>2, <1>3, <1>4, BesideTwice, Refreshed

LEMMA SetOffsetKeeps ==
  ASSUME NEW t, IsTree(t), NEW c \in Controls, NEW offset
  PROVE  Keeping(t, SetOffset(t, c, offset))
<1>1. SetOffset(t, c, offset) = UpdateVisibility(Put(t, "offset", c, offset), c)
  BY DEF SetOffset, Put
<1>2. Beside(t, Put(t, "offset", c, offset), c)
  BY PutAt, PlacesAre
<1> QED BY <1>1, <1>2, Refreshed

\* BaseControl::SetParentSize of what is below.
LEMMA BesideResized ==
  ASSUME NEW t, IsTree(t), NEW c \in Controls
  PROVE  Beside(t, Resized(t, c), c)
<1>1. PICK w : /\ Resized(t, c) = [t EXCEPT !.height = [d \in Controls |-> w[d]]]
               /\ \A d \in (Controls \ Below[c]) \cup {c} : w[d] = t.height[d]
  BY HeightsExist
<1> DEFINE f == [d \in Controls |-> w[d]]
           u == [t EXCEPT !["height"] = f]
<1>2. IsMap(f) /\ \A d \in Controls \ Below[c] : f[d] = t["height"][d]
  BY <1>1 DEF IsMap
<1>3. Resized(t, c) = u
  BY <1>1
<1> HIDE DEF f
<1>4. IsTree(u) /\ u.stale = t.stale /\ u["height"] = f /\ \A j \in Maps \ {"height"} : u[j] = t[j]
  BY <1>2, FieldSet, PlacesAre
<1> HIDE DEF u
<1> QED BY <1>2, <1>3, <1>4 DEF Beside

LEMMA SetSizeIs ==
  ASSUME NEW t, IsTree(t), NEW c \in Controls, NEW height, NEW share
  PROVE  \E u : Beside(t, u, c) /\ SetSize(t, c, height, share) = UpdateVisibility(u, c)
<1> DEFINE u1 == Put(t, "height", c, height)
           u2 == Put(u1, "share", c, share)
           u3 == Put(u2, "mask", c, 0)
<1>1. SetSize(t, c, height, share) =
        UpdateVisibility(Resized([t EXCEPT !.height[c] = height, !.share[c] = share, !.mask[c] = 0], c), c)
  BY DEF SetSize
<1>2. [t EXCEPT !.height[c] = height, !.share[c] = share, !.mask[c] = 0] = u3
  BY DEF Put
<1>3. {"height", "share", "mask"} \subseteq Maps
  BY DEF Maps
<1>4. Beside(t, u1, c)
  BY <1>3, PutAt
<1> HIDE DEF u1
<1>5. Beside(u1, u2, c)
  BY <1>3, <1>4, PutAt DEF Beside
<1> HIDE DEF u2
<1>6. Beside(u2, u3, c)
  BY <1>3, <1>5, PutAt DEF Beside
<1> HIDE DEF u3
<1>7. Beside(u3, Resized(u3, c), c)
  BY <1>6, BesideResized DEF Beside
<1>8. Beside(t, Resized(u3, c), c)
  BY <1>4, <1>5, <1>6, <1>7, BesideTwice
<1> QED BY <1>1, <1>2, <1>8

LEMMA SetSizeKeeps ==
  ASSUME NEW t, IsTree(t), NEW c \in Controls, NEW height, NEW share
  PROVE  Keeping(t, SetSize(t, c, height, share))
BY SetSizeIs, Refreshed

\* What shows or hides a control, enables it, or changes what it says, leaves the flags right.
LEMMA PutKeeps ==
  ASSUME NEW t, IsTree(t), NEW k \in {"visible", "enabled", "text", "picture", "mask"},
         NEW c \in Controls, NEW v
  PROVE  Keeping(t, Put(t, k, c, v))
<1> DEFINE u == Put(t, k, c, v)
<1>1. IsTree(u) /\ u.stale = t.stale /\ \A j \in Maps \ {k} : u[j] = t[j]
  BY PutAt DEF Beside, Maps
<1> HIDE DEF u
<1>2. \A j \in {"y", "percent", "height", "centered", "offset", "hidden"} : j \in Maps \ {k}
  BY DEF Maps
<1>3. Keeping(t, u)
  BY <1>1, <1>2, SameKeeps
<1> QED BY <1>3 DEF u

\* A label that scrolls: only what is inside it moves.
LEMMA ScrollKeeps ==
  ASSUME NEW t, IsTree(t), NEW c \in Scrolling, NEW v
  PROVE  Keeping(t, [t EXCEPT !.offset[c] = v, !.stale = @ \cup (Below[c] \ {c})])
<1> DEFINE D == Below[c] \ {c}
           u1 == Put(t, "offset", c, v)
           stale == t.stale \cup D
           u == [u1 EXCEPT !.stale = stale]
<1>0. c \in Controls /\ D \in SUBSET MovesUnnoticed /\ stale \in SUBSET Controls
  <2>1. c \in Controls
    BY UserInterfaceAssumption DEF Labels
  <2>2. D \subseteq Controls
    BY <2>1, BelowFacts
  <2> QED BY <2>1, <2>2 DEF MovesUnnoticed, IsTree
<1>1. [t EXCEPT !.offset[c] = v, !.stale = @ \cup (Below[c] \ {c})] = u
  BY DEF Put
<1>2. /\ IsTree(u1) /\ u1.stale = t.stale
      /\ \A j \in Maps \ {"offset"} : u1[j] = t[j]
      /\ \A d \in Controls \ {c} : u1["offset"][d] = t["offset"][d]
  BY <1>0, PutAt, PlacesAre DEF Beside
<1> HIDE DEF u1, stale
<1>3. IsTree(u) /\ u.stale = stale /\ \A j \in Maps : u[j] = u1[j]
  BY <1>0, <1>2, StaleSet
<1> HIDE DEF u
<1>4. \A d \in Controls \ D : d # Base => ParentOf[d] \in Controls \ D /\ ParentOf[d] # c
  <2>1. ASSUME NEW d \in Controls \ D, d # Base
        PROVE  ParentOf[d] \in Controls /\ ParentOf[d] \notin Below[c]
    <3>1. ParentOf[d] \in Controls /\ (ParentOf[d] \in Below[c] => d \in Below[c])
      BY <1>0, <2>1, BelowFacts
    <3>2. d = c => ParentOf[d] \notin Below[c]
      BY <2>1, ParentIsNotBelow
    <3> QED BY <3>1, <3>2
  <2>2. c \in Below[c]
    BY <1>0, BelowFacts
  <2> QED BY <2>1, <2>2
<1>5. \A d \in Controls \ D : SameAt(t, u, d) /\ t.hidden[d] = u.hidden[d]
  <2>1. /\ u["y"] = t["y"] /\ u["percent"] = t["percent"] /\ u["height"] = t["height"]
        /\ u["centered"] = t["centered"] /\ u["hidden"] = t["hidden"]
        /\ u["offset"] = u1["offset"]
    BY <1>2, <1>3 DEF Maps
  <2> QED BY <1>2, <1>4, <2>1 DEF SameAt
<1>6. IsUpper(Controls \ D)
  BY <1>4 DEF IsUpper
<1>7. u.stale = t.stale \cup D
  BY <1>3 DEF stale
<1> HIDE DEF D
<1>8. Keeping(t, u)
  BY <1>0, <1>3, <1>5, <1>6, <1>7, LeftStale
<1> QED BY <1>1, <1>8

\* Label::SetText.
LEMMA SetTextKeeps ==
  ASSUME NEW t, IsTree(t), NEW c \in Labels, NEW text
  PROVE  Keeping(t, SetText(t, c, text))
<1> DEFINE picture == Fitted(t, c, text)
           said == [t EXCEPT !.text[c] = text, !.picture[c] = picture, !.mask[c] = picture]
           delta == Signed(Wrap(picture - t.height[c]))
           up == -delta
           scrolls == text # NoText /\ c \in Scrolling /\ delta > 0
<1>1. SetText(t, c, text) = IF text = t.text[c] THEN t
                            ELSE IF scrolls THEN [said EXCEPT !.offset[c] = up, !.stale = @ \cup (Below[c] \ {c})]
                            ELSE said
  BY DEF SetText
<1>2. scrolls => c \in Scrolling
  OBVIOUS
<1> DEFINE u1 == Put(t, "text", c, text)
           u2 == Put(u1, "picture", c, picture)
           u3 == Put(u2, "mask", c, picture)
<1>3. c \in Controls
  BY DEF Labels
<1> HIDE DEF picture, up, scrolls
<1>4. said = u3
  BY DEF Put
<1> HIDE DEF said
<1>5. Keeping(t, u1) /\ IsTree(u1)
  BY <1>3, PutKeeps DEF Keeping
<1> HIDE DEF u1
<1>6. Keeping(u1, u2) /\ IsTree(u2)
  BY <1>3, <1>5, PutKeeps DEF Keeping
<1> HIDE DEF u2
<1>7. Keeping(u2, u3) /\ IsTree(u3)
  BY <1>3, <1>6, PutKeeps DEF Keeping
<1> HIDE DEF u3
<1>8. Keeping(t, said) /\ IsTree(said)
  BY <1>4, <1>5, <1>6, <1>7, KeepingTwice
<1>9. scrolls => Keeping(t, [said EXCEPT !.offset[c] = up, !.stale = @ \cup (Below[c] \ {c})])
  BY <1>2, <1>8, ScrollKeeps, KeepingTwice
<1> QED BY <1>1, <1>8, <1>9, KeepingItself

\* Anything a script assigns.
LEMMA AppliedKeeps ==
  ASSUME NEW t, IsTree(t), NEW a, IsAssignment(a)
  PROVE  Keeping(t, Applied(t, a))
<1> DEFINE c == a.control
           v == a.value
           to == Wrap(v)
<1>0. c \in Controls
  BY DEF IsAssignment
<1>1. CASE a.kind = "is_visible"
  <2>1. Applied(t, a) = Put(t, "visible", c, v)
    BY <1>1 DEF Applied, Put
  <2> HIDE DEF c, v
  <2> QED BY <1>0, <2>1, PutKeeps
<1>2. CASE a.kind = "is_enabled"
  <2>1. Applied(t, a) = Put(t, "enabled", c, v)
    BY <1>2 DEF Applied, Put
  <2> HIDE DEF c, v
  <2> QED BY <1>0, <2>1, PutKeeps
<1>3. CASE a.kind = "pos_y"
  <2>1. Applied(t, a) = SetPositionFixed(t, c, v)
    BY <1>3 DEF Applied
  <2> HIDE DEF c, v
  <2> QED BY <1>0, <2>1, SetPositionKeeps
<1>4. CASE a.kind = "height"
  <2> DEFINE room == IF c = Base THEN t.height[c] ELSE t.height[ParentOf[c]]
             share == <<to, room>>
  <2>1. Applied(t, a) = SetSize(t, c, to, share)
    BY <1>4 DEF Applied
  <2> HIDE DEF c, v, to, share
  <2> QED BY <1>0, <2>1, SetSizeKeeps
<1>5. CASE a.kind = "text"
  <2>1. Applied(t, a) = IF c \in Labels THEN SetText(t, c, v) ELSE t
    BY <1>5 DEF Applied
  <2> HIDE DEF c, v
  <2> QED BY <2>1, SetTextKeeps, KeepingItself
<1> QED BY <1>1, <1>2, <1>3, <1>4, <1>5 DEF IsAssignment

IsScript(s) == Len(s) \in Nat /\ \A n \in 1..Len(s) : IsAssignment(s[n])

LEMMA ScriptsAre ==
  /\ \A s \in Scripts : IsScript(s)
  /\ IsScript(NoScript)
<1>1. ASSUME NEW s \in Scripts
      PROVE  IsScript(s)
  <2>1. s \in Seq(Range(s)) /\ \A n \in DOMAIN s : IsAssignment(s[n])
    BY UserInterfaceAssumption
  <2>2. Len(s) \in Nat /\ DOMAIN s = 1..Len(s)
    BY <2>1
  <2> QED BY <2>1, <2>2 DEF IsScript
<1> QED BY <1>1 DEF IsScript, NoScript

\* A script, assignment by assignment.
LEMMA RunScriptKeeps ==
  ASSUME NEW t, IsTree(t), NEW s, IsScript(s)
  PROVE  Keeping(t, RunScript(t, s))
<1> DEFINE N == Len(s)
           Round(f, k) == IF k = 0 THEN t ELSE Applied(f[k - 1], s[k])
           IsRun(f, n) == f = [k \in 0..n |-> Round(f, k)]
           T == {n \in 0..N : \E f : IsRun(f, n)}
<1>0. N \in Nat
  BY DEF IsScript
<1>1. 0 \in T
  <2> DEFINE f == [k \in 0..0 |-> t]
  <2>1. IsRun(f, 0)
    OBVIOUS
  <2> HIDE DEF IsRun, f
  <2> QED BY <1>0, <2>1
<1>2. ASSUME NEW n \in 1..N, n - 1 \in T
      PROVE  n \in T
  <2>1. PICK f : IsRun(f, n - 1)
    BY <1>2
  <2> DEFINE next == Applied(f[n - 1], s[n])
             g == [k \in 0..n |-> IF k = n THEN next ELSE f[k]]
  <2>2. g[n] = next /\ \A k \in 0..(n-1) : g[k] = f[k]
    <3> HIDE DEF next
    <3> QED BY <1>0
  <2>3. \A k \in 0..n : g[k] = Round(g, k)
    <3>1. ASSUME NEW k \in 0..(n-1)
          PROVE  g[k] = Round(g, k)
      <4>1. f[k] = Round(f, k)
        BY <2>1
      <4>2. k # 0 => k - 1 \in 0..(n-1)
        BY <1>0
      <4> HIDE DEF g
      <4> QED BY <2>2, <4>1, <4>2
    <3>2. g[n] = Round(g, n)
      <4> HIDE DEF g
      <4> QED BY <1>0, <2>2
    <3>3. \A k \in 0..n : k \in 0..(n-1) \/ k = n
      BY <1>0
    <3> HIDE DEF g, Round
    <3> QED BY <3>1, <3>2, <3>3
  <2>4. IsRun(g, n)
    <3>1. g = [k \in 0..n |-> g[k]]
      OBVIOUS
    <3> HIDE DEF g, Round
    <3> QED BY <2>3, <3>1
  <2> HIDE DEF IsRun, g
  <2>5. n \in 0..N
    BY <1>0
  <2> QED BY <2>4, <2>5
<1>3. N \in T
  <2> HIDE DEF T
  <2> QED BY <1>0, <1>1, <1>2, Rounds
<1> DEFINE run == CHOOSE f : IsRun(f, N)
<1>4. IsRun(run, N)
  <2> HIDE DEF IsRun
  <2> QED BY <1>3
<1>5. RunScript(t, s) = run[N]
  BY DEF RunScript
<1> HIDE DEF run
<1>6. \A k \in 0..N : run[k] = Round(run, k)
  BY <1>4
<1> DEFINE K == {n \in 0..N : Keeping(t, run[n])}
<1>7. 0 \in K
  BY <1>0, <1>6, KeepingItself
<1>8. ASSUME NEW n \in 1..N, n - 1 \in K
      PROVE  n \in K
  <2>1. n \in 0..N /\ n # 0 /\ IsAssignment(s[n])
    BY <1>0 DEF IsScript
  <2>2. Keeping(t, run[n - 1]) /\ IsTree(run[n - 1])
    BY <1>8 DEF Keeping
  <2>3. run[n] = Applied(run[n - 1], s[n])
    BY <1>6, <2>1
  <2> QED BY <2>1, <2>2, <2>3, AppliedKeeps, KeepingTwice
<1>9. N \in K
  <2> HIDE DEF K
  <2> QED BY <1>0, <1>7, <1>8, Rounds
<1> QED BY <1>5, <1>9

\* OnDrag.
LEMMA DraggedKeeps ==
  ASSUME NEW t, IsTree(t), NEW c \in Controls, NEW dy
  PROVE  Keeping(t, Dragged(t, c, dy))
<1>1. Dragged(t, c, dy) = t \/ \E o : Dragged(t, c, dy) = SetOffset(t, c, o)
  <2> DEFINE moved == t.offset[c] + Signed(dy)
             clamped == IF t.text[c] = NoText THEN moved ELSE Max({-t.picture[c], Min({moved, 0})})
  <2>1. Dragged(t, c, dy) = CASE c \in Labels -> SetOffset(t, c, clamped)
                              [] KindOf[c] = "texture" -> SetOffset(t, c, moved)
                              [] OTHER -> t
    BY DEF Dragged
  <2> HIDE DEF moved, clamped
  <2>2. c \in Labels => KindOf[c] # "texture"
    BY DEF Labels
  <2> QED BY <2>1, <2>2
<1> QED BY <1>1, SetOffsetKeeps, KeepingItself

\* UI::HandleDrag, whichever control the drag goes to.
LEMMA HandleDragKeeps ==
  ASSUME NEW t, IsTree(t), NEW p, NEW s, IsScript(s)
  PROVE  Keeping(t, HandleDrag(t, p, s).tree)
<1> DEFINE c == DragControl(t, p, mouse.y)
           free == Answers(t, c) /\ c \in Free
           applied == RunScript(t, s)
           dy == Wrap(mouse.y - p.y)
           moved == IF free THEN Dragged(applied, c, dy) ELSE t
<1>1. CASE mouse.y = p.y
  <2>1. HandleDrag(t, p, s).tree = t
    BY <1>1 DEF HandleDrag
  <2> QED BY <2>1, KeepingItself
<1>2. CASE mouse.y # p.y
  <2>1. HandleDrag(t, p, s) = [tree |-> moved, pointer |-> [p EXCEPT !.y = mouse.y, !.drag = c]]
    BY <1>2 DEF HandleDrag
  <2>2. HandleDrag(t, p, s).tree = moved
    <3> HIDE DEF moved, c
    <3> QED BY <2>1
  <2>3. Keeping(t, applied) /\ IsTree(applied)
    BY RunScriptKeeps DEF Keeping
  <2>4. free => c \in Controls
    BY DEF Free
  <2> HIDE DEF c, free, applied, dy
  <2>5. free => Keeping(t, Dragged(applied, c, dy))
    BY <2>3, <2>4, DraggedKeeps, KeepingTwice
  <2> QED BY <2>2, <2>5, KeepingItself
<1> QED BY <1>1, <1>2

LEMMA EnteredKeeps ==
  ASSUME NEW t, IsTree(t), NEW c, NEW s, IsScript(s)
  PROVE  Keeping(t, Entered(t, c, s))
BY RunScriptKeeps, KeepingItself DEF Entered

\* UI::HandleMoveMouse: up to two scripts, one after the other.
LEMMA HandleMoveMouseKeeps ==
  ASSUME NEW t, IsTree(t), NEW p, NEW e, IsScript(e), NEW f, IsScript(f)
  PROVE  Keeping(t, HandleMoveMouse(t, p, e, f).tree)
<1> DEFINE up == [p EXCEPT !.drag = None]
           c == GetFocusedControlAtPoint(t, mouse.y)
           left == IF Answers(t, p.over) THEN RunScript(t, e) ELSE t
           after == IF c = p.over THEN t ELSE Entered(left, c, f)
<1>1. HandleMoveMouse(t, p, e, f) =
        IF mouse.y = p.y THEN [tree |-> t, pointer |-> up]
        ELSE [tree |-> after, pointer |-> [up EXCEPT !.y = mouse.y, !.over = c]]
  BY DEF HandleMoveMouse
<1>2. Keeping(t, left) /\ IsTree(left)
  BY RunScriptKeeps, KeepingItself DEF Keeping
<1> HIDE DEF left, c
<1>3. Keeping(t, after)
  BY <1>2, EnteredKeeps, KeepingTwice, KeepingItself
<1> HIDE DEF after, up
<1>4. HandleMoveMouse(t, p, e, f).tree \in {t, after}
  BY <1>1
<1> QED BY <1>3, <1>4, KeepingItself

\* WorldScene::UpdateDebugInfo.
LEMMA UpdateDebugInfoKeeps ==
  ASSUME NEW t, IsTree(t), NEW text
  PROVE  Keeping(t, UpdateDebugInfo(t, text))
<1>1. DebugLabel # None => DebugLabel \in Labels
  BY UserInterfaceAssumption
<1> QED BY <1>1, SetTextKeeps, KeepingItself DEF UpdateDebugInfo

\* MouseCursor::Render: only cursors move, and what is inside them.
LEMMA CursorsRenderedKeeps ==
  ASSUME NEW t, IsTree(t)
  PROVE  Keeping(t, CursorsRendered(t))
<1> DEFINE shown == {c \in Cursors : IsRendered(t, c)}
           D == UNION {Below[c] : c \in shown}
           ys == [c \in Controls |-> IF c \in shown THEN mouse.y ELSE t.y[c]]
           percents == [c \in Controls |-> IF c \in shown THEN 0 ELSE t.percent[c]]
           stale == t.stale \cup D
           u1 == [t EXCEPT !["y"] = ys]
           u2 == [u1 EXCEPT !["percent"] = percents]
           u == [u2 EXCEPT !.stale = stale]
<1>1. CursorsRendered(t) = [t EXCEPT !.y = ys, !.percent = percents, !.stale = @ \cup D]
  BY DEF CursorsRendered
<1>2. shown \subseteq Cursors /\ shown \subseteq Controls
  BY DEF Cursors
<1>3. /\ IsMap(ys) /\ IsMap(percents)
      /\ \A d \in Controls \ shown : ys[d] = t["y"][d] /\ percents[d] = t["percent"][d]
  BY DEF IsMap
<1> HIDE DEF shown, ys, percents
<1>4. D \in SUBSET MovesUnnoticed /\ D \in SUBSET Controls /\ shown \subseteq D
  BY <1>2, BelowFacts DEF MovesUnnoticed
<1>5. \A d \in Controls \ D : d # Base => ParentOf[d] \in Controls \ D
  BY <1>2, BelowFacts
<1> HIDE DEF D
<1>6. [t EXCEPT !.y = ys, !.percent = percents, !.stale = @ \cup D] = u
  OBVIOUS
<1>7. IsTree(u1) /\ u1.stale = t.stale /\ u1["y"] = ys /\ \A j \in Maps \ {"y"} : u1[j] = t[j]
  BY <1>3, FieldSet, PlacesAre
<1> HIDE DEF u1
<1>8. IsTree(u2) /\ u2["percent"] = percents /\ \A j \in Maps \ {"percent"} : u2[j] = u1[j]
  BY <1>3, <1>7, FieldSet, PlacesAre
<1> HIDE DEF u2
<1>9. IsTree(u) /\ u.stale = stale /\ \A j \in Maps : u[j] = u2[j]
  BY <1>4, <1>8, StaleSet DEF IsTree
<1> HIDE DEF u, stale
<1>10. /\ u["y"] = ys /\ u["percent"] = percents /\ u["height"] = t["height"]
       /\ u["centered"] = t["centered"] /\ u["offset"] = t["offset"] /\ u["hidden"] = t["hidden"]
  BY <1>7, <1>8, <1>9 DEF Maps
<1>11. \A d \in Controls \ D : SameAt(t, u, d) /\ t.hidden[d] = u.hidden[d]
  BY <1>3, <1>4, <1>10 DEF SameAt
<1>12. IsUpper(Controls \ D)
  BY <1>5 DEF IsUpper
<1>13. Keeping(t, u)
  BY <1>4, <1>9, <1>11, <1>12, LeftStale DEF stale
<1> QED BY <1>1, <1>6, <1>13

-----------------------------------------------------------------------------
(***************************************************************************)
(* Loading, and the confirmation of all sizes at its end.                  *)
(***************************************************************************)

LEMMA EmptyIsTree ==
  ASSUME NEW height
  PROVE  IsTree(EmptyTree(height))
<1> DEFINE t == EmptyTree(height)
           zeros == [c \in Controls |-> 0]
<1>1. t = [y |-> zeros, percent |-> zeros, offset |-> zeros, share |-> [c \in Controls |-> <<100, 100>>],
           height |-> [zeros EXCEPT ![Base] = height], centered |-> [c \in Controls |-> FALSE],
           visible |-> [c \in Controls |-> TRUE], enabled |-> [c \in Controls |-> TRUE],
           hidden |-> [c \in Controls |-> FALSE], text |-> [c \in Controls |-> NoText],
           picture |-> zeros, mask |-> zeros, stale |-> {}]
  BY DEF EmptyTree
<1>2. \A v : IsMap([c \in Controls |-> v])
  BY DEF IsMap
<1>3. IsMap([zeros EXCEPT ![Base] = height])
  <2>1. IsMap(zeros)
    BY <1>2
  <2> QED BY <2>1, MapChanged
<1> HIDE DEF zeros, t
<1>4. IsMap(zeros)
  BY <1>2 DEF zeros
<1>5. t = [k \in Maps \cup {"stale"} |-> t[k]] /\ t.stale = {}
  BY <1>1 DEF Maps
<1>6. /\ IsMap(t["y"]) /\ IsMap(t["percent"]) /\ IsMap(t["offset"]) /\ IsMap(t["share"])
      /\ IsMap(t["height"]) /\ IsMap(t["centered"]) /\ IsMap(t["visible"]) /\ IsMap(t["enabled"])
      /\ IsMap(t["hidden"]) /\ IsMap(t["text"]) /\ IsMap(t["picture"]) /\ IsMap(t["mask"])
  BY <1>1, <1>2, <1>3, <1>4
<1>7. \A k \in Maps : IsMap(t[k])
  BY <1>6 DEF Maps
<1> QED BY <1>5, <1>7 DEF IsTree, t

LEMMA SetupFromJsonIsTree ==
  ASSUME NEW t, IsTree(t), NEW c \in Controls
  PROVE  IsTree(SetupFromJson(t, c))
<1> DEFINE centered == c \in Centered
           visible == c \notin Invisible
           height == t.height[c]
           common == [t EXCEPT !.centered[c] = centered, !.visible[c] = visible]
           u1 == Put(t, "centered", c, centered)
           u2 == Put(u1, "visible", c, visible)
<1>1. SetupFromJson(t, c) = CASE KindOf[c] = "label"   -> SetText(common, c, FirstText[c])
                              [] KindOf[c] = "texture" -> [common EXCEPT !.mask[c] = height]
                              [] OTHER                 -> common
  BY DEF SetupFromJson
<1>2. {"centered", "visible", "mask"} \subseteq Maps
  BY DEF Maps
<1> HIDE DEF centered, visible, height
<1>3. common = u2
  BY DEF Put
<1>4. IsTree(u1)
  BY <1>2, PutAt DEF Beside
<1> HIDE DEF u1
<1>5. IsTree(u2)
  BY <1>2, <1>4, PutAt DEF Beside
<1> HIDE DEF common, u2
<1>6. IsTree(common)
  BY <1>3, <1>5
<1>7. CASE KindOf[c] = "label"
  <2>1. c \in Labels /\ SetupFromJson(t, c) = SetText(common, c, FirstText[c])
    BY <1>1, <1>7 DEF Labels
  <2> QED BY <1>6, <2>1, SetTextKeeps DEF Keeping
<1>8. CASE KindOf[c] = "texture"
  <2>1. SetupFromJson(t, c) = Put(common, "mask", c, height)
    BY <1>1, <1>8 DEF Put
  <2> QED BY <1>2, <1>6, <2>1, PutAt DEF Beside
<1>9. CASE KindOf[c] \notin {"label", "texture"}
  <2>1. SetupFromJson(t, c) = common
    BY <1>1, <1>9
  <2> QED BY <1>6, <2>1
<1> QED BY <1>7, <1>8, <1>9

\* UI::LoadControl.
LEMMA LoadControlIsTree ==
  ASSUME NEW t, IsTree(t), NEW c \in Controls
  PROVE  IsTree(LoadControl(t, c))
<1> DEFINE size == (t.height[ParentOf[c]] * Sized[c]) \div 100
           share == <<Sized[c], 100>>
           percent == Placed[c]
           sized == SetSize(t, c, size, share)
           set == Put(sized, "percent", c, percent)
           placed == UpdateVisibility(set, c)
<1>1. LoadControl(t, c) = SetupFromJson(placed, c)
  BY DEF LoadControl, Put
<1> HIDE DEF size, share, percent
<1>2. IsTree(sized)
  BY SetSizeKeeps DEF Keeping
<1> HIDE DEF sized
<1>3. IsTree(set)
  BY <1>2, PutAt, PlacesAre DEF Beside
<1> HIDE DEF set
<1>4. IsTree(placed)
  BY <1>3, VisibilityUpdated
<1> HIDE DEF placed
<1> QED BY <1>1, <1>4, SetupFromJsonIsTree

LEMMA LoadFromFileIsTree ==
  ASSUME NEW height, NEW s, IsScript(s)
  PROVE  IsTree(LoadFromFile(height, s))
<1> DEFINE N == Len(LoadOrder)
           Round(f, k) == IF k = 0 THEN EmptyTree(height) ELSE LoadControl(f[k - 1], LoadOrder[k])
           IsRun(f, n) == f = [k \in 0..n |-> Round(f, k)]
           T == {n \in 0..N : \E f : IsRun(f, n)}
<1>0. N \in Nat
  BY FirstControls
<1>1. 0 \in T
  <2> DEFINE f == [k \in 0..0 |-> EmptyTree(height)]
  <2>1. IsRun(f, 0)
    OBVIOUS
  <2> HIDE DEF IsRun, f
  <2> QED BY <1>0, <2>1
<1>2. ASSUME NEW n \in 1..N, n - 1 \in T
      PROVE  n \in T
  <2>1. PICK f : IsRun(f, n - 1)
    BY <1>2
  <2> DEFINE next == LoadControl(f[n - 1], LoadOrder[n])
             g == [k \in 0..n |-> IF k = n THEN next ELSE f[k]]
  <2>2. g[n] = next /\ \A k \in 0..(n-1) : g[k] = f[k]
    <3> HIDE DEF next
    <3> QED BY <1>0
  <2>3. \A k \in 0..n : g[k] = Round(g, k)
    <3>1. ASSUME NEW k \in 0..(n-1)
          PROVE  g[k] = Round(g, k)
      <4>1. f[k] = Round(f, k)
        BY <2>1
      <4>2. k # 0 => k - 1 \in 0..(n-1)
        BY <1>0
      <4> HIDE DEF g
      <4> QED BY <2>2, <4>1, <4>2
    <3>2. g[n] = Round(g, n)
      <4> HIDE DEF g
      <4> QED BY <1>0, <2>2
    <3>3. \A k \in 0..n : k \in 0..(n-1) \/ k = n
      BY <1>0
    <3> HIDE DEF g, Round
    <3> QED BY <3>1, <3>2, <3>3
  <2>4. IsRun(g, n)
    <3>1. g = [k \in 0..n |-> g[k]]
      OBVIOUS
    <3> HIDE DEF g, Round
    <3> QED BY <2>3, <3>1
  <2> HIDE DEF IsRun, g
  <2>5. n \in 0..N
    BY <1>0
  <2> QED BY <2>4, <2>5
<1>3. N \in T
  <2> HIDE DEF T
  <2> QED BY <1>0, <1>1, <1>2, Rounds
<1> DEFINE run == CHOOSE f : IsRun(f, N)
<1>4. IsRun(run, N)
  <2> HIDE DEF IsRun
  <2> QED BY <1>3
<1>5. LoadFromFile(height, s) = RunScript(run[N], s)
  BY DEF LoadFromFile
<1> HIDE DEF run
<1>6. \A k \in 0..N : run[k] = Round(run, k)
  BY <1>4
<1> DEFINE K == {n \in 0..N : IsTree(run[n])}
<1>7. 0 \in K
  BY <1>0, <1>6, EmptyIsTree
<1>8. ASSUME NEW n \in 1..N, n - 1 \in K
      PROVE  n \in K
  <2>1. n \in 0..N /\ n # 0 /\ LoadOrder[n] \in Controls
    BY <1>0, FirstControls
  <2>2. run[n] = LoadControl(run[n - 1], LoadOrder[n])
    BY <1>6, <2>1
  <2> QED BY <1>8, <2>1, <2>2, LoadControlIsTree
<1>9. N \in K
  <2> HIDE DEF K
  <2> QED BY <1>0, <1>7, <1>8, Rounds
<1>10. IsTree(run[N])
  BY <1>9
<1> QED BY <1>5, <1>10, RunScriptKeeps DEF Keeping

-----------------------------------------------------------------------------
(***************************************************************************)
(* The flags are right, whatever happens.                                  *)
(***************************************************************************)

IsRight(t) == IsTree(t) /\ Accurate(t) /\ t.stale \subseteq MovesUnnoticed

FlagsRight == screen \in ScreenHeights /\ IsRight(tree)

LEMMA KeepingFlags ==
  ASSUME NEW t, NEW u, IsRight(t), Keeping(t, u)
  PROVE  IsRight(u)
BY DEF IsRight, Keeping

\* UI::ReconfirmSize, whatever the flags were.
LEMMA ReconfirmedIsRight ==
  ASSUME NEW t, IsTree(t), NEW height
  PROVE  IsRight(Reconfirmed(t, height))
<1> DEFINE share == <<100, 100>>
<1>1. Reconfirmed(t, height) = SetSize(t, Base, height, share) /\ Base \in Controls
  BY UserInterfaceAssumption DEF Reconfirmed
<1>2. Below[Base] = Controls
  BY <1>1, AllBelowBase DEF Below
<1> HIDE DEF share
<1>3. PICK u : Beside(t, u, Base) /\ SetSize(t, Base, height, share) = UpdateVisibility(u, Base)
  BY <1>1, SetSizeIs
<1> QED BY <1>1, <1>2, <1>3, AllRefreshed DEF Beside, IsRight

\* WorldScene::Initialize, whatever the script of the file does.
LEMMA LoadedIsRight ==
  ASSUME NEW height \in ScreenHeights, NEW onLoad \in Scripts
  PROVE  IsRight(Loaded[height][onLoad])
<1>1. Loaded[height][onLoad] = Reconfirmed(LoadFromFile(height, onLoad), height)
  BY DEF Loaded
<1> QED BY <1>1, ScriptsAre, LoadFromFileIsTree, ReconfirmedIsRight

LEMMA FlagsStep ==
  ASSUME FlagsRight, [UINext]_uiVars
  PROVE  FlagsRight'
<1>0. screen \in ScreenHeights /\ IsTree(tree) /\ IsRight(tree) /\ IsScript(NoScript) /\ \A s \in Scripts : IsScript(s)
  BY ScriptsAre DEF FlagsRight, IsRight
<1> USE DEF FlagsRight
<1>a. screen' \in ScreenHeights
  BY DEF UINext, uiVars, MoveMouse, SetButtonState, ReconfirmSize, OnPlayerCharacterAdd, SendMessage, Tick,
         UpdateInput, InitializeScene
<1> SUFFICES IsRight(tree')
  BY <1>a DEF IsRight, IsTree, Accurate
<1>1. CASE UNCHANGED tree
  BY <1>0, <1>1
<1>2. ASSUME NEW height, ReconfirmSize(height)
      PROVE  IsRight(tree')
  BY <1>0, <1>2, ReconfirmedIsRight DEF ReconfirmSize
<1>3. ASSUME NEW e, IsScript(e), NEW f, IsScript(f), NEW debug, Tick(e, f, debug)
      PROVE  IsRight(tree')
  <2> DEFINE focused == IF mouse.clicked THEN GetFocusedControlAtPoint(tree, mouse.y) ELSE pointer.focused
             clicked == IF mouse.clicked /\ Answers(tree, focused) /\ IsPointInControl(tree, focused, mouse.y)
                        THEN RunScript(tree, e) ELSE tree
             p == [pointer EXCEPT !.focused = focused]
             moved == IF mouse.down THEN HandleDrag(clicked, p, f) ELSE HandleMoveMouse(clicked, p, e, f)
  <2>1. tree' = UpdateDebugInfo(moved.tree, debug)
    BY <1>3 DEF Tick
  <2>2. Keeping(tree, clicked) /\ IsTree(clicked)
    BY <1>0, <1>3, RunScriptKeeps, KeepingItself DEF Keeping
  <2> HIDE DEF clicked, p
  <2>3. Keeping(clicked, moved.tree) /\ IsTree(moved.tree)
    BY <1>3, <2>2, HandleDragKeeps, HandleMoveMouseKeeps DEF Keeping
  <2> HIDE DEF moved
  <2>4. Keeping(moved.tree, tree')
    BY <2>1, <2>3, UpdateDebugInfoKeeps
  <2> QED BY <1>0, <2>2, <2>3, <2>4, KeepingTwice, KeepingFlags
<1>4. ASSUME NEW s \in Scripts, NEW keyDown, UpdateInput(s, keyDown)
      PROVE  IsRight(tree')
  <2>1. Keeping(tree, RunScript(tree, s)) /\ IsTree(RunScript(tree, s))
    BY <1>0, RunScriptKeeps DEF Keeping
  <2>2. Keeping(RunScript(tree, s), tree')
    BY <1>4, <2>1, CursorsRenderedKeeps DEF UpdateInput
  <2> QED BY <1>0, <2>1, <2>2, KeepingTwice, KeepingFlags
<1>5. ASSUME NEW s \in Scripts, SendMessage(s)
      PROVE  IsRight(tree')
  BY <1>0, <1>5, RunScriptKeeps, KeepingFlags DEF SendMessage
<1>6. ASSUME NEW s \in Scripts, InitializeScene(s)
      PROVE  IsRight(tree')
  BY <1>6, LoadedIsRight DEF InitializeScene
<1>7. CASE UINext
  <2>1. \A happens \in BOOLEAN : \A s \in TickScripts(happens) : IsScript(s)
    BY <1>0 DEF TickScripts
  <2>2. \/ UNCHANGED tree
        \/ \E height : ReconfirmSize(height)
        \/ \E e, f, debug : IsScript(e) /\ IsScript(f) /\ Tick(e, f, debug)
        \/ \E s \in Scripts : \E keyDown : UpdateInput(s, keyDown)
        \/ \E s \in Scripts : SendMessage(s)
        \/ \E s \in Scripts : InitializeScene(s)
    BY <1>7, <2>1 DEF UINext, MoveMouse, SetButtonState, OnPlayerCharacterAdd
  <2> QED BY <1>1, <1>2, <1>3, <1>4, <1>5, <1>6, <2>2
<1> QED BY <1>1, <1>7 DEF uiVars

LEMMA FlagsHold == UISpec => []FlagsRight
<1>1. ASSUME UIInit
      PROVE  FlagsRight
  BY <1>1, LoadedIsRight DEF UIInit, FlagsRight
<1> QED BY <1>1, FlagsStep, PTL DEF UISpec

(* BaseControl::UpdateVisibility is called for a control, and for all below it,
   by what moves or resizes it: UI::ReconfirmSize, scripts and drags; but not
   by Label::SetText, which moves what is inside a label that scrolls, nor by
   MouseCursor::Render.  So whatever scripts assign, no cached flag is ever
   stale but of what these two have moved. *)
THEOREM HiddenIsAccurateAlways == UISpec => []HiddenIsAccurate
<1>1. FlagsRight => HiddenIsAccurate
  BY DEF FlagsRight, IsRight, Accurate, HiddenIsAccurate
<1> QED BY <1>1, FlagsHold, PTL
-----------------------------------------------------------------------------
(***************************************************************************)
(* What is drawn at a point is what can be hit there.                      *)
(***************************************************************************)

LEMMA MaxMin ==
  ASSUME NEW a \in Int, NEW b \in Int
  PROVE  /\ Max({a, b}) \in {a, b} /\ Max({a, b}) >= a /\ Max({a, b}) >= b
         /\ Min({a, b}) \in {a, b} /\ Min({a, b}) <= a /\ Min({a, b}) <= b
<1>1. \E m \in {a, b} : \A i \in {a, b} : m >= i
  <2>1. a >= a /\ b >= b /\ (a >= b \/ b >= a)
    OBVIOUS
  <2> QED BY <2>1
<1>2. \E m \in {a, b} : \A i \in {a, b} : m <= i
  <2>1. a <= a /\ b <= b /\ (a <= b \/ b <= a)
    OBVIOUS
  <2> QED BY <2>1
<1>3. Max({a, b}) \in {a, b} /\ \A i \in {a, b} : Max({a, b}) >= i
  BY <1>1 DEF Max
<1>4. Min({a, b}) \in {a, b} /\ \A i \in {a, b} : Min({a, b}) <= i
  BY <1>2 DEF Min
<1> QED BY <1>3, <1>4

IsSpan(r) == r.from \in Int /\ r.to \in Int

Inside(r, y) == r.from <= y /\ y < r.to

LEMMA IntersectionSpan ==
  ASSUME NEW r, IsSpan(r), NEW s, IsSpan(s)
  PROVE  /\ IsSpan(Intersection(r, s))
         /\ HasIntersection(r, s) <=> HasIntersection(s, r)
         /\ \A y \in Int : Inside(Intersection(r, s), y) <=> Inside(r, y) /\ Inside(s, y)
<1> DEFINE i == Intersection(r, s)
<1>1. /\ r.from \in Int /\ s.from \in Int /\ r.to \in Int /\ s.to \in Int
      /\ i.from = Max({r.from, s.from}) /\ i.to = Min({r.to, s.to})
  BY DEF IsSpan, Intersection
<1> HIDE DEF i
<1>2. /\ i.from \in {r.from, s.from} /\ i.from >= r.from /\ i.from >= s.from
      /\ i.to \in {r.to, s.to} /\ i.to <= r.to /\ i.to <= s.to
  <2>1. ASSUME NEW a \in Int, NEW b \in Int, NEW v, v = Max({a, b})
        PROVE  v \in {a, b} /\ v >= a /\ v >= b
    BY <2>1, MaxMin
  <2>2. ASSUME NEW a \in Int, NEW b \in Int, NEW v, v = Min({a, b})
        PROVE  v \in {a, b} /\ v <= a /\ v <= b
    BY <2>2, MaxMin
  <2>3. i.from \in {r.from, s.from} /\ i.from >= r.from /\ i.from >= s.from
    BY <1>1, <2>1
  <2>4. i.to \in {r.to, s.to} /\ i.to <= r.to /\ i.to <= s.to
    BY <1>1, <2>2
  <2> QED BY <2>3, <2>4
<1>3. i = Intersection(s, r)
  <2>1. {r.from, s.from} = {s.from, r.from} /\ {r.to, s.to} = {s.to, r.to}
    OBVIOUS
  <2> QED BY <2>1 DEF Intersection, i
<1>4. IsSpan(i)
  BY <1>1, <1>2 DEF IsSpan
<1>5. \A y \in Int : Inside(i, y) <=> Inside(r, y) /\ Inside(s, y)
  BY <1>1, <1>2 DEF Inside
<1>6. HasIntersection(r, s) <=> HasIntersection(s, r)
  BY <1>3 DEF HasIntersection, i
<1> QED BY <1>4, <1>5, <1>6 DEF i

\* Where no flag is set above, and none is stale, masks only clip.
LEMMA MasksClip ==
  ASSUME NEW t, Accurate(t), NEW y \in Int
  PROVE  \A c \in Controls :
           (\A d \in Upwards[c] : ~t.hidden[d] /\ d \notin t.stale /\ IsSpan(ScreenSpaceBounds(t)[d])) =>
           (Inside(MaskBoundaries(t)[c], y) <=> \A d \in Upwards[c] : Inside(ScreenSpaceBounds(t)[d], y))
<1> DEFINE N == Len(LoadOrder)
           bounds == ScreenSpaceBounds(t)
           masks == MaskBoundaries(t)
           Shows(c) == \A d \in Upwards[c] : ~t.hidden[d] /\ d \notin t.stale /\ IsSpan(bounds[d])
           Clips(c) == /\ IsSpan(masks[c])
                       /\ Inside(masks[c], y) <=> \A d \in Upwards[c] : Inside(bounds[d], y)
           T == {k \in 0..N : \A c \in First(k) : Shows(c) => Clips(c)}
<1>0. N \in Nat /\ First(N) = Controls
  BY FirstControls
<1>1. 0 \in T
  <2>1. Base \in Controls /\ First(0) = {Base}
    BY FirstControls, UserInterfaceAssumption
  <2>2. Upwards[Base] = {Base}
    BY <2>1, UpwardsExists
  <2>3. masks[Base] = bounds[Base]
    BY <2>1, MasksExist
  <2> HIDE DEF masks, bounds
  <2>4. Shows(Base) => IsSpan(bounds[Base])
    BY <2>2
  <2>5. Shows(Base) => Clips(Base)
    BY <2>2, <2>3, <2>4
  <2> QED BY <1>0, <2>1, <2>5
<1>2. ASSUME NEW k \in 1..N, k - 1 \in T
      PROVE  k \in T
  <2> DEFINE e == LoadOrder[k]
             p == ParentOf[e]
  <2>1. First(k) = First(k - 1) \cup {e} /\ e \in Controls /\ e # Base /\ p \in First(k - 1) /\ p \in Controls
    BY <1>0, FirstControls
  <2>2. Upwards[e] = {e} \cup Upwards[p]
    BY <2>1, UpwardsExists
  <2> HIDE DEF e, p
  <2>3. ASSUME Shows(e)
        PROVE  Clips(e)
    <3>1. Clips(p)
      BY <1>2, <2>1, <2>2, <2>3
    <3>2. e \in VisibleInParent(t)
      BY <2>1, <2>2, <2>3 DEF Accurate
    <3>3. HasIntersection(bounds[e], masks[p])
      BY <2>1, <3>2 DEF VisibleInParent, p
    <3>4. masks[e] = IF HasIntersection(masks[p], bounds[e]) THEN Intersection(masks[p], bounds[e]) ELSE bounds[e]
      BY <2>1, MasksExist DEF p
    <3>5. IsSpan(bounds[e])
      BY <2>2, <2>3
    <3> HIDE DEF masks, bounds
    <3>6. masks[e] = Intersection(masks[p], bounds[e])
      BY <3>1, <3>3, <3>4, <3>5, IntersectionSpan
    <3>7. IsSpan(masks[e]) /\ (Inside(masks[e], y) <=> Inside(masks[p], y) /\ Inside(bounds[e], y))
      BY <3>1, <3>5, <3>6, IntersectionSpan
    <3> QED BY <2>2, <3>1, <3>7
  <2>4. k \in 0..N
    BY <1>0
  <2> HIDE DEF Shows, Clips
  <2> QED BY <1>2, <2>1, <2>3, <2>4
<1>3. N \in T
  <2> HIDE DEF T
  <2> QED BY <1>0, <1>1, <1>2, Rounds
<1> QED BY <1>0, <1>3

LEMMA SmallStays ==
  ASSUME NEW n \in Nat, NEW v \in 0..n - 1
  PROVE  v % n = v
<1>1. n \in Nat /\ v \in Nat /\ 0 <= v /\ v < n /\ v = n * 0 + v
  OBVIOUS
<1> QED BY <1>1, Z3

\* A control where nothing wraps.
IsPlain(t, d) ==
  /\ ScreenSpaceBounds(t)[d].from = ResolvedPositions(t)[d] /\ Signed(t.height[d]) = t.height[d]
  /\ {ResolvedPositions(t)[d], ScreenSpaceBounds(t)[d].to} \subseteq 0..PositionValues - 1

LEMMA PlainIsInside ==
  ASSUME NEW t, NEW d \in Controls, IsPlain(t, d), NEW y \in Int
  PROVE  LET at     == ResolvedPositions(t)[d]
             bounds == ScreenSpaceBounds(t)[d]
         IN  /\ IsSpan(bounds)
             /\ Inside(bounds, y) => y >= at /\ y <= Wrap(at + t.height[d])
             /\ y >= at /\ y <= Wrap(at + t.height[d]) /\ bounds.to # y => Inside(bounds, y)
<1> DEFINE at == ResolvedPositions(t)[d]
           b == ScreenSpaceBounds(t)[d]
           height == t.height[d]
<1>1. b.from = at /\ at \in 0..PositionValues - 1 /\ b.to \in 0..PositionValues - 1 /\ Signed(height) = height
  BY DEF IsPlain
<1>2. b = [from |-> Signed(at), to |-> Signed(at) + Signed(height)]
  BY DEF ScreenSpaceBounds
<1>3. b.from = Signed(at) /\ b.to = Signed(at) + Signed(height)
  BY <1>2
<1> HIDE DEF at, b, height
<1>4. b.to = at + height
  BY <1>1, <1>3
<1>5. Wrap(at + height) = b.to
  <2>1. Wrap(b.to) = b.to
    BY <1>1, SmallStays, UserInterfaceAssumption DEF Wrap
  <2> QED BY <1>4, <2>1
<1>6. PositionValues \in Nat
  BY UserInterfaceAssumption
<1>7. IsSpan(b)
  BY <1>1, <1>6 DEF IsSpan
<1>8. Inside(b, y) <=> y >= at /\ y < b.to
  BY <1>1, <1>6 DEF Inside
<1>9. /\ Inside(b, y) => y >= at /\ y <= b.to
      /\ y >= at /\ y <= b.to /\ b.to # y => Inside(b, y)
  BY <1>1, <1>6, <1>8
<1> QED BY <1>5, <1>7, <1>9 DEF at, b, height

\* Of a usual control, what it is and all above it.
LEMMA UsualIsPlain ==
  ASSUME NEW c \in Controls, IsUsual(c)
  PROVE  \A d \in Upwards[c] : d \in Controls /\ IsPlain(tree, d) /\ d \notin tree.stale
BY AllBelowBase DEF IsUsual, IsPlain

\* What is painted can be hit, and so can all above it.
LEMMA PaintedIsReached ==
  ASSUME IsRight(tree), NEW y \in Int, NEW c \in PaintedAt(y), IsUsual(c), TakesClicks(c)
  PROVE  c \in Reached(Hittable(tree, y))
<1>1. /\ c \in Controls /\ IsRendered(tree, c)
      /\ Inside(MaskBoundaries(tree)[c], y)
  BY DEF PaintedAt, Inside
<1>2. \A d \in Upwards[c] : d \in Controls /\ IsPlain(tree, d) /\ d \notin tree.stale
  BY <1>1, UsualIsPlain
<1>3. /\ tree.visible[Base]
      /\ \A d \in Upwards[c] : d \notin CannotFocus /\ tree.enabled[d]
  BY DEF TakesClicks
<1>4. \A d \in Upwards[c] : tree.visible[d] /\ ~tree.hidden[d]
  <2>1. ASSUME NEW d \in Upwards[c], d = Base
        PROVE  tree.visible[d] /\ ~tree.hidden[d]
    <3>1. Base \in VisibleInParent(tree)
      BY UserInterfaceAssumption DEF VisibleInParent
    <3> QED BY <1>2, <1>3, <2>1, <3>1 DEF IsRight, Accurate
  <2>2. ASSUME NEW d \in Upwards[c], d # Base
        PROVE  tree.visible[d] /\ ~tree.hidden[d]
    BY <1>1, <2>2 DEF IsRendered
  <2> QED BY <2>1, <2>2
<1>5. \A d \in Upwards[c] : IsSpan(ScreenSpaceBounds(tree)[d])
  BY <1>2, PlainIsInside
<1>6. \A d \in Upwards[c] : Inside(ScreenSpaceBounds(tree)[d], y)
  BY <1>1, <1>2, <1>4, <1>5, MasksClip DEF IsRight
<1>7. ASSUME NEW d \in Upwards[c]
      PROVE  d \in Hittable(tree, y)
  <2>1. d \in Controls \ CannotFocus /\ tree.visible[d] /\ ~tree.hidden[d]
    BY <1>2, <1>3, <1>4
  <2>2. GetIsEnabled(tree, d)
    <3>1. Upwards[d] \subseteq Upwards[c]
      BY <1>1, <2>1, AboveIsTransitive
    <3> QED BY <1>3, <3>1 DEF GetIsEnabled
  <2>3. y >= ResolvedPositions(tree)[d] /\ y <= Wrap(ResolvedPositions(tree)[d] + tree.height[d])
    BY <1>2, <1>6, PlainIsInside
  <2> QED BY <2>1, <2>2, <2>3 DEF Hittable
<1> QED BY <1>1, <1>7 DEF Reached

\* What a click goes to can be hit, and so can all above it.
LEMMA HitIsReached ==
  ASSUME NEW t, NEW y, GetFocusedControlAtPoint(t, y) # None
  PROVE  GetFocusedControlAtPoint(t, y) \in Reached(Hittable(t, y))
<1>1. PICK f : /\ \A c \in Controls : f[c] = Search(Hittable(t, y), f, c)
               /\ GetFocusedControlAtPoint(t, y) = f[Base]
  BY SearchOfBase
<1>2. Base \in Controls /\ Upwards[Base] = {Base}
  BY UserInterfaceAssumption, UpwardsExists
<1>3. Base \in Hittable(t, y)
  BY <1>1, <1>2 DEF Search
<1>4. Base \in Reached(Hittable(t, y))
  BY <1>2, <1>3 DEF Reached
<1> QED BY <1>4, SearchHitsTop

\* It is seen there of all controls above it.
LEMMA HitIsSeen ==
  ASSUME IsRight(tree), NEW y \in Int, NEW c \in Reached(Hittable(tree, y)), IsUsual(c),
         \A d \in Upwards[c] : ScreenSpaceBounds(tree)[d].to # y
  PROVE  Inside(MaskBoundaries(tree)[c], y)
<1>1. c \in Controls /\ Upwards[c] \subseteq Hittable(tree, y)
  BY DEF Reached
<1>2. \A d \in Upwards[c] : d \in Controls /\ IsPlain(tree, d) /\ d \notin tree.stale
  BY <1>1, UsualIsPlain
<1>3. \A d \in Upwards[c] : /\ ~tree.hidden[d] /\ y >= ResolvedPositions(tree)[d]
                            /\ y <= Wrap(ResolvedPositions(tree)[d] + tree.height[d])
  BY <1>1 DEF Hittable
<1>4. \A d \in Upwards[c] : IsSpan(ScreenSpaceBounds(tree)[d]) /\ Inside(ScreenSpaceBounds(tree)[d], y)
  BY <1>2, <1>3, PlainIsInside
<1> QED BY <1>1, <1>2, <1>3, <1>4, MasksClip DEF IsRight

(* BaseControl::GetFocusedControlAtPoint asks the children of a control before
   it answers for itself, the last child first, and neither asks one that
   cannot have the focus; RenderChildren draws them in their order, after their
   parent and inside its mask.  So, where no flag is stale, a click goes to
   what is seen at the mouse, in any tree of controls. *)
THEOREM ClicksHitWhatIsSeenAlways == UISpec => []ClicksHitWhatIsSeen
<1>1. ASSUME FlagsRight
      PROVE  ClicksHitWhatIsSeen
  <2> DEFINE Hit(y) == GetFocusedControlAtPoint(tree, y)
  <2>0. IsRight(tree) /\ MousePositions \subseteq Int /\ None \notin Controls
    BY <1>1, UserInterfaceAssumption DEF FlagsRight
  <2>1. ASSUME NEW y \in MousePositions, NEW c \in PaintedAt(y), IsUsual(c), TakesClicks(c)
        PROVE  Hit(y) # None /\ (Hit(y) = c \/ c \in PaintedBefore[Hit(y)])
    <3>1. c \in Reached(Hittable(tree, y))
      BY <2>0, <2>1, PaintedIsReached
    <3>2. /\ Hit(y) \in Reached(Hittable(tree, y))
          /\ Reached(Hittable(tree, y)) \ {Hit(y)} \subseteq PaintedBefore[Hit(y)]
      BY <3>1, SearchHitsTop
    <3>3. Hit(y) \in Controls
      BY <3>2 DEF Reached
    <3> HIDE DEF Hit
    <3> QED BY <2>0, <3>1, <3>2, <3>3
  <2>2. ASSUME NEW y \in MousePositions, Hit(y) # None, IsUsual(Hit(y)),
               \A d \in Upwards[Hit(y)] : ScreenSpaceBounds(tree)[d].to # y
        PROVE  MaskBoundaries(tree)[Hit(y)].from <= y /\ y < MaskBoundaries(tree)[Hit(y)].to
    <3>1. Hit(y) \in Reached(Hittable(tree, y))
      BY <2>2, HitIsReached
    <3> HIDE DEF Hit
    <3>2. Inside(MaskBoundaries(tree)[Hit(y)], y)
      BY <2>0, <2>2, <3>1, HitIsSeen
    <3> QED BY <3>2 DEF Inside
  <2> HIDE DEF Hit
  <2>3. \A y \in MousePositions :
          /\ \A c \in PaintedAt(y) :
               IsUsual(c) /\ TakesClicks(c) => Hit(y) # None /\ (Hit(y) = c \/ c \in PaintedBefore[Hit(y)])
          /\ Hit(y) # None /\ IsUsual(Hit(y)) /\ (\A d \in Upwards[Hit(y)] : ScreenSpaceBounds(tree)[d].to # y) =>
               MaskBoundaries(tree)[Hit(y)].from <= y /\ y < MaskBoundaries(tree)[Hit(y)].to
    BY <2>1, <2>2
  <2> QED BY <2>3 DEF ClicksHitWhatIsSeen, Hit
<1> QED BY <1>1, FlagsHold, PTL

=============================================================================

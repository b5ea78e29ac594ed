---------------------------- MODULE UserInterface ----------------------------
(***************************************************************************)
(* The user interface of the world scene, frame by frame: the tree of      *)
(* controls and what scripts do to it, the mouse, which control has the    *)
(* focus, is hovered or dragged, and whether the keyboard belongs to the   *)
(* character or to the interface.                                          *)
(*                                                                         *)
(* The vertical axis of the screen is looked at, along which labels        *)
(* scroll; the other is treated alike.  Positions and sizes are unsigned   *)
(* in the code and wrap, here at PositionValues.  Everything runs on the   *)
(* main thread: phase says how far Game::MainLoop is in its frame.         *)
(***************************************************************************)
EXTENDS Integers, SequencesExt, FiniteSetsExt

CONSTANTS Base, Controls,  \* the base canvas, and all controls
          LoadOrder,       \* the others in the order of the file, parents first
          ParentOf, KindOf, \* functions of the controls but Base, and of all
          Placed, Sized,   \* y and height in the file, in hundredths of the parent's height
          Centered, Invisible, CannotFocus, \* controls the file says so of
          FitOf,           \* their fit type
          Scrolling, FirstText, \* labels that scroll to the bottom; what labels say at first
          TextHeight,      \* how high the texts are drawn
          DebugLabel,      \* the label that is bound to "debug_info", or None
          Scripts,         \* what a script does: properties it assigns, in their order
          ScreenHeights, MousePositions,
          PositionValues   \* 2^32 in the code

None == "none"
NoText == ""
Labels == {c \in Controls : KindOf[c] = "label"}
Cursors == {c \in Controls : KindOf[c] = "mouseCursor"} \* those with a picture
Free == {c \in Controls : FitOf[c] = "free"}
Texts == DOMAIN TextHeight

(* One assignment to a property of a control. *)
IsAssignment(a) ==
  /\ a.control \in Controls
  /\ \/ a.kind \in {"is_visible", "is_enabled"} /\ a.value \in BOOLEAN
     \/ a.kind \in {"pos_y", "height"} /\ a.value \in Int
     \/ a.kind = "text" /\ a.value \in Texts \cup {NoText}

ASSUME UserInterfaceAssumption ==
  /\ Base \in Controls /\ None \notin Controls /\ KindOf[Base] = "canvas"
  /\ LoadOrder \in Seq(Controls) /\ Range(LoadOrder) = Controls \ {Base}
  /\ \A i, j \in DOMAIN LoadOrder : LoadOrder[i] = LoadOrder[j] => i = j
  /\ \A i \in DOMAIN LoadOrder : ParentOf[LoadOrder[i]] \in {Base} \cup {LoadOrder[j] : j \in 1..i-1}
  /\ PositionValues \in Nat /\ MousePositions \subseteq Nat /\ Controls \subseteq DOMAIN KindOf
  /\ Cursors \subseteq CannotFocus /\ Scrolling \subseteq Labels /\ DebugLabel \in Labels \cup {None}
  /\ \A s \in Scripts : s \in Seq(Range(s)) /\ \A n \in DOMAIN s : IsAssignment(s[n])

VARIABLES phase,    \* "events", and "input" when they and the tick are done
          screen,   \* the height of the screen
          mouse,    \* MouseInput: [y, down, clicked]
          tree,     \* of the controls: their y, height, offset, ... as functions
          pointer,  \* of the UI: [y, focused, over, drag]
          inFocus,  \* WorldScene::_isUIInFocus
          mappings, \* the stack of key mappings, "game" or "ui"
          hasEntity, \* a character listens to the keyboard
          walking   \* a binding of the game's mapping is current

uiVars == <<phase, screen, mouse, tree, pointer, inFocus, mappings, hasEntity, walking>>

(* A control and all above it; a control and all below it. *)
Upwards ==
  LET up[c \in Controls] == IF c = Base THEN {c} ELSE {c} \cup up[ParentOf[c]] IN [c \in Controls |-> up[c]]
Below == [c \in Controls |-> {d \in Controls : c \in Upwards[d]}]

----------------------------------------------------------------------------
(* Positions and sizes. *)

Wrap(v) == v % PositionValues
Signed(v) == IF v < PositionValues \div 2 THEN v ELSE v - PositionValues

(* ControlPosition::ResolvePosition, for all controls: a control's own offset
   moves only what is inside it. *)
ResolvedPositions(t) ==
  LET own(c)  == IF t.percent[c] > 0 THEN (t.height[ParentOf[c]] * t.percent[c]) \div 100 ELSE t.y[c]
      half(c) == IF t.centered[c] THEN t.height[c] \div 2 ELSE 0
      at[c \in Controls] == IF c = Base THEN t.y[c]
                            ELSE Wrap(at[ParentOf[c]] + t.offset[ParentOf[c]] + own(c) - half(c))
  IN  [c \in Controls |-> at[c]]

(* Both edges belong to the control. *)
IsPointInControl(t, c, y) ==
  LET top == ResolvedPositions(t)[c] IN y >= top /\ y <= Wrap(top + t.height[c])

(* BaseControl::GetScreenSpaceBounds of all controls. *)
ScreenSpaceBounds(t) ==
  LET at == ResolvedPositions(t)
  IN  [c \in Controls |-> [from |-> Signed(at[c]), to |-> Signed(at[c]) + Signed(t.height[c])]]

Intersection(r, s) == [from |-> Max({r.from, s.from}), to |-> Min({r.to, s.to})]
HasIntersection(r, s) == Intersection(r, s).from < Intersection(r, s).to

(* BaseControl::GetMaskBoundary of all controls: where nothing is left, a
   control's own bounds are its mask. *)
MaskBoundaries(t) ==
  LET bounds == ScreenSpaceBounds(t)
      mask[c \in Controls] ==
        IF c = Base THEN bounds[c]
        ELSE LET above == mask[ParentOf[c]]
                 own   == bounds[c]
             IN  IF HasIntersection(above, own) THEN Intersection(above, own) ELSE own
  IN  [c \in Controls |-> mask[c]]

(* IsVisibleInParentControl: the controls that are. *)
VisibleInParent(t) ==
  LET bounds == ScreenSpaceBounds(t)
      masks  == MaskBoundaries(t)
  IN  {c \in Controls : c = Base \/ HasIntersection(bounds[c], masks[ParentOf[c]])}

(* The surface of a mask has the height of the control it is made for and
   keeps it until it is freed: 0 is none. *)
MadeMask(t, c) == IF t.mask[c] = 0 THEN t.height[c] ELSE t.mask[c]

(* Faulty variant: only the control itself. *)
UpdateVisibilityAlone(t, c) ==
  [t EXCEPT !.hidden[c] = c \notin VisibleInParent(t), !.mask[c] = MadeMask(t, c), !.stale = @ \ Below[c]]

(* BaseControl::UpdateVisibility: the control and all below, and the masks of
   those that are seen. *)
Looked(t, c, seen) ==
  [t EXCEPT !.hidden = [d \in Controls |-> IF d \in Below[c] THEN d \notin seen ELSE t.hidden[d]],
            !.mask = [d \in Controls |-> IF d \in Below[c] \cap seen THEN MadeMask(t, d) ELSE t.mask[d]],
            !.stale = @ \ Below[c]]

UpdateVisibility(t, c) == Looked(t, c, VisibleInParent(t))

(* BaseControl::SetParentSize of all below: their share of the parent stays. *)
Resized(t, c) ==
  LET height[d \in Controls] == IF d \notin Below[c] \ {c} THEN t.height[d]
                                ELSE (height[ParentOf[d]] * t.share[d][1]) \div t.share[d][2]
  IN  [t EXCEPT !.height = [d \in Controls |-> height[d]]]

SetSize(t, c, height, share) ==
  UpdateVisibility(Resized([t EXCEPT !.height[c] = height, !.share[c] = share, !.mask[c] = 0], c), c)

SetPositionFixed(t, c, y) == UpdateVisibility([t EXCEPT !.y[c] = Wrap(y), !.percent[c] = 0], c)

SetOffset(t, c, offset) == UpdateVisibility([t EXCEPT !.offset[c] = offset], c)

(* How high the picture of a text is in a label. *)
Fitted(t, c, text) ==
  CASE text = NoText     -> 0
    [] FitOf[c] = "fill" -> t.height[c]
    [] FitOf[c] = "fit"  -> Min({TextHeight[text], t.height[c]})
    [] OTHER             -> TextHeight[text]

(* Label::SetText: a label that scrolls moves what is inside it up, and no
   visibility is looked at. *)
SetText(t, c, text) ==
  LET picture == Fitted(t, c, text)
      said    == [t EXCEPT !.text[c] = text, !.picture[c] = picture, !.mask[c] = picture]
      delta   == Signed(Wrap(picture - t.height[c]))
  IN  IF text = t.text[c] THEN t
      ELSE IF text # NoText /\ c \in Scrolling /\ delta > 0
      THEN [said EXCEPT !.offset[c] = -delta, !.stale = @ \cup (Below[c] \ {c})]
      ELSE said

----------------------------------------------------------------------------
(* Scripts. *)

Applied(t, a) ==
  LET c == a.control
      room == IF c = Base THEN t.height[c] ELSE t.height[ParentOf[c]]
  IN  CASE a.kind = "is_visible" -> [t EXCEPT !.visible[c] = a.value]
        [] a.kind = "is_enabled" -> [t EXCEPT !.enabled[c] = a.value]
        [] a.kind = "pos_y"      -> SetPositionFixed(t, c, a.value)
        [] a.kind = "height"     -> SetSize(t, c, Wrap(a.value), <<Wrap(a.value), room>>)
        [] a.kind = "text"       -> IF c \in Labels THEN SetText(t, c, a.value) ELSE t

NoScript == <<>>

RunScript(t, script) ==
  LET upTo[n \in 0..Len(script)] == IF n = 0 THEN t ELSE Applied(upTo[n - 1], script[n])
  IN  upTo[Len(script)]

----------------------------------------------------------------------------
(* Loading. *)

(* SetupFromJson: the common values, then a label's text or a texture's mask. *)
SetupFromJson(t, c) ==
  LET common == [t EXCEPT !.centered[c] = c \in Centered, !.visible[c] = c \notin Invisible]
  IN  CASE KindOf[c] = "label"   -> SetText(common, c, FirstText[c])
        [] KindOf[c] = "texture" -> [common EXCEPT !.mask[c] = t.height[c]]
        [] OTHER                 -> common

(* UI::LoadControl for one control: its size, its position, its own values. *)
LoadControl(t, c) ==
  LET sized  == SetSize(t, c, (t.height[ParentOf[c]] * Sized[c]) \div 100, <<Sized[c], 100>>)
      placed == UpdateVisibility([sized EXCEPT !.percent[c] = Placed[c]], c)
  IN  SetupFromJson(placed, c)

EmptyTree(height) ==
  LET all(v) == [c \in Controls |-> v]
  IN  [y |-> all(0), percent |-> all(0), offset |-> all(0), share |-> all(<<100, 100>>),
       height |-> [all(0) EXCEPT ![Base] = height], centered |-> all(FALSE),
       visible |-> all(TRUE), enabled |-> all(TRUE), hidden |-> all(FALSE),
       text |-> all(NoText), picture |-> all(0), mask |-> all(0),
       stale |-> {}] \* history: moved since UpdateVisibility last looked at them

(* UI::LoadFromFile; the OnLoad scripts of all controls, one after the other,
   are one script. *)
LoadFromFile(height, onLoad) ==
  LET upTo[n \in 0..Len(LoadOrder)] ==
        IF n = 0 THEN EmptyTree(height) ELSE LoadControl(upTo[n - 1], LoadOrder[n])
  IN  RunScript(upTo[Len(LoadOrder)], onLoad)

(* UI::ReconfirmSize. *)
Reconfirmed(t, height) == SetSize(t, Base, height, <<100, 100>>)

(* WorldScene::Initialize: a new interface, whose sizes are looked at again when
   all is loaded. *)
Loaded ==
  [height \in ScreenHeights |->
     [onLoad \in Scripts |-> Reconfirmed(LoadFromFile(height, onLoad), height)]]

NewPointer == [y |-> 0, focused |-> None, over |-> None, drag |-> None]

UIInit ==
  /\ phase = "events" /\ mouse = [y |-> 0, down |-> FALSE, clicked |-> FALSE]
  /\ screen \in ScreenHeights
  /\ \E onLoad \in Scripts : tree = Loaded[screen][onLoad]
  /\ pointer = NewPointer /\ inFocus = FALSE /\ mappings = <<"game">>
  /\ hasEntity = FALSE /\ walking = FALSE

----------------------------------------------------------------------------
(* What is under the mouse. *)

GetIsEnabled(t, c) == \A d \in Upwards[c] : t.enabled[d]

(* Whether a handler of the control is called. *)
Answers(t, c) == c # None /\ GetIsEnabled(t, c)

(* What can be hit at a point, without the children. *)
Hittable(t, y) ==
  LET at == ResolvedPositions(t)
  IN  {c \in Controls \ CannotFocus :
         /\ t.visible[c] /\ ~t.hidden[c] /\ GetIsEnabled(t, c)
         /\ y >= at[c] /\ y <= Wrap(at[c] + t.height[c])}

(* Faulty variant: the first child is asked first. *)
FirstControlAtPoint(t, y) ==
  LET hittable == Hittable(t, y)
      at[c \in Controls] ==
        IF c \notin hittable THEN None
        ELSE LET hit == SelectInSeq(LoadOrder, LAMBDA d : ParentOf[d] = c /\ at[d] # None)
             IN  IF hit = 0 THEN c ELSE at[LoadOrder[hit]]
  IN  at[Base]

(* The last child is drawn on top and asked first. *)
GetFocusedControlAtPoint(t, y) ==
  LET hittable == Hittable(t, y)
      at[c \in Controls] ==
        IF c \notin hittable THEN None
        ELSE LET hit == SelectLastInSeq(LoadOrder, LAMBDA d : ParentOf[d] = c /\ at[d] # None)
             IN  IF hit = 0 THEN c ELSE at[LoadOrder[hit]]
  IN  at[Base]

----------------------------------------------------------------------------
(* Game::UpdateEngineEvents, any number of events before a frame goes on, and
   the packets of the server, which are handled in front of the tick. *)

MoveMouse(y) ==
  /\ phase = "events" /\ y # mouse.y
  /\ mouse' = [mouse EXCEPT !.y = y]
  /\ UNCHANGED <<phase, screen, tree, pointer, inFocus, mappings, hasEntity, walking>>

(* MouseInput::SetButtonState: a click is over when the button goes up, seen
   by a frame or not. *)
SetButtonState ==
  /\ phase = "events"
  /\ mouse' = [mouse EXCEPT !.down = ~@, !.clicked = ~mouse.down]
  /\ UNCHANGED <<phase, screen, tree, pointer, inFocus, mappings, hasEntity, walking>>

(* Game::ReconfirmPixelSizes, when the resolution of the screen has changed. *)
ReconfirmSize(height) ==
  /\ phase = "events" /\ screen # height
  /\ screen' = height /\ tree' = Reconfirmed(tree, height)
  /\ UNCHANGED <<phase, mouse, pointer, inFocus, mappings, hasEntity, walking>>

(* WorldScene::OnPlayerCharacterAdd. *)
OnPlayerCharacterAdd ==
  /\ phase = "events" /\ ~hasEntity
  /\ hasEntity' = TRUE
  /\ UNCHANGED <<phase, screen, mouse, tree, pointer, inFocus, mappings, walking>>

(* WorldScene::HandleServerClientChatboxMessagePacket and UI::SendMessage, to
   the script of the base canvas. *)
SendMessage(script) ==
  /\ phase = "events"
  /\ tree' = RunScript(tree, script)
  /\ UNCHANGED <<phase, screen, mouse, pointer, inFocus, mappings, hasEntity, walking>>

----------------------------------------------------------------------------
(* WorldScene::Tick. *)

IsOnControl(c) == c # None /\ KindOf[c] # "canvas"

(* Faulty variant: every click on the interface pushes a mapping. *)
PushedMappingAgain(onControl) ==
  IF onControl THEN <<"ui">> \o mappings
  ELSE (IF inFocus THEN Tail(mappings) ELSE mappings)

(* UI::HandleClick, and the key mapping that goes with the focus. *)
PushedMapping(onControl) ==
  IF onControl THEN (IF inFocus THEN mappings ELSE <<"ui">> \o mappings)
  ELSE (IF inFocus THEN Tail(mappings) ELSE mappings)

(* OnDrag: only labels and textures have one.  The picture of a label stays
   between minus its height and 0. *)
Dragged(t, c, dy) ==
  LET moved   == t.offset[c] + Signed(dy)
      clamped == Max({-t.picture[c], Min({moved, 0})})
  IN  CASE c \in Labels           -> SetOffset(t, c, IF t.text[c] = NoText THEN moved ELSE clamped)
        [] KindOf[c] = "texture" -> SetOffset(t, c, moved)
        [] OTHER                 -> t

(* Faulty variant: the control under the mouse. *)
DragControlHere(t, p, y) == GetFocusedControlAtPoint(t, y)

(* The control that a drag goes to, once the mouse has moved. *)
DragControl(t, p, y) == IF p.drag # None THEN p.drag ELSE GetFocusedControlAtPoint(t, y)

(* UI::HandleDrag: only a free control calls its script and moves. *)
HandleDrag(t, p, script) ==
  IF mouse.y = p.y THEN [tree |-> t, pointer |-> p]
  ELSE LET c     == DragControl(t, p, mouse.y)
           free  == Answers(t, c) /\ c \in Free
           moved == IF free THEN Dragged(RunScript(t, script), c, Wrap(mouse.y - p.y)) ELSE t
       IN  [tree |-> moved, pointer |-> [p EXCEPT !.y = mouse.y, !.drag = c]]

(* UI::HandleMouseUp and HandleMoveMouse: what the script of the control that is
   left did counts for the one that is entered. *)
Entered(t, c, onEnter) ==
  IF Answers(t, c) /\ IsPointInControl(t, c, mouse.y) THEN RunScript(t, onEnter) ELSE t

HandleMoveMouse(t, p, onLeave, onEnter) ==
  LET up == [p EXCEPT !.drag = None]
      c  == GetFocusedControlAtPoint(t, mouse.y)
  IN  IF mouse.y = p.y THEN [tree |-> t, pointer |-> up]
      ELSE [tree |-> IF c = p.over THEN t
                     ELSE Entered(IF Answers(t, p.over) THEN RunScript(t, onLeave) ELSE t, c, onEnter),
            pointer |-> [up EXCEPT !.y = mouse.y, !.over = c]]

(* WorldScene::UpdateDebugInfo; where it is not computed the label keeps its text. *)
UpdateDebugInfo(t, text) == IF DebugLabel = None THEN t ELSE SetText(t, DebugLabel, text)

(* WorldScene::UpdateUI, then UpdateDebugInfo: e is the script of a click or of a
   control that is left, f that of a drag or of a control that is entered. *)
Tick(e, f, debug) ==
  LET focused == IF mouse.clicked THEN GetFocusedControlAtPoint(tree, mouse.y) ELSE pointer.focused
      clicked == IF mouse.clicked /\ Answers(tree, focused) /\ IsPointInControl(tree, focused, mouse.y)
                 THEN RunScript(tree, e) ELSE tree
      p       == [pointer EXCEPT !.focused = focused]
      moved   == IF mouse.down THEN HandleDrag(clicked, p, f) ELSE HandleMoveMouse(clicked, p, e, f)
  IN  /\ phase = "events" /\ phase' = "input"
      /\ inFocus' = IF mouse.clicked THEN IsOnControl(focused) ELSE inFocus
      /\ mappings' = IF mouse.clicked THEN PushedMapping(IsOnControl(focused)) ELSE mappings
      /\ mouse' = [mouse EXCEPT !.clicked = FALSE]
      /\ tree' = UpdateDebugInfo(moved.tree, debug)
      /\ pointer' = moved.pointer
      /\ UNCHANGED <<screen, hasEntity, walking>>

(* ActionInputSourceKeyboard::Tick: the mapping on top decides. *)
WalkingNow(keyDown) == IF hasEntity /\ mappings # <<>> THEN keyDown /\ mappings[1] = "game" ELSE walking

(* BaseControl::RenderChildren: the base canvas is rendered in any case. *)
IsRendered(t, c) == \A d \in Upwards[c] \ {Base} : t.visible[d] /\ ~t.hidden[d]

(* MouseCursor::Render: the cursor goes where the mouse is, and no visibility is
   looked at. *)
CursorsRendered(t) ==
  LET shown == {c \in Cursors : IsRendered(t, c)}
  IN  [t EXCEPT !.y = [c \in Controls |-> IF c \in shown THEN mouse.y ELSE t.y[c]],
                !.percent = [c \in Controls |-> IF c \in shown THEN 0 ELSE t.percent[c]],
                !.stale = @ \cup UNION {Below[c] : c \in shown}]

(* WorldScene::UpdateInput, ActionManager::ProcessActions and the rendering.
   The first calls scripts of the base canvas (for Escape) or of the control in
   focus, which may not be in sight any more. *)
UpdateInput(script, keyDown) ==
  /\ phase = "input" /\ phase' = "events"
  /\ tree' = CursorsRendered(RunScript(tree, script))
  /\ walking' = WalkingNow(keyDown)
  /\ UNCHANGED <<screen, mouse, pointer, inFocus, mappings, hasEntity>>

(* SceneManager::HandleQueuedScene at the end of a frame, after a warp: a new
   scene with an interface of its own, WorldScene::Initialize. *)
InitializeScene(onLoad) ==
  /\ phase = "events"
  /\ tree' = Loaded[screen][onLoad]
  /\ pointer' = NewPointer /\ inFocus' = FALSE
  /\ mappings' = <<"game">> /\ hasEntity' = FALSE /\ walking' = FALSE
  /\ UNCHANGED <<phase, screen, mouse>>

(* Only a frame with a click or a moved mouse calls scripts. *)
TickScripts(happens) == IF happens THEN Scripts ELSE {NoScript}
DebugTexts == IF DebugLabel = None THEN {NoText} ELSE Texts \cup {tree.text[DebugLabel]}

UINext ==
  \/ \E y \in MousePositions : MoveMouse(y)
  \/ SetButtonState
  \/ \E height \in ScreenHeights : ReconfirmSize(height)
  \/ OnPlayerCharacterAdd
  \/ \E script \in Scripts : SendMessage(script)
  \/ \E e \in TickScripts(mouse.clicked \/ mouse.y # pointer.y),
        f \in TickScripts(mouse.y # pointer.y), debug \in DebugTexts : Tick(e, f, debug)
  \/ \E script \in Scripts, keyDown \in BOOLEAN : UpdateInput(script, keyDown)
  \/ \E onLoad \in Scripts : InitializeScene(onLoad)

UISpec == UIInit /\ [][UINext]_uiVars

----------------------------------------------------------------------------
(* The keyboard belongs to the interface exactly while the last click was on
   one of its controls, whatever was clicked before and in which scene, and no
   key makes the character walk then. *)
KeyboardFollowsFocus ==
  /\ inFocus = IsOnControl(pointer.focused)
  /\ Len(mappings) = IF inFocus THEN 2 ELSE 1
  /\ phase = "events" => ~(walking /\ inFocus)

(* What moves without its visibility being looked at: what is inside a label
   that scrolls, and the mouse cursor. *)
MovesUnnoticed ==
  (UNION {Below[c] \ {c} : c \in Scrolling}) \cup (UNION {Below[c] : c \in Cursors})

(* The cached flag tells whether a control lies inside what is to be seen of
   its parent, however controls were moved, resized or dragged, unless it has
   moved since it was looked at; and nothing ever moves like that but what is
   inside a scrolling label and the mouse cursor.  (A centred origin, which is
   set after the flag was computed, is looked at again by the end of
   WorldScene::Initialize.) *)
HiddenIsAccurate ==
  /\ LET seen == VisibleInParent(tree)
     IN  \A c \in Controls \ tree.stale : tree.hidden[c] = (c \notin seen)
  /\ tree.stale \subseteq MovesUnnoticed

(* What a texture or a label shows at a point: its picture, which the control's
   own offset moves, where its mask lets it through.  (A mask that has another
   size than the picture is stretched over it: those are left out.) *)
PaintedAt(y) ==
  LET bounds == ScreenSpaceBounds(tree)
      masks  == MaskBoundaries(tree)
      size(c) == IF c \in Labels THEN tree.picture[c] ELSE tree.height[c]
      top(c)  == bounds[c].from + tree.offset[c]
  IN  {c \in Controls :
         /\ KindOf[c] \in {"texture", "label"} /\ IsRendered(tree, c) /\ tree.mask[c] = size(c)
         /\ top(c) <= y /\ y < top(c) + size(c)
         /\ masks[c].from <= y /\ y < masks[c].to}

(* RenderChildren: children after their parent, in their order, each with all
   that is below it. *)
PaintedBefore ==
  [c \in Controls |->
     (Upwards[c] \ {c}) \cup
     {b \in Controls : \E i, j \in DOMAIN LoadOrder :
        /\ i < j /\ ParentOf[LoadOrder[i]] = ParentOf[LoadOrder[j]]
        /\ LoadOrder[i] \in Upwards[b] /\ LoadOrder[j] \in Upwards[c]}]

(* Where nothing wraps and nothing has moved unnoticed, for a control and all
   above it.  (Beyond the near edge of the screen positions wrap, but not in
   what is drawn.) *)
IsUsual(c) ==
  LET at     == ResolvedPositions(tree)
      bounds == ScreenSpaceBounds(tree)
  IN  \A d \in Upwards[c] :
        /\ bounds[d].from = at[d] /\ Signed(tree.height[d]) = tree.height[d]
        /\ {at[d], bounds[d].to} \subseteq 0..PositionValues - 1
        /\ d \notin tree.stale

(* A control that may be clicked: the others let the click through. *)
TakesClicks(c) ==
  tree.visible[Base] /\ \A d \in Upwards[c] : d \notin CannotFocus /\ tree.enabled[d]

(* "the last control in the list [...] will be rendered on top": of all that is
   painted at the mouse a click never goes to something painted below another
   that takes clicks; and what it goes to is to be seen there of all controls
   above it in the tree (but at a far edge, which belongs to a control and is
   not drawn). *)
ClicksHitWhatIsSeen ==
  LET bounds == ScreenSpaceBounds(tree)
      masks  == MaskBoundaries(tree)
  IN  \A y \in MousePositions :
        LET hit == GetFocusedControlAtPoint(tree, y)
        IN  /\ \A c \in PaintedAt(y) :
                 IsUsual(c) /\ TakesClicks(c) => hit # None /\ (hit = c \/ c \in PaintedBefore[hit])
            /\ hit # None /\ IsUsual(hit) /\ (\A d \in Upwards[hit] : bounds[d].to # y) =>
                 masks[hit].from <= y /\ y < masks[hit].to

(* "if the control is dragged and then the cursor moves outside of the control's
   boundary, the drag event can continue": a drag stays with its control until
   the button is up or the scene is another. *)
DragGoesOn ==
  [][pointer.drag # None /\ pointer'.drag # pointer.drag =>
       pointer'.drag = None /\ (~mouse.down \/ \E onLoad \in Scripts : InitializeScene(onLoad))]_uiVars
=============================================================================

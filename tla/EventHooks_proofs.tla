-------------------------- MODULE EventHooks_proofs --------------------------
(***************************************************************************)
(* Proofs about the event hooks, for every scene, set of keys and buttons, *)
(* and every abstraction of positions, sizes and poses.                    *)
(***************************************************************************)
EXTENDS EventHooks, FiniteSetTheorems, TLAPS

(* The sets the variables range over, unfolded together in what follows. *)
LEMMA ConstantFacts ==
  /\ Still \in [Axes -> Sign]
  /\ NoTurn \in [Turns -> Sign]
  /\ \A k : SignOf(k) \in Sign
  /\ "NONE_DIR" \in MoveDir
  /\ "SPHERE" \in ObjType
BY DEF Still, NoTurn, Axes, Turns, Sign, SignOf, MoveDir, ObjType

-----------------------------------------------------------------------------
(* Type correctness. *)

LEMMA TypeInit == Init => TypeOK
<1> SUFFICES ASSUME Init PROVE TypeOK
  OBVIOUS
<1>1. shown \in [camera : Camera, figures : [Objects -> Geometry],
                 overlay : Handles \cup {Nothing}]
  BY DEF Init
<1>2. do_update \in Int /\ running \in BOOLEAN /\ held \subseteq Keys
  BY DEF Init
<1>3. QED
  BY <1>1, <1>2, ConstantFacts DEF Init, TypeOK

LEMMA SteerTyped ==
  ASSUME TypeOK, NEW k, Steer(k) \/ Unsteer(k)
  PROVE  /\ move_direction' \in [Axes -> Sign]
         /\ look_direction' \in [Turns -> Sign]
<1>1. SignOf(k) \in Sign /\ 0 \in Sign
  BY ConstantFacts DEF Sign
<1>2. QED
  BY <1>1 DEF TypeOK, Steer, Unsteer

LEMMA KeysKeepType ==
  ASSUME TypeOK,
         \/ \E k \in Keys : keypress_hook(k) \/ keyrelease_hook(k) \/ KeyElsewhere(k)
         \/ KeyEscape
         \/ FocusChange
  PROVE  TypeOK'
<1>1. ASSUME NEW k \in Keys, keypress_hook(k) PROVE TypeOK'
  <2>1. CASE k \in SteerKeys /\ Steer(k) /\ do_update' = do_update + 1
    BY <1>1, <2>1, SteerTyped
       DEF keypress_hook, KeyDown, TypeOK, selVars, figVars
  <2>2. CASE UNCHANGED <<move_direction, look_direction>> /\ do_update' \in {do_update, do_update + 1}
    BY <1>1, <2>2 DEF keypress_hook, KeyDown, TypeOK, selVars, figVars
  <2>3. QED
    BY <1>1, <2>1, <2>2 DEF keypress_hook
<1>2. ASSUME NEW k \in Keys, keyrelease_hook(k) PROVE TypeOK'
  <2>1. CASE k \in ReleaseKeys /\ Unsteer(k) /\ do_update' = do_update - 1
    BY <1>2, <2>1, SteerTyped
       DEF keyrelease_hook, KeyUp, TypeOK, selVars, figVars
  <2>2. CASE UNCHANGED <<do_update, move_direction, look_direction>>
    BY <1>2, <2>2 DEF keyrelease_hook, KeyUp, TypeOK, selVars, figVars
  <2>3. QED
    BY <1>2, <2>1, <2>2 DEF keyrelease_hook
<1>3. ASSUME NEW k \in Keys, KeyElsewhere(k) PROVE TypeOK'
  BY <1>3 DEF KeyElsewhere, KeyDown, KeyUp, TypeOK, moveVars, selVars, figVars
<1>4. CASE KeyEscape
  BY <1>4 DEF KeyEscape, KeyDown, TypeOK, moveVars, selVars, figVars
<1>5. CASE FocusChange
  BY <1>5 DEF FocusChange, TypeOK, moveVars, selVars, figVars
<1>6. QED
  BY <1>1, <1>2, <1>3, <1>4, <1>5

LEMMA ButtonsKeepType ==
  ASSUME TypeOK, NEW b \in Buttons,
         mousepress_hook(b) \/ mouserelease_hook(b)
  PROVE  TypeOK'
<1>1. CASE mousepress_hook(b)
  BY <1>1 DEF mousepress_hook, TypeOK, figVars
<1>2. CASE mouserelease_hook(b)
  <2>1. CASE LookEnds(b)
    BY <1>2, <2>1 DEF mouserelease_hook, LookEnds, TypeOK, selVars, figVars
  <2>2. CASE SelectClick(b)
    <3>1. selected_obj' \in Objects \cup {NoObj} /\ selected_type' \in ObjType
      BY <2>2, ObjectsAssumption DEF SelectClick, Pick
    <3>2. QED
      BY <1>2, <2>2, <3>1
         DEF mouserelease_hook, SelectClick, RequestUpdate, TypeOK, figVars
  <2>3. CASE DragEnds(b)
    BY <1>2, <2>3, ConstantFacts
       DEF mouserelease_hook, DragEnds, TypeOK, figVars
  <2>4. QED
    BY <1>2, <2>1, <2>2, <2>3 DEF mouserelease_hook
<1>3. QED
  BY <1>1, <1>2

LEMMA MotionKeepsType == TypeOK /\ mouse_hook => TypeOK'
<1> SUFFICES ASSUME TypeOK, mouse_hook PROVE TypeOK'
  OBVIOUS
<1>1. host' \in [Objects -> Geometry] /\ dev' \in [Objects -> Geometry]
  <2>1. CASE UNCHANGED figVars
    BY <2>1 DEF TypeOK, figVars
  <2>2. ASSUME NEW g \in Geometry,
               host' = [host EXCEPT ![selected_obj] = g],
               dev' = Refill(selected_type, host')
        PROVE  host' \in [Objects -> Geometry] /\ dev' \in [Objects -> Geometry]
    BY <2>2 DEF TypeOK, Refill
  <2>3. QED
    BY <2>1, <2>2 DEF mouse_hook, DragSelected
<1>2. look_direction' \in [Turns -> Sign]
  BY DEF mouse_hook, TypeOK
<1>3. QED
  BY <1>1, <1>2 DEF mouse_hook, TypeOK, envVars, selVars

LEMMA HandlesTyped ==
  ASSUME TypeOK, selected_obj # NoObj, NEW c \in Camera
  PROVE  HandlesOf(selected_obj, c) \in Handles
BY DEF TypeOK, HandlesOf, Handles, Geometry

LEMMA FrameKeepsType == TypeOK /\ framehook => TypeOK'
<1> SUFFICES ASSUME TypeOK, framehook PROVE TypeOK'
  OBVIOUS
<1>1. camera' \in Camera
  BY DEF framehook, MovedCamera
<1>2. /\ handles' \in Handles \cup {Nothing}
      /\ do_update' \in Int
      /\ shown'.overlay \in Handles \cup {Nothing}
      /\ shown' = [camera |-> camera', figures |-> dev, overlay |-> shown'.overlay]
  <2>1. CASE selected_obj = NoObj
    BY <2>1 DEF framehook, Image, TypeOK
  <2>2. CASE selected_obj # NoObj
    <3>1. handles' \in Handles
      BY <1>1, <2>2, HandlesTyped DEF framehook
    <3>2. QED
      BY <2>2, <3>1 DEF framehook, Image, RequestUpdate
  <2>3. QED
    BY <2>1, <2>2
<1>3. look_direction' \in [Turns -> Sign]
  BY ConstantFacts DEF framehook
<1>4. QED
  BY <1>1, <1>2, <1>3 DEF framehook, TypeOK, envVars, selVars, figVars

(* Every variable keeps to its type: do_update stays an integer, a         *)
(* direction a sign, and no hook selects or draws what does not exist.     *)
THEOREM TypeCorrect == Spec => []TypeOK
<1>1. TypeOK /\ [Next]_vars => TypeOK'
  <2> SUFFICES ASSUME TypeOK, [Next]_vars PROVE TypeOK'
    OBVIOUS
  <2>1. CASE Next
    <3>1. CASE collapse
      BY <3>1 DEF collapse, TypeOK, envVars, moveVars, selVars, figVars
    <3>2. QED
      BY <2>1, <3>1, KeysKeepType, ButtonsKeepType, MotionKeepsType,
         FrameKeepsType DEF Next
  <2>2. CASE UNCHANGED vars
    BY <2>2 DEF vars, envVars, moveVars, selVars, figVars, TypeOK
  <2>3. QED
    BY <2>1, <2>2
<1>2. QED
  BY TypeInit, <1>1, PTL DEF Spec

-----------------------------------------------------------------------------
(* Selecting and dragging.  A drag's target, the buttons that are down and *)
(* the two flags that follow them form one inductive invariant.            *)

SelectionInv == TypeOK /\ DragIsSafe /\ NoRunawayDrag

LEMMA SelectionInit == Init => SelectionInv
BY TypeInit DEF Init, SelectionInv, DragIsSafe, NoRunawayDrag

(* The steps that touch neither the selection nor the buttons. *)
LEMMA SelectionUntouched ==
  SelectionInv /\ TypeOK' /\ UNCHANGED <<selVars, mouse_press, buttons>>
    => SelectionInv'
BY DEF SelectionInv, DragIsSafe, NoRunawayDrag, selVars

LEMMA SelectionNext == SelectionInv /\ TypeOK' /\ [Next]_vars => SelectionInv'
<1> SUFFICES ASSUME SelectionInv, TypeOK', [Next]_vars PROVE SelectionInv'
  OBVIOUS
<1>1. ASSUME NEW b \in Buttons, mousepress_hook(b) PROVE SelectionInv'
  <2>1. NoRunawayDrag'
    BY <1>1 DEF mousepress_hook, SelectionInv, NoRunawayDrag, MoveDir
  <2>2. DragIsSafe'
    BY <1>1 DEF mousepress_hook, SelectionInv, DragIsSafe, CanGrab
  <2>3. QED
    BY <2>1, <2>2 DEF SelectionInv
<1>2. ASSUME NEW b \in Buttons, mouserelease_hook(b) PROVE SelectionInv'
  <2>1. CASE LookEnds(b)
    BY <1>2, <2>1
       DEF mouserelease_hook, LookEnds, SelectionInv, DragIsSafe, NoRunawayDrag, selVars
  <2>2. CASE SelectClick(b)
    <3>1. selected_obj' # NoObj => selected_type' = TypeOf[selected_obj']
      BY <2>2 DEF SelectClick, Pick
    <3>2. QED
      BY <1>2, <2>2, <3>1
         DEF mouserelease_hook, SelectClick, SelectionInv, DragIsSafe, NoRunawayDrag
  <2>3. CASE DragEnds(b)
    BY <1>2, <2>3
       DEF mouserelease_hook, DragEnds, SelectionInv, DragIsSafe, NoRunawayDrag
  <2>4. QED
    BY <1>2, <2>1, <2>2, <2>3 DEF mouserelease_hook
<1>3. CASE \/ \E k \in Keys : keypress_hook(k) \/ keyrelease_hook(k) \/ KeyElsewhere(k)
           \/ KeyEscape \/ FocusChange \/ mouse_hook \/ framehook \/ collapse
           \/ UNCHANGED vars
  <2>1. UNCHANGED <<selVars, mouse_press, buttons>>
    BY <1>3
       DEF keypress_hook, keyrelease_hook, KeyElsewhere, KeyEscape, FocusChange,
           mouse_hook, framehook, collapse, vars, envVars, moveVars
  <2>2. QED
    BY <2>1, SelectionUntouched
<1>4. QED
  BY <1>1, <1>2, <1>3 DEF Next

(* mouse_hook never dereferences a null selected_obj nor casts it to a     *)
(* type it does not have, and no object follows a pointer whose right      *)
(* button is up.                                                           *)
THEOREM SelectionCorrect == Spec => [](DragIsSafe /\ NoRunawayDrag)
<1>1. SelectionInv => DragIsSafe /\ NoRunawayDrag
  BY DEF SelectionInv
<1>2. QED
  BY <1>1, TypeCorrect, SelectionInit, SelectionNext, PTL DEF Spec

(* mouse_hook never dereferences a figure that is not selected, nor casts  *)
(* one to a type it has not.                                               *)
THEOREM DragsAreSafe == Spec => []DragIsSafe
BY SelectionCorrect, PTL

(* With two buttons in use, a drag ends exactly when the right one is      *)
(* released (mouserelease_hook), not when a look or a frame intervenes.    *)
THEOREM DragEnds_WithButton == Spec => DragEndsWithButton
<1>1. ASSUME SelectionInv, [Next]_vars
      PROVE  [ "OTHER" \notin Buttons /\ selected_move_dir # "NONE_DIR"
                 => (selected_move_dir' # selected_move_dir <=> "RIGHT" \notin buttons')
             ]_vars
  <2> SUFFICES ASSUME "OTHER" \notin Buttons, selected_move_dir # "NONE_DIR"
               PROVE  \/ selected_move_dir' # selected_move_dir <=> "RIGHT" \notin buttons'
                      \/ UNCHANGED vars
    OBVIOUS
  <2>0. "RIGHT" \in buttons /\ buttons \subseteq Buttons
    BY <1>1 DEF SelectionInv, NoRunawayDrag, TypeOK
  <2>1. ASSUME NEW b \in Buttons, mousepress_hook(b)
        PROVE  selected_move_dir' = selected_move_dir /\ "RIGHT" \in buttons'
    BY <2>0, <2>1 DEF mousepress_hook
  <2>2. ASSUME NEW b \in Buttons, mouserelease_hook(b)
        PROVE  selected_move_dir' # selected_move_dir <=> "RIGHT" \notin buttons'
    <3>1. CASE LookEnds(b)
      BY <2>0, <2>2, <3>1 DEF mouserelease_hook, LookEnds, selVars
    <3>2. CASE DragEnds(b)
      BY <2>0, <2>2, <3>2, SessionAssumption DEF mouserelease_hook, DragEnds
    <3>3. QED
      BY <2>2, <3>1, <3>2 DEF mouserelease_hook, SelectClick
  <2>3. CASE \/ \E k \in Keys : keypress_hook(k) \/ keyrelease_hook(k) \/ KeyElsewhere(k)
             \/ KeyEscape \/ FocusChange \/ mouse_hook \/ framehook \/ collapse
    <3>1. UNCHANGED <<selected_move_dir, buttons>>
      BY <2>3
         DEF keypress_hook, keyrelease_hook, KeyElsewhere, KeyEscape, FocusChange,
             mouse_hook, framehook, collapse, selVars, envVars
    <3>2. QED
      BY <2>0, <3>1
  <2>4. QED
    BY <1>1, <2>1, <2>2, <2>3 DEF Next
<1>2. QED
  BY <1>1, TypeCorrect, SelectionInit, SelectionNext, PTL DEF Spec, DragEndsWithButton

-----------------------------------------------------------------------------
(* Host, device and picture. *)

PictureInv ==
  SelectionInv /\ DeviceMirrorsHost /\ HandlesOnScreen

LEMMA PictureInit == Init => PictureInv
BY SelectionInit
   DEF Init, PictureInv, DeviceMirrorsHost, HandlesOnScreen

(* A drag leaves the device equal to the host: only figures of the type of *)
(* the dragged one can differ, and they are all refilled.                  *)
LEMMA DragMirrors ==
  ASSUME SelectionInv, DeviceMirrorsHost, DragSelected
  PROVE  DeviceMirrorsHost'
<1>1. CASE UNCHANGED figVars
  BY <1>1 DEF DeviceMirrorsHost, figVars
<1>2. ASSUME NEW g \in Geometry,
             selected_move_dir # "NONE_DIR",
             host' = [host EXCEPT ![selected_obj] = g],
             dev' = Refill(selected_type, host')
      PROVE  DeviceMirrorsHost'
  <2>1. selected_obj # NoObj /\ selected_type = TypeOf[selected_obj]
    BY <1>2 DEF SelectionInv, DragIsSafe
  <2>2. host \in [Objects -> Geometry] /\ dev = host /\ host' \in [Objects -> Geometry]
    BY <1>2 DEF SelectionInv, TypeOK, DeviceMirrorsHost
  <2>3. ASSUME NEW o \in Objects PROVE dev'[o] = host'[o]
    <3>1. CASE TypeOf[o] = selected_type
      BY <1>2, <3>1 DEF Refill
    <3>2. CASE TypeOf[o] # selected_type
      BY <1>2, <2>1, <2>2, <3>2 DEF Refill
    <3>3. QED
      BY <3>1, <3>2
  <2>4. dev' = [o \in Objects |-> dev'[o]]
    BY <1>2 DEF Refill
  <2>5. QED
    BY <2>2, <2>3, <2>4 DEF DeviceMirrorsHost
<1>3. QED
  BY <1>1, <1>2 DEF DragSelected

LEMMA FramePicture ==
  ASSUME PictureInv, framehook
  PROVE  /\ DeviceMirrorsHost' /\ HandlesOnScreen'
         /\ shown'.figures = host' /\ shown'.camera = camera' /\ UNCHANGED host
<1>1. dev = host /\ UNCHANGED <<host, dev>>
  BY DEF PictureInv, DeviceMirrorsHost, framehook, figVars
<1>2. camera' \in Camera
  BY DEF framehook, MovedCamera
<1>3. CASE selected_obj = NoObj
  BY <1>1, <1>3
     DEF framehook, Image, DeviceMirrorsHost, HandlesOnScreen
<1>4. CASE selected_obj # NoObj
  BY <1>1, <1>2, <1>4
     DEF framehook, Image, HandlesOf, DeviceMirrorsHost, HandlesOnScreen
<1>5. QED
  BY <1>3, <1>4

LEMMA PictureNext ==
  PictureInv /\ SelectionInv' /\ [Next]_vars => PictureInv'
<1> SUFFICES ASSUME PictureInv, SelectionInv', [Next]_vars PROVE PictureInv'
  OBVIOUS
<1>1. CASE framehook
  BY <1>1, FramePicture DEF PictureInv
<1>2. CASE mouse_hook
  <2>1. DeviceMirrorsHost'
    BY <1>2, DragMirrors DEF mouse_hook, PictureInv
  <2>2. HandlesOnScreen'
    BY <1>2 DEF mouse_hook, PictureInv, HandlesOnScreen
  <2>3. QED
    BY <2>1, <2>2 DEF PictureInv
<1>3. CASE \/ \E k \in Keys : keypress_hook(k) \/ keyrelease_hook(k) \/ KeyElsewhere(k)
           \/ KeyEscape \/ FocusChange \/ collapse \/ UNCHANGED vars
           \/ \E b \in Buttons : mousepress_hook(b) \/ mouserelease_hook(b)
  <2>1. UNCHANGED <<handles, camera, figVars, shown>>
    BY <1>3
       DEF keypress_hook, keyrelease_hook, KeyElsewhere, KeyEscape, FocusChange,
           collapse, mousepress_hook, mouserelease_hook, vars
  <2>2. QED
    BY <2>1
       DEF PictureInv, DeviceMirrorsHost, HandlesOnScreen, figVars
<1>4. QED
  BY <1>1, <1>2, <1>3 DEF Next

LEMMA PictureAlways == Spec => []PictureInv
BY TypeCorrect, SelectionInit, SelectionNext, PictureInit, PictureNext, PTL
   DEF Spec, SelectionInv

(* After every hook the figures in GPU memory are those in host memory:    *)
(* a pick, which reads the host's, and a frame, which reads the device's,  *)
(* see the same scene (move_object, resize_object, refill_spheres ...).    *)
THEOREM DeviceAlwaysMirrorsHost == Spec => []DeviceMirrorsHost
BY PictureAlways, PTL DEF PictureInv

(* The handles a press is tested against are those in the picture          *)
(* (mousepress_hook, framehook).                                           *)
THEOREM HandlesAreShown == Spec => []HandlesOnScreen
BY PictureAlways, PTL DEF PictureInv

-----------------------------------------------------------------------------
(* Refinement. *)

LEMMA DragEdits ==
  ASSUME PictureInv, mouse_hook
  PROVE  (\E o \in Objects : V!Edit(o)) \/ UNCHANGED V!viewerVars
<1>1. CASE UNCHANGED figVars
  BY <1>1 DEF mouse_hook, V!viewerVars, figVars
<1>2. ASSUME NEW g \in Geometry,
             selected_move_dir # "NONE_DIR",
             host' = [host EXCEPT ![selected_obj] = g]
      PROVE  \E o \in Objects : V!Edit(o)
  <2>1. selected_obj \in Objects
    BY <1>2 DEF PictureInv, SelectionInv, DragIsSafe, TypeOK
  <2>2. V!Edit(selected_obj)
    BY <1>2 DEF mouse_hook, V!Edit
  <2>3. QED
    BY <2>1, <2>2
<1>3. QED
  BY <1>1, <1>2 DEF mouse_hook, DragSelected

(* The event hooks implement the viewer: every hook edits one object,      *)
(* replaces the picture by a rendering of the whole scene from the         *)
(* camera's pose, exits, or changes nothing the user sees.                 *)
THEOREM Implementation == Spec => ImplementsViewer
<1>1. Init => V!Init
  BY DEF Init, V!Init, V!Rendering
<1>2. PictureInv /\ [Next]_vars => [V!Next]_(V!viewerVars)
  <2> SUFFICES ASSUME PictureInv, [Next]_vars
               PROVE  V!Next \/ UNCHANGED V!viewerVars
    OBVIOUS
  <2>1. CASE framehook
    <3>1. camera' \in Camera /\ shown'.camera = camera'
      BY <2>1, FramePicture DEF framehook, MovedCamera
    <3>2. shown'.figures = host /\ UNCHANGED host
      BY <2>1, FramePicture
    <3>3. V!Refresh
      BY <2>1, <3>1, <3>2 DEF framehook, V!Refresh, V!Rendering
    <3>4. QED
      BY <3>3 DEF V!Next
  <2>2. CASE mouse_hook
    BY <2>2, DragEdits DEF V!Next
  <2>3. CASE KeyEscape \/ collapse
    BY <2>3 DEF KeyEscape, KeyDown, collapse, figVars, V!Exit, V!Next
  <2>4. CASE \/ \E k \in Keys : keypress_hook(k) \/ keyrelease_hook(k) \/ KeyElsewhere(k)
             \/ FocusChange \/ UNCHANGED vars
             \/ \E b \in Buttons : mousepress_hook(b) \/ mouserelease_hook(b)
    <3>1. UNCHANGED <<running, camera, figVars, shown>>
      BY <2>4
         DEF keypress_hook, keyrelease_hook, KeyElsewhere, FocusChange,
             mousepress_hook, mouserelease_hook, vars
    <3>2. QED
      BY <3>1 DEF figVars, V!viewerVars
  <2>5. QED
    BY <2>1, <2>2, <2>3, <2>4 DEF Next
<1>3. QED
  BY <1>1, <1>2, PictureAlways, PTL DEF Spec, ImplementsViewer, V!Spec

-----------------------------------------------------------------------------
(* do_update and the direction of movement: what the hooks keep true of    *)
(* the keys that are down, and of what still has to be shown.              *)

LEMMA KeyFacts ==
  /\ SteerKeys \subseteq KnownKeys
  /\ \A k \in MoveKeys : k \notin LookKeys /\ k \in SteerKeys
  /\ \A k : SignOf(k) # 0
  /\ ReleaseKeys = SteerKeys
BY DEF SteerKeys, KnownKeys, MoveKeys, LookKeys, SignOf, ReleaseKeys

LEMMA MoveKeysHaveAxes == \A k \in MoveKeys : AxisOf(k) \in Axes
BY DEF MoveKeys, AxisOf, Axes

-----------------------------------------------------------------------------
(* No drift. *)

DriftInv == TypeOK /\ focused /\ NoDrift

LEMMA DriftWithFocus == ASSUME ~FocusMoves PROVE Spec => []NoDrift
<1> DEFINE Cause(a) == \E k \in held \cap MoveKeys :
                          AxisOf(k) = a /\ SignOf(k) = move_direction[a]
<1>1. Init => DriftInv
  BY TypeInit DEF Init, DriftInv, NoDrift, Still
<1>2. DriftInv /\ TypeOK' /\ [Next]_vars => DriftInv'
  <2> SUFFICES ASSUME DriftInv, TypeOK', [Next]_vars PROVE DriftInv'
    OBVIOUS
  <2>a. focused'
    BY DEF DriftInv, Next, keypress_hook, keyrelease_hook, KeyElsewhere, KeyEscape,
           FocusChange, mousepress_hook, mouserelease_hook, mouse_hook, framehook,
           collapse, vars, envVars
  <2> SUFFICES ASSUME NEW a \in Axes, move_direction'[a] # 0 PROVE Cause(a)'
    BY <2>a DEF DriftInv, NoDrift
  <2>0. /\ move_direction \in [Axes -> Sign]
        /\ focused
        /\ move_direction[a] # 0 => Cause(a)
    BY DEF DriftInv, NoDrift, TypeOK
  <2>1. ASSUME NEW k \in Keys, keypress_hook(k) PROVE Cause(a)'
    <3>0. held' = held \cup {k}
      BY <2>1 DEF keypress_hook, KeyDown
    <3>1. CASE k \in MoveKeys /\ AxisOf(k) = a /\ Steer(k)
      <4>1. move_direction'[a] = SignOf(k)
        BY <2>0, <3>1 DEF Steer
      <4>2. QED
        BY <3>0, <3>1, <4>1
    <3>2. CASE ~(k \in MoveKeys /\ AxisOf(k) = a /\ Steer(k))
      <4>1. move_direction'[a] = move_direction[a]
        BY <2>0, <2>1, <3>2 DEF keypress_hook, Steer
      <4>2. QED
        BY <2>0, <3>0, <4>1
    <3>3. QED
      BY <3>1, <3>2
  <2>2. ASSUME NEW k \in Keys, keyrelease_hook(k) PROVE Cause(a)'
    <3>0. held' = held \ {k}
      BY <2>2 DEF keyrelease_hook, KeyUp
    <3>1. CASE k \in MoveKeys
      <4>1. move_direction' = [move_direction EXCEPT ![AxisOf(k)] = 0]
        BY <2>2, <3>1, KeyFacts DEF keyrelease_hook, Unsteer
      <4>2. AxisOf(k) # a /\ move_direction'[a] = move_direction[a]
        BY <2>0, <4>1
      <4>3. QED
        BY <2>0, <3>0, <4>2
    <3>2. CASE k \notin MoveKeys
      <4>1. UNCHANGED move_direction
        BY <2>2, <3>2 DEF keyrelease_hook, Unsteer
      <4>2. QED
        BY <2>0, <3>0, <3>2, <4>1
    <3>3. QED
      BY <3>1, <3>2
  <2>3. CASE KeyEscape
    BY <2>0, <2>3 DEF KeyEscape, KeyDown, moveVars
  <2>4. CASE \/ \E b \in Buttons : mousepress_hook(b) \/ mouserelease_hook(b)
             \/ mouse_hook \/ framehook \/ collapse \/ UNCHANGED vars
    <3>1. UNCHANGED <<focused, held, move_direction>>
      BY <2>4
         DEF mousepress_hook, mouserelease_hook, mouse_hook, framehook, collapse,
             vars, envVars, moveVars
    <3>2. QED
      BY <2>0, <3>1
  <2>5. QED
    BY <2>0, <2>1, <2>2, <2>3, <2>4 DEF Next, KeyElsewhere, FocusChange
<1>3. DriftInv => NoDrift
  BY DEF DriftInv
<1>4. QED
  BY <1>1, <1>2, <1>3, TypeCorrect, PTL DEF Spec

(* A direction of movement always comes from a key that is down: pressing  *)
(* the opposite key replaces its sign, releasing either clears it, and no  *)
(* other hook touches it (keypress_hook, keyrelease_hook).                 *)
THEOREM NeverDrifts == Spec => []NoDrift
<1>1. CASE ~FocusMoves
  BY <1>1, DriftWithFocus
<1>2. CASE FocusMoves
  <2>1. TypeOK => NoDrift
    BY <1>2 DEF NoDrift
  <2>2. QED
    BY <2>1, TypeCorrect, PTL
<1>3. QED
  BY <1>1, <1>2

-----------------------------------------------------------------------------
(* Counting the keys that are down.  A finite set of keys is counted by    *)
(* its cardinality, so a press adds one and a release takes one away.      *)

Steering == held \cap SteerKeys

LEMMA SteerKeysFinite == IsFiniteSet(SteerKeys)
<1> DEFINE ZX == {"W", "S", "A", "D"}
           Y  == {"SPACE", "LCTRL", "RCTRL"}
<1>1. IsFiniteSet({"W"}) /\ IsFiniteSet({"SPACE"}) /\ IsFiniteSet({"UP"})
  BY FS_Singleton
<1>2. IsFiniteSet({"W"} \cup {"S"}) /\ IsFiniteSet({"SPACE"} \cup {"LCTRL"})
      /\ IsFiniteSet({"UP"} \cup {"DOWN"})
  BY <1>1, FS_AddElement
<1>3. IsFiniteSet(({"W"} \cup {"S"}) \cup {"A"})
      /\ IsFiniteSet(({"SPACE"} \cup {"LCTRL"}) \cup {"RCTRL"})
      /\ IsFiniteSet(({"UP"} \cup {"DOWN"}) \cup {"LEFT"})
  BY <1>2, FS_AddElement
<1>4. IsFiniteSet((({"W"} \cup {"S"}) \cup {"A"}) \cup {"D"})
      /\ IsFiniteSet((({"UP"} \cup {"DOWN"}) \cup {"LEFT"}) \cup {"RIGHT"})
  BY <1>3, FS_AddElement
<1>5. /\ (({"W"} \cup {"S"}) \cup {"A"}) \cup {"D"} = ZX
      /\ ({"SPACE"} \cup {"LCTRL"}) \cup {"RCTRL"} = Y
      /\ (({"UP"} \cup {"DOWN"}) \cup {"LEFT"}) \cup {"RIGHT"} = LookKeys
  BY DEF LookKeys
<1>6. IsFiniteSet(ZX) /\ IsFiniteSet(Y) /\ IsFiniteSet(LookKeys)
  BY <1>3, <1>4, <1>5
<1>7. IsFiniteSet(ZX \cup Y)
  BY <1>6, FS_Union
<1>8. ZX \cup Y = MoveKeys
  BY DEF MoveKeys
<1>9. IsFiniteSet(MoveKeys \cup LookKeys)
  BY <1>6, <1>7, <1>8, FS_Union
<1>10. QED
  BY <1>9 DEF SteerKeys

LEMMA CountTyped ==
  IsFiniteSet(Steering) /\ Cardinality(Steering) \in Nat
<1>1. Steering \in SUBSET SteerKeys
  BY DEF Steering
<1>2. IsFiniteSet(Steering)
  BY <1>1, SteerKeysFinite, FS_Subset
<1>3. QED
  BY <1>2, FS_CardinalityType

LEMMA CountPress ==
  ASSUME NEW k, k \notin held, held' = held \cup {k}
  PROVE  Cardinality(Steering') = IF k \in SteerKeys THEN Cardinality(Steering) + 1
                                                     ELSE Cardinality(Steering)
<1>1. CASE k \in SteerKeys
  <2>1. Steering' = Steering \cup {k} /\ k \notin Steering
    BY <1>1 DEF Steering
  <2>2. QED
    BY <1>1, <2>1, CountTyped, FS_AddElement
<1>2. CASE k \notin SteerKeys
  BY <1>2 DEF Steering
<1>3. QED
  BY <1>1, <1>2

LEMMA CountRelease ==
  ASSUME NEW k, k \in held, held' = held \ {k}
  PROVE  Cardinality(Steering') = IF k \in SteerKeys THEN Cardinality(Steering) - 1
                                                     ELSE Cardinality(Steering)
<1>1. CASE k \in SteerKeys
  <2>1. Steering' = Steering \ {k} /\ k \in Steering
    BY <1>1 DEF Steering
  <2>2. QED
    BY <1>1, <2>1, CountTyped, FS_RemoveElement
<1>2. CASE k \notin SteerKeys
  BY <1>2 DEF Steering
<1>3. QED
  BY <1>1, <1>2

(* do_update counts the steering keys, and the P strokes on top of them;   *)
(* nothing is ever selected, so no frame overwrites the count.             *)
CountInv ==
  /\ TypeOK
  /\ focused
  /\ selected_obj = NoObj
  /\ do_update >= Cardinality(Steering)
  /\ "P" \notin Keys => do_update = Cardinality(Steering)

LEMMA CountNext ==
  ASSUME ~FocusMoves, "RIGHT" \notin Buttons
  PROVE  CountInv /\ TypeOK' /\ [Next]_vars => CountInv'
<1> SUFFICES ASSUME CountInv, TypeOK', [Next]_vars PROVE CountInv'
  OBVIOUS
<1>0. /\ do_update \in Int /\ focused /\ selected_obj = NoObj
      /\ do_update >= Cardinality(Steering)
      /\ "P" \notin Keys => do_update = Cardinality(Steering)
      /\ Cardinality(Steering) \in Nat
  BY CountTyped DEF CountInv, TypeOK
<1>1. ASSUME NEW k \in Keys, keypress_hook(k) PROVE CountInv'
  <2>1. k \notin held /\ held' = held \cup {k} /\ focused' /\ selected_obj' = NoObj
    BY <1>0, <1>1 DEF keypress_hook, KeyDown, selVars
  <2>2. CASE k \in SteerKeys
    <3>1. do_update' = do_update + 1
      BY <1>1, <2>2 DEF keypress_hook, SteerKeys, MoveKeys, LookKeys
    <3>2. Cardinality(Steering') = Cardinality(Steering) + 1
      BY <2>1, <2>2, CountPress
    <3>3. Cardinality(Steering)' = Cardinality(Steering')
      OBVIOUS
    <3>4. QED
      BY <1>0, <2>1, <3>1, <3>2 DEF CountInv
  <2>3. CASE k \notin SteerKeys
    <3>1. \/ k = "P" /\ do_update' = do_update + 1
          \/ do_update' = do_update
      BY <1>1, <2>3 DEF keypress_hook
    <3>2. Cardinality(Steering') = Cardinality(Steering)
      BY <2>1, <2>3, CountPress
    <3>3. QED
      BY <1>0, <2>1, <3>1, <3>2 DEF CountInv
  <2>4. QED
    BY <2>2, <2>3
<1>2. ASSUME NEW k \in Keys, keyrelease_hook(k) PROVE CountInv'
  <2>1. k \in held /\ held' = held \ {k} /\ focused' /\ selected_obj' = NoObj
    BY <1>0, <1>2 DEF keyrelease_hook, KeyUp, selVars
  <2>2. do_update' = IF k \in SteerKeys THEN do_update - 1 ELSE do_update
    BY <1>2, KeyFacts DEF keyrelease_hook
  <2>3. Cardinality(Steering') = IF k \in SteerKeys THEN Cardinality(Steering) - 1
                                                    ELSE Cardinality(Steering)
    BY <2>1, CountRelease
  <2>4. QED
    BY <1>0, <2>1, <2>2, <2>3 DEF CountInv
<1>3. CASE KeyEscape
  <2>1. /\ "ESCAPE" \notin held /\ held' = held \cup {"ESCAPE"}
        /\ UNCHANGED <<focused, selected_obj, do_update>>
    BY <1>3 DEF KeyEscape, KeyDown, selVars, moveVars
  <2>2. "ESCAPE" \notin SteerKeys
    BY DEF SteerKeys, MoveKeys, LookKeys
  <2>3. Cardinality(Steering') = Cardinality(Steering)
    BY <2>1, <2>2, CountPress
  <2>4. QED
    BY <1>0, <2>1, <2>3 DEF CountInv
<1>4. CASE \/ \E b \in Buttons : mousepress_hook(b) \/ mouserelease_hook(b)
           \/ mouse_hook \/ framehook \/ collapse \/ UNCHANGED vars
  <2>1. UNCHANGED <<focused, held, selected_obj, do_update>>
    <3>1. ASSUME NEW b \in Buttons, mouserelease_hook(b)
          PROVE  UNCHANGED <<focused, held, selected_obj, do_update>>
      BY <3>1 DEF mouserelease_hook, LookEnds, SelectClick, DragEnds, selVars
    <3>2. CASE framehook
      BY <1>0, <3>2 DEF framehook, envVars, selVars
    <3>3. CASE \/ \E b \in Buttons : mousepress_hook(b)
               \/ mouse_hook \/ collapse \/ UNCHANGED vars
      BY <3>3 DEF mousepress_hook, mouse_hook, collapse, vars, envVars, moveVars, selVars
    <3>4. QED
      BY <1>4, <3>1, <3>2, <3>3
  <2>2. Steering' = Steering
    BY <2>1 DEF Steering
  <2>3. QED
    BY <1>0, <2>1, <2>2 DEF CountInv
<1>5. QED
  BY <1>0, <1>1, <1>2, <1>3, <1>4 DEF Next, KeyElsewhere, FocusChange

LEMMA CountAlways ==
  ASSUME ~FocusMoves, "RIGHT" \notin Buttons
  PROVE  Spec => []CountInv
<1>1. Init => CountInv
  <2> SUFFICES ASSUME Init PROVE CountInv
    OBVIOUS
  <2>1. Steering = {}
    BY DEF Init, Steering
  <2>2. Cardinality(Steering) = 0
    BY <2>1, FS_EmptySet
  <2>3. QED
    BY <2>2, TypeInit DEF Init, CountInv
<1>2. QED
  BY <1>1, CountNext, TypeCorrect, PTL DEF Spec

(* With every key up the renderer idles: do_update is back at zero after   *)
(* any strokes in any order (keypress_hook, keyrelease_hook).              *)
THEOREM IdlesWhenReleased == Spec => []IdleWhenReleased
<1>1. CASE ~FocusMoves /\ "RIGHT" \notin Buttons
  <2>1. CountInv => IdleWhenReleased
    <3> SUFFICES ASSUME CountInv, "P" \notin Keys, held \cap SteerKeys = {}
                 PROVE  do_update = 0
      BY DEF IdleWhenReleased
    <3>1. Cardinality(Steering) = 0
      BY FS_EmptySet DEF Steering
    <3>2. QED
      BY <3>1 DEF CountInv
  <2>2. QED
    BY <1>1, <2>1, CountAlways, PTL
<1>2. CASE ~(~FocusMoves /\ "RIGHT" \notin Buttons)
  <2>1. TypeOK => IdleWhenReleased
    BY <1>2 DEF IdleWhenReleased
  <2>2. QED
    BY <2>1, TypeCorrect, PTL
<1>3. QED
  BY <1>1, <1>2

-----------------------------------------------------------------------------
(* A key that is down moves the camera. *)

SoleKeyInv ==
  \A k \in held \cap MoveKeys :
    SoleKeyOfAxis(k) => move_direction[AxisOf(k)] = SignOf(k)

LEMMA SoleKeyNext ==
  ASSUME ~FocusMoves
  PROVE  CountInv /\ SoleKeyInv /\ [Next]_vars => SoleKeyInv'
<1> SUFFICES ASSUME CountInv, SoleKeyInv, [Next]_vars,
                    NEW k \in held' \cap MoveKeys, SoleKeyOfAxis(k)
             PROVE  move_direction'[AxisOf(k)] = SignOf(k)
  BY DEF SoleKeyInv, SoleKeyOfAxis
<1>0. /\ focused
      /\ move_direction \in [Axes -> Sign]
      /\ AxisOf(k) \in Axes
      /\ k \in held => move_direction[AxisOf(k)] = SignOf(k)
      /\ \A l \in Keys \cap MoveKeys : AxisOf(l) = AxisOf(k) => l = k
  BY MoveKeysHaveAxes DEF CountInv, TypeOK, SoleKeyInv, SoleKeyOfAxis
<1>1. ASSUME NEW l \in Keys, keypress_hook(l)
      PROVE  move_direction'[AxisOf(k)] = SignOf(k)
  <2>0. held' = held \cup {l}
    BY <1>1 DEF keypress_hook, KeyDown
  <2>1. CASE l = k
    <3>1. k \in SteerKeys /\ k # "P" /\ k # "UNBOUND"
      BY DEF SteerKeys, MoveKeys, LookKeys
    <3>2. Steer(k)
      BY <1>1, <2>1, <3>1 DEF keypress_hook
    <3>3. QED
      BY <1>0, <3>2 DEF Steer
  <2>2. CASE l # k
    <3>1. k \in held
      BY <2>0, <2>2
    <3>2. move_direction'[AxisOf(k)] = move_direction[AxisOf(k)]
      BY <1>0, <1>1, <2>2 DEF keypress_hook, Steer
    <3>3. QED
      BY <1>0, <3>1, <3>2
  <2>3. QED
    BY <2>1, <2>2
<1>2. ASSUME NEW l \in Keys, keyrelease_hook(l)
      PROVE  move_direction'[AxisOf(k)] = SignOf(k)
  <2>1. held' = held \ {l}
    BY <1>2 DEF keyrelease_hook, KeyUp
  <2>2. l # k /\ k \in held
    BY <2>1
  <2>3. move_direction'[AxisOf(k)] = move_direction[AxisOf(k)]
    BY <1>0, <1>2, <2>2 DEF keyrelease_hook, Unsteer
  <2>4. QED
    BY <1>0, <2>2, <2>3
<1>3. CASE KeyEscape
  <2>1. UNCHANGED move_direction /\ held' = held \cup {"ESCAPE"} /\ k # "ESCAPE"
    BY <1>3 DEF KeyEscape, KeyDown, moveVars, MoveKeys
  <2>2. QED
    BY <1>0, <2>1
<1>4. CASE \/ \E b \in Buttons : mousepress_hook(b) \/ mouserelease_hook(b)
           \/ mouse_hook \/ framehook \/ collapse \/ UNCHANGED vars
  <2>1. UNCHANGED <<held, move_direction>>
    BY <1>4
       DEF mousepress_hook, mouserelease_hook, mouse_hook, framehook, collapse,
           vars, envVars, moveVars
  <2>2. QED
    BY <1>0, <2>1
<1>5. QED
  BY <1>0, <1>1, <1>2, <1>3, <1>4 DEF Next, KeyElsewhere, FocusChange

(* While a movement key is down and nothing is selected, its axis is set   *)
(* and frames are rendered, so the camera moves; P strokes only add to the *)
(* count (keypress_hook, keyrelease_hook, framehook).                      *)
THEOREM HeldKeysMove == Spec => []HeldKeyMoves
<1>1. CASE ~FocusMoves /\ "RIGHT" \notin Buttons
  <2>1. Init => SoleKeyInv
    BY DEF Init, SoleKeyInv
  <2>2. CountInv /\ SoleKeyInv => HeldKeyMoves
    <3> SUFFICES ASSUME CountInv, SoleKeyInv, NEW k \in held \cap MoveKeys
                 PROVE  /\ do_update > 0
                        /\ SoleKeyOfAxis(k) => move_direction[AxisOf(k)] = SignOf(k)
      BY DEF HeldKeyMoves
    <3>1. k \in Steering
      BY KeyFacts DEF Steering
    <3>2. Cardinality(Steering) # 0
      BY <3>1, CountTyped, FS_EmptySet
    <3>3. QED
      BY <3>2, CountTyped DEF CountInv, TypeOK, SoleKeyInv
  <2>3. QED
    BY <1>1, <2>1, <2>2, CountAlways, SoleKeyNext, PTL DEF Spec
<1>2. CASE ~(~FocusMoves /\ "RIGHT" \notin Buttons)
  <2>1. TypeOK => HeldKeyMoves
    BY <1>2 DEF HeldKeyMoves
  <2>2. QED
    BY <2>1, TypeCorrect, PTL
<1>3. QED
  BY <1>1, <1>2

-----------------------------------------------------------------------------
(* What is not on the screen has a frame pending. *)

PendingInv ==
  /\ PictureInv
  /\ do_update >= 0
  /\ selected_obj # NoObj => do_update >= 1
  /\ ~UpToDate => do_update >= 1

LEMMA PendingNext ==
  ASSUME Keys \cap SteerKeys = {}
  PROVE  PendingInv /\ PictureInv' /\ [Next]_vars => PendingInv'
<1> SUFFICES ASSUME PendingInv, PictureInv', [Next]_vars PROVE PendingInv'
  OBVIOUS
<1>0. /\ do_update \in Int /\ do_update >= 0
      /\ selected_obj # NoObj => do_update >= 1
      /\ ~UpToDate => do_update >= 1
      /\ DragIsSafe
  BY DEF PendingInv, PictureInv, SelectionInv, TypeOK
<1>1. CASE framehook
  <2>1. CASE selected_obj = NoObj
    <3>1. UpToDate'
      BY <1>1, <2>1, FramePicture DEF PendingInv, UpToDate, framehook, selVars, Image
    <3>2. do_update' = do_update /\ selected_obj' = NoObj
      BY <1>1, <2>1 DEF framehook, selVars
    <3>3. QED
      BY <1>0, <3>1, <3>2 DEF PendingInv
  <2>2. CASE selected_obj # NoObj
    BY <1>1, <2>2 DEF framehook, RequestUpdate, PendingInv
  <2>3. QED
    BY <2>1, <2>2
<1>2. CASE mouse_hook
  <2>1. UNCHANGED <<do_update, selected_obj, shown>>
    BY <1>2 DEF mouse_hook, selVars
  <2>2. CASE selected_obj = NoObj
    <3>1. UNCHANGED host
      BY <1>0, <1>2, <2>2 DEF mouse_hook, DragSelected, DragIsSafe, figVars
    <3>2. UpToDate' <=> UpToDate
      BY <2>1, <3>1 DEF UpToDate
    <3>3. QED
      BY <1>0, <2>1, <3>2 DEF PendingInv
  <2>3. CASE selected_obj # NoObj
    BY <1>0, <2>1, <2>3 DEF PendingInv
  <2>4. QED
    BY <2>2, <2>3
<1>3. ASSUME NEW b \in Buttons, mouserelease_hook(b) PROVE PendingInv'
  <2>1. CASE SelectClick(b)
    BY <2>1 DEF SelectClick, RequestUpdate, PendingInv
  <2>2. CASE LookEnds(b) \/ DragEnds(b)
    <3>1. UNCHANGED <<do_update, selected_obj, shown, host>>
      BY <1>3, <2>2 DEF mouserelease_hook, LookEnds, DragEnds, selVars, figVars
    <3>2. UpToDate' <=> UpToDate
      BY <3>1 DEF UpToDate
    <3>3. QED
      BY <1>0, <3>1, <3>2 DEF PendingInv
  <2>3. QED
    BY <1>3, <2>1, <2>2 DEF mouserelease_hook
<1>4. CASE \/ \E k \in Keys : keypress_hook(k) \/ keyrelease_hook(k) \/ KeyElsewhere(k)
           \/ KeyEscape \/ FocusChange \/ collapse \/ UNCHANGED vars
           \/ \E b \in Buttons : mousepress_hook(b)
  <2>1. UNCHANGED <<selected_obj, shown, host>>
    BY <1>4
       DEF keypress_hook, keyrelease_hook, KeyElsewhere, KeyEscape, FocusChange,
           collapse, mousepress_hook, vars, selVars, figVars
  <2>2. do_update' \in {do_update, do_update + 1}
    <3>1. ASSUME NEW k \in Keys, keyrelease_hook(k) PROVE do_update' = do_update
      BY <3>1, KeyFacts DEF keyrelease_hook
    <3>2. QED
      BY <1>4, <3>1
         DEF keypress_hook, KeyElsewhere, KeyEscape, FocusChange, collapse,
             mousepress_hook, vars, moveVars
  <2>3. UpToDate' <=> UpToDate
    BY <2>1 DEF UpToDate
  <2>4. QED
    BY <1>0, <2>1, <2>2, <2>3 DEF PendingInv
<1>5. QED
  BY <1>1, <1>2, <1>3, <1>4 DEF Next

(* In sessions without steering keys an edit or a selection the window     *)
(* does not show yet always has a frame pending, so that a fair loop shows *)
(* it (mouserelease_hook, update_sel_obj_center, framehook).               *)
THEOREM StaleAlwaysPending == Spec => []StaleIsPending
<1>1. CASE Keys \cap SteerKeys = {}
  <2>1. Init => PendingInv
    BY PictureInit DEF Init, PendingInv, UpToDate
  <2>2. PendingInv => StaleIsPending
    BY DEF PendingInv, StaleIsPending, WantsFrame
  <2>3. QED
    BY <1>1, <2>1, <2>2, PendingNext, PictureAlways, PTL DEF Spec
<1>2. CASE Keys \cap SteerKeys # {}
  <2>1. TypeOK => StaleIsPending
    BY <1>2 DEF StaleIsPending
  <2>2. QED
    BY <2>1, TypeCorrect, PTL
<1>3. QED
  BY <1>1, <1>2

(* A frame shows every edit and the selection as they are.                  *)
LEMMA FrameShows ==
  ASSUME TypeOK, PictureInv, framehook
  PROVE  UpToDate'
<1>1. shown'.figures = host'
  BY FramePicture
<1>2. selected_obj' = selected_obj
  BY DEF framehook, selVars
<1>3. CASE selected_obj = NoObj
  <2>1. shown'.overlay = Nothing
    BY <1>3 DEF framehook, Image
  <2>2. QED
    BY <1>1, <1>2, <1>3, <2>1 DEF UpToDate
<1>4. CASE selected_obj # NoObj
  <2>1. camera' \in Camera
    BY DEF framehook, MovedCamera
  <2>2. handles' \in Handles /\ handles'.obj = selected_obj
    BY <1>4, <2>1, HandlesTyped DEF framehook, HandlesOf
  <2>3. shown'.overlay = handles'
    BY <1>4 DEF framehook, Image
  <2>4. QED
    BY <1>1, <1>2, <1>4, <2>2, <2>3, ObjectsAssumption DEF UpToDate
<1>5. QED
  BY <1>3, <1>4

(* What EditsAreShown needs besides a loop that goes on: in sessions        *)
(* without steering keys the guard of framehook holds for as long as an     *)
(* edit or a selection is not on the screen, whatever the user does         *)
(* meanwhile, and the frame that is then rendered has all of them.          *)
THEOREM NextFrameShowsEdits ==
  /\ Spec => [](Keys \cap SteerKeys = {} /\ running /\ ~UpToDate =>
                  running /\ WantsFrame /\ MovedCamera # {})
  /\ Spec => [][framehook => UpToDate']_vars
<1>1. TypeOK => MovedCamera # {}
  <2>1. TypeOK => camera \in MovedCamera
    BY DEF TypeOK, MovedCamera
  <2>2. QED
    BY <2>1
<1>2. TypeOK /\ StaleIsPending =>
        (Keys \cap SteerKeys = {} /\ running /\ ~UpToDate =>
           running /\ WantsFrame /\ MovedCamera # {})
  BY <1>1 DEF StaleIsPending
<1>3. TypeOK /\ PictureInv => [framehook => UpToDate']_vars
  BY FrameShows
<1>4. QED
  BY <1>2, <1>3, TypeCorrect, PictureAlways, StaleAlwaysPending, PTL

=============================================================================

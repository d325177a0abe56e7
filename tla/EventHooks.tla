----------------------------- MODULE EventHooks -----------------------------
(***************************************************************************)
(* The event hooks of the ray tracer (src/src/event_hooks.cpp), with the   *)
(* parts of init_scene.cpp and main.cpp they call.  The program is one     *)
(* thread: mlx_loop delivers the pending X11 events to the key and mouse   *)
(* hooks, one at a time, and calls framehook whenever it has drained them. *)
(* Every hook therefore runs to completion before the next, and each is    *)
(* one action here; what interleaves is the ORDER of events and frames.    *)
(*                                                                         *)
(* The hooks share the static variables of namespace move_params, the host *)
(* copies of the figures (rtx::objects) and, through CLarray::fill, the    *)
(* copies in GPU memory that the kernel renders from.                      *)
(*                                                                         *)
(* Numbers are abstracted to what the properties tell apart: a position, a *)
(* size or a camera pose is a member of a small set, a speed is its sign,  *)
(* and what the mouse pointer is over is a free choice.                    *)
(***************************************************************************)
EXTENDS Integers, FiniteSets

CONSTANTS
  Objects,      \* the figures of the scene, host pointers in the code
  NoObj,        \* nullptr
  TypeOf,       \* the type of each figure
  Tracer,       \* --tracer: "RAY_TRACER" or "RAY_MARCHER"
  Keys,         \* the keys the user may touch in a session
  Buttons,      \* the mouse buttons the user may touch in a session
  FocusMoves,   \* whether the window may lose the keyboard focus
  Places,       \* positions of a figure
  Sizes,        \* sizes of a figure
  Positions,    \* positions of the camera
  Nothing,      \* no handles: none computed yet, or none drawn
  Angles,       \* view angles (alpha, theta) of the camera
  UpdateBound   \* bound on |do_update|: only P strokes and lost releases
                \* or presses push it past the number of keys

ObjType ==
  {"SPHERE", "PLANE", "TRIANGLE", "CONE", "CYLINDER", "TOR", "BOX"}

(* What the host-side closest_intersection of each tracer walks over. *)
Pickable ==
  [RAY_TRACER  |-> ObjType \ {"BOX"},
   RAY_MARCHER |-> {"SPHERE", "PLANE", "BOX"}]

Axes    == {"x", "y", "z"}       \* the components of move_direction
Turns   == {"alpha", "theta"}    \* the components of look_direction
MoveDir == {"NONE_DIR", "AXIS_OX", "AXIS_OY", "AXIS_OZ", "AXIS_RESIZE"}

MoveKeys  == {"W", "S", "A", "D", "SPACE", "LCTRL", "RCTRL"}
LookKeys  == {"UP", "DOWN", "LEFT", "RIGHT"}
SteerKeys == MoveKeys \cup LookKeys
KnownKeys == SteerKeys \cup {"P", "ESCAPE", "UNBOUND"}

(* The case labels of keyrelease_hook: the keys whose release is counted.  *)
(* Mutant: the fall-through label of the right control key is missing.     *)
ReleaseKeys_NoRightCtrl == SteerKeys \ {"RCTRL"}
ReleaseKeys == SteerKeys

AxisOf(k) ==
  CASE k \in {"W", "S"} -> "z"
    [] k \in {"A", "D"} -> "x"
    [] k \in {"SPACE", "LCTRL", "RCTRL"} -> "y"
    [] k \in {"UP", "DOWN"} -> "theta"
    [] k \in {"LEFT", "RIGHT"} -> "alpha"

SignOf(k) ==
  IF k \in {"W", "D", "SPACE", "DOWN", "RIGHT"} THEN 1 ELSE -1

Geometry == [place : Places, size : Sizes]
Camera   == [position : Positions, angle : Angles]
Sign     == {-1, 0, 1}

Handles == [obj : Objects, place : Places, camera : Camera]

Still   == [a \in Axes |-> 0]
NoTurn  == [a \in Turns |-> 0]

ASSUME ObjectsAssumption ==
  /\ IsFiniteSet(Objects)
  /\ NoObj \notin Objects
  /\ Nothing \notin Handles
  /\ TypeOf \in [Objects -> ObjType]
ASSUME SessionAssumption ==
  /\ Tracer \in {"RAY_TRACER", "RAY_MARCHER"}
  /\ Keys \subseteq KnownKeys
  /\ Buttons \subseteq {"LEFT", "RIGHT", "OTHER"}
  /\ FocusMoves \in BOOLEAN
  /\ UpdateBound \in Nat

VARIABLES
  running,            \* FALSE after exit() or rtx::collapse()
  focused,            \* environment: does the window get key events?
  held,               \* environment: the keys physically down
  buttons,            \* environment: the mouse buttons down
  do_update,          \* move_params::do_update, an int
  mouse_press,        \* move_params::mouse_press
  move_direction,     \* move_params::move_direction, as signs
  look_direction,     \* move_params::look_direction, as signs
  selected_obj,       \* move_params::selected_obj
  selected_type,      \* move_params::selected_type
  selected_move_dir,  \* move_params::selected_move_dir
  handles,            \* sel_c, sel_ox, sel_oy, sel_oz: what they were computed from
  camera,             \* cam_vec[current_camera]
  host,               \* sp_vec ... box_vec: the figures in host memory
  dev,                \* rtx::scene::figures: the figures in GPU memory
  shown               \* the image in the window and what it was made from

envVars  == <<focused, held, buttons>>
moveVars == <<do_update, mouse_press, move_direction, look_direction>>
selVars  == <<selected_obj, selected_type, selected_move_dir>>
figVars  == <<host, dev>>
vars     == <<running, envVars, moveVars, selVars, handles, camera, figVars, shown>>

TypeOK ==
  /\ running \in BOOLEAN
  /\ focused \in BOOLEAN
  /\ held \subseteq Keys
  /\ buttons \subseteq Buttons
  /\ do_update \in Int
  /\ mouse_press \in BOOLEAN
  /\ move_direction \in [Axes -> Sign]
  /\ look_direction \in [Turns -> Sign]
  /\ selected_obj \in Objects \cup {NoObj}
  /\ selected_type \in ObjType
  /\ selected_move_dir \in MoveDir
  /\ handles \in Handles \cup {Nothing}
  /\ camera \in Camera
  /\ host \in [Objects -> Geometry]
  /\ dev \in [Objects -> Geometry]
  /\ shown \in [camera : Camera, figures : [Objects -> Geometry],
                overlay : Handles \cup {Nothing}]

-----------------------------------------------------------------------------
(* The state main() hands to the event loop: the static initialisers of    *)
(* move_params, the figures copied to the device by init_scene, and the    *)
(* first image, rendered and put before event_loop() starts.               *)
Init ==
  /\ running = TRUE
  /\ focused = TRUE
  /\ held = {}
  /\ buttons = {}
  /\ do_update = 0
  /\ mouse_press = FALSE
  /\ move_direction = Still
  /\ look_direction = NoTurn
  /\ selected_obj = NoObj
  /\ selected_type = "SPHERE"
  /\ selected_move_dir = "NONE_DIR"
  /\ handles = Nothing
  /\ camera \in Camera
  /\ host \in [Objects -> Geometry]
  /\ dev = host
  /\ shown = [camera |-> camera, figures |-> dev, overlay |-> Nothing]

-----------------------------------------------------------------------------
(* The keyboard.  A key the user presses or releases while another window  *)
(* has the focus changes `held' and reaches no hook.  Auto-repeat arrives  *)
(* as a release followed by a press, like a fast stroke.                   *)

(* Mutant: a press adds to the direction instead of setting it. *)
Steer_Accumulates(k) ==
  IF k \in MoveKeys
  THEN /\ move_direction' = [move_direction EXCEPT ![AxisOf(k)] = @ + SignOf(k)]
       /\ UNCHANGED look_direction
  ELSE /\ look_direction' = [look_direction EXCEPT ![AxisOf(k)] = SignOf(k)]
       /\ UNCHANGED move_direction

(* One direction per axis: the last key pressed on it wins. *)
Steer(k) ==
  IF k \in MoveKeys
  THEN /\ move_direction' = [move_direction EXCEPT ![AxisOf(k)] = SignOf(k)]
       /\ UNCHANGED look_direction
  ELSE /\ look_direction' = [look_direction EXCEPT ![AxisOf(k)] = SignOf(k)]
       /\ UNCHANGED move_direction

(* Mutant: a release stops every axis. *)
Unsteer_AllAxes(k) ==
  IF k \in MoveKeys
  THEN move_direction' = Still /\ UNCHANGED look_direction
  ELSE look_direction' = NoTurn /\ UNCHANGED move_direction

(* Any release on an axis stops it, whichever key it was. *)
Unsteer(k) ==
  IF k \in MoveKeys
  THEN /\ move_direction' = [move_direction EXCEPT ![AxisOf(k)] = 0]
       /\ UNCHANGED look_direction
  ELSE /\ look_direction' = [look_direction EXCEPT ![AxisOf(k)] = 0]
       /\ UNCHANGED move_direction

KeyDown(k) ==
  /\ running
  /\ k \in Keys \ held
  /\ held' = held \cup {k}

KeyUp(k) ==
  /\ running
  /\ k \in held
  /\ held' = held \ {k}

(* keypress_hook: movement and look keys set their axis; P saves a         *)
(* screenshot; all three count one update.                                 *)
keypress_hook(k) ==
  /\ KeyDown(k)
  /\ focused
  /\ \/ /\ k \in SteerKeys
        /\ do_update < UpdateBound
        /\ Steer(k)
        /\ do_update' = do_update + 1
     \/ /\ k = "P"
        /\ do_update < UpdateBound
        /\ do_update' = do_update + 1
        /\ UNCHANGED <<move_direction, look_direction>>
     \/ /\ k = "UNBOUND"
        /\ UNCHANGED <<do_update, move_direction, look_direction>>
  /\ UNCHANGED <<running, focused, buttons, mouse_press, selVars, handles,
                 camera, figVars, shown>>

(* keypress_hook on escape: exit(0). *)
KeyEscape ==
  /\ KeyDown("ESCAPE")
  /\ focused
  /\ running' = FALSE
  /\ UNCHANGED <<focused, buttons, moveVars, selVars, handles, camera,
                 figVars, shown>>

(* keyrelease_hook: P and unbound keys return early and are not counted. *)
keyrelease_hook(k) ==
  /\ KeyUp(k)
  /\ focused
  /\ \/ /\ k \in ReleaseKeys
        /\ do_update > -UpdateBound
        /\ Unsteer(k)
        /\ do_update' = do_update - 1
     \/ /\ k \notin ReleaseKeys
        /\ UNCHANGED <<do_update, move_direction, look_direction>>
  /\ UNCHANGED <<running, focused, buttons, mouse_press, selVars, handles,
                 camera, figVars, shown>>

(* A stroke half that no hook sees. *)
KeyElsewhere(k) ==
  /\ ~focused
  /\ KeyDown(k) \/ KeyUp(k)
  /\ UNCHANGED <<running, focused, buttons, moveVars, selVars, handles,
                 camera, figVars, shown>>

FocusChange ==
  /\ running
  /\ FocusMoves
  /\ focused' = ~focused
  /\ UNCHANGED <<running, held, buttons, moveVars, selVars, handles, camera,
                 figVars, shown>>

-----------------------------------------------------------------------------
(* The mouse.  A press grabs the pointer, so its release is never lost.    *)

(* Mutant: the early return without a selection is missing. *)
CanGrab_Always == TRUE
CanGrab == selected_obj # NoObj

(* mousepress_hook.  The right button on a handle of the selected object   *)
(* starts a drag in the direction of that handle; which handle, if any, is *)
(* near the pointer is a free choice.                                      *)
mousepress_hook(b) ==
  /\ running
  /\ b \in Buttons \ buttons
  /\ buttons' = buttons \cup {b}
  /\ mouse_press' = (mouse_press \/ b = "LEFT")
  /\ \/ /\ b = "RIGHT"
        /\ CanGrab
        /\ selected_move_dir' \in MoveDir \ {"NONE_DIR"}
     \/ UNCHANGED selected_move_dir
  /\ UNCHANGED <<running, focused, held, do_update, move_direction,
                 look_direction, selected_obj, selected_type, handles, camera,
                 figVars, shown>>

(* object_at_pos: the object under the pointer, or nullptr.  On a miss the *)
(* type is an uninitialised local of closest_intersection.                 *)
Pick ==
  \/ /\ selected_obj' = NoObj
     /\ selected_type' \in ObjType
  \/ \E o \in Objects :
       /\ TypeOf[o] \in Pickable[Tracer]
       /\ selected_obj' = o
       /\ selected_type' = TypeOf[o]

(* `do_update = true', which assigns 1 to the int.                         *)
(* Mutant: the assignment is missing.                                      *)
RequestUpdate_Missing == UNCHANGED do_update
RequestUpdate == do_update' = 1

(* The three branches of mouserelease_hook.                                *)
(* Mutant: the left button ends a drag as well.                            *)
LookEnds_EndsDrag(b) ==
  /\ b = "LEFT"
  /\ mouse_press' = FALSE
  /\ selected_move_dir' = "NONE_DIR"
  /\ UNCHANGED <<do_update, selected_obj, selected_type>>

LookEnds(b) ==
  /\ b = "LEFT"
  /\ mouse_press' = FALSE
  /\ UNCHANGED <<do_update, selVars>>

(* A right click that is not a drag selects.  The count of held keys in    *)
(* do_update is overwritten by 1.                                          *)
SelectClick(b) ==
  /\ b = "RIGHT"
  /\ selected_move_dir = "NONE_DIR"
  /\ Pick
  /\ RequestUpdate
  /\ UNCHANGED <<mouse_press, selected_move_dir>>

(* Mutant: the last branch is missing. *)
DragEnds_Missing(b) ==
  /\ b # "LEFT"
  /\ b = "RIGHT" => selected_move_dir # "NONE_DIR"
  /\ UNCHANGED <<do_update, mouse_press, selVars>>

DragEnds(b) ==
  /\ b # "LEFT"
  /\ b = "RIGHT" => selected_move_dir # "NONE_DIR"
  /\ selected_move_dir' = "NONE_DIR"
  /\ UNCHANGED <<do_update, mouse_press, selected_obj, selected_type>>

mouserelease_hook(b) ==
  /\ running
  /\ b \in buttons
  /\ buttons' = buttons \ {b}
  /\ LookEnds(b) \/ SelectClick(b) \/ DragEnds(b)
  /\ UNCHANGED <<running, focused, held, move_direction, look_direction,
                 handles, camera, figVars, shown>>

(* resize_object then move_object, on a resize; move_object alone on an    *)
(* axis.  Planes and cones have no size to change.  A resize never enters  *)
(* a case of move_object's switches, so other types keep their place; but  *)
(* a triangle's vertices are scaled about its centre and then shifted by a *)
(* vector nobody initialised.                                              *)
Dragged(type, dir, old, new) ==
  /\ new.place # old.place => type = "TRIANGLE" \/ dir # "AXIS_RESIZE"
  /\ new.size # old.size => dir = "AXIS_RESIZE" /\ type \notin {"PLANE", "CONE"}

(* Mutant: the switch on the type has no case for triangles. *)
Refill_NoTriangles(type, figures) ==
  [o \in Objects |-> IF TypeOf[o] = type /\ type # "TRIANGLE"
                     THEN figures[o] ELSE dev[o]]

(* refill_spheres ... refill_boxes: every figure of one type is copied. *)
Refill(type, figures) ==
  [o \in Objects |-> IF TypeOf[o] = type THEN figures[o] ELSE dev[o]]

(* The part of mouse_hook that edits the scene. *)
DragSelected ==
  IF selected_move_dir = "NONE_DIR"
  THEN UNCHANGED figVars
  ELSE \E g \in Geometry :
         /\ Dragged(selected_type, selected_move_dir, host[selected_obj], g)
         /\ host' = [host EXCEPT ![selected_obj] = g]
         /\ dev' = Refill(selected_type, host')

mouse_hook ==
  /\ running
  /\ IF mouse_press THEN look_direction' \in [Turns -> Sign]
                    ELSE UNCHANGED look_direction
  /\ DragSelected
  /\ UNCHANGED <<running, envVars, do_update, mouse_press, move_direction,
                 selVars, handles, camera, shown>>

-----------------------------------------------------------------------------
(* The frame. *)

(* alpha, theta and the position after add_rotated_vec. *)
MovedCamera ==
  {c \in Camera : /\ look_direction = NoTurn => c.angle = camera.angle
                  /\ move_direction = Still => c.position = camera.position}

(* Mutant: the handles are computed before the camera moves. *)
HandlesOf_OldCamera(o, c) == [obj |-> o, place |-> host[o].place, camera |-> camera]

(* update_sel_obj_center: the handles in the picture of pose c. *)
HandlesOf(o, c) == [obj |-> o, place |-> host[o].place, camera |-> c]

(* Mutant: the camera is not copied to the device before the kernel runs. *)
Image_OldCamera(overlay) ==
  [camera |-> camera, figures |-> dev, overlay |-> overlay]

(* The kernel's image of the device figures from the new camera, and what  *)
(* is drawn over it.                                                       *)
Image(overlay) == [camera |-> camera', figures |-> dev, overlay |-> overlay]

(* Mutant: a frame is only wanted while the left button turns the view. *)
WantsFrame_ButtonOnly == mouse_press
WantsFrame == do_update # 0 \/ mouse_press

(* framehook.  It returns at once, a stuttering step, when nothing asks    *)
(* for an update.  The camera is copied to the device, the kernel run and  *)
(* the canvas read back; with an object selected its handles are computed, *)
(* drawn over the image, and do_update is overwritten by 1.                *)
framehook ==
  /\ running
  /\ WantsFrame
  /\ camera' \in MovedCamera
  /\ IF selected_obj # NoObj
     THEN /\ handles' = HandlesOf(selected_obj, camera')
          /\ RequestUpdate
          /\ shown' = Image(handles')
     ELSE /\ shown' = Image(Nothing)
          /\ UNCHANGED <<handles, do_update>>
  /\ look_direction' = NoTurn
  /\ UNCHANGED <<running, envVars, mouse_press, move_direction, selVars, figVars>>

(* The window's close button: rtx::collapse. *)
collapse ==
  /\ running
  /\ running' = FALSE
  /\ UNCHANGED <<envVars, moveVars, selVars, handles, camera, figVars, shown>>

-----------------------------------------------------------------------------
Next ==
  \/ \E k \in Keys : keypress_hook(k)
  \/ "ESCAPE" \in Keys /\ KeyEscape
  \/ \E k \in Keys : keyrelease_hook(k)
  \/ \E k \in Keys : KeyElsewhere(k)
  \/ FocusChange
  \/ \E b \in Buttons : mousepress_hook(b)
  \/ \E b \in Buttons : mouserelease_hook(b)
  \/ mouse_hook
  \/ framehook
  \/ collapse

Spec == Init /\ [][Next]_vars

(* mlx_loop calls the loop hook each time it has drained the pending       *)
(* events; nothing obliges the user to do anything.                        *)
FairSpec == Spec /\ WF_vars(framehook)

-----------------------------------------------------------------------------
(* The keyboard. *)

SoleKeyOfAxis(k) == \A l \in Keys \cap MoveKeys : AxisOf(l) = AxisOf(k) => l = k

(* The camera drifts along an axis only while a key of that axis and of    *)
(* that sign is down: a release is never forgotten, whatever the order of  *)
(* the strokes on opposite keys (keypress_hook, keyrelease_hook).  Claimed *)
(* of sessions in which the window keeps the focus.                        *)
NoDrift ==
  ~FocusMoves =>
    \A a \in Axes : move_direction[a] # 0 =>
      \E k \in held \cap MoveKeys :
        AxisOf(k) = a /\ SignOf(k) = move_direction[a]

(* A movement key that is down moves the camera: its axis is set and       *)
(* do_update keeps framehook rendering, however many other keys were       *)
(* pressed and released meanwhile.  A right click breaks the count, lost   *)
(* strokes too, and an opposite key stops the axis: claimed without them.  *)
HeldKeyMoves ==
  ~FocusMoves /\ "RIGHT" \notin Buttons =>
    \A k \in held \cap MoveKeys :
      /\ do_update > 0
      /\ SoleKeyOfAxis(k) => move_direction[AxisOf(k)] = SignOf(k)

(* With every key up do_update is back at zero, so the GPU idles.  A P     *)
(* stroke is never taken back, and a selection renders on purpose.         *)
IdleWhenReleased ==
  ~FocusMoves /\ "RIGHT" \notin Buttons /\ "P" \notin Keys =>
    (held \cap SteerKeys = {} => do_update = 0)

-----------------------------------------------------------------------------
(* Selecting and dragging. *)

(* mouse_hook dereferences selected_obj whenever a drag is on, and casts   *)
(* it by selected_type: there is an object, and it has that type.          *)
DragIsSafe ==
  /\ selected_move_dir # "NONE_DIR" => selected_obj # NoObj
  /\ selected_obj # NoObj => selected_type = TypeOf[selected_obj]

(* An object follows the pointer only while the right button is down, and  *)
(* the view only while the left one is, across overlapping presses of both *)
(* (mousepress_hook, mouserelease_hook).                                   *)
NoRunawayDrag ==
  /\ selected_move_dir # "NONE_DIR" => "RIGHT" \in buttons
  /\ mouse_press <=> "LEFT" \in buttons

(* A drag ends when the right button goes up and at no other moment, as    *)
(* long as no third button (a wheel notch is one) is touched.              *)
DragEndsWithButton ==
  [][ "OTHER" \notin Buttons /\ selected_move_dir # "NONE_DIR"
        => (selected_move_dir' # selected_move_dir <=> "RIGHT" \notin buttons')
    ]_vars

(* The handles the user sees are the ones mousepress_hook tests, and they  *)
(* sit on the object as the image shows it, from the pose of the image.    *)
HandlesOnScreen ==
  shown.overlay # Nothing =>
    /\ shown.overlay = handles
    /\ handles.camera = shown.camera
    /\ handles.place = shown.figures[handles.obj].place

-----------------------------------------------------------------------------
(* The picture. *)

(* What the kernel renders from is what the hooks edit and pick from: every *)
(* edit of a host figure reaches the device before the hook returns.        *)
DeviceMirrorsHost == dev = host

(* The window shows the figures as they are and the handles of the         *)
(* selected object, of that object alone.                                  *)
UpToDate ==
  /\ shown.figures = host
  /\ IF selected_obj = NoObj THEN shown.overlay = Nothing
     ELSE shown.overlay # Nothing /\ shown.overlay.obj = selected_obj

(* An edit or a selection that is not on the screen has a frame pending,   *)
(* in sessions without movement or look keys: there the counting of keys   *)
(* never takes back the update a selection asks for.                       *)
StaleIsPending ==
  Keys \cap SteerKeys = {} /\ ~UpToDate => WantsFrame

(* Every edit and every selection is on the screen again and again, until  *)
(* the program exits.                                                      *)
EditsAreShown == Keys \cap SteerKeys = {} => []<>(~running \/ UpToDate)

(* The hooks implement the viewer: its scene is the host's figures, its    *)
(* picture the pose and the device figures of the last image.              *)
V == INSTANCE Viewer WITH
       scene   <- host,
       picture <- [camera |-> shown.camera, scene |-> shown.figures]

(* Every hook, seen through the mapping, edits one object, refreshes the   *)
(* whole picture, exits, or does nothing the user can see.                 *)
ImplementsViewer == V!Spec

=============================================================================

------------------------------- MODULE Viewer -------------------------------
(***************************************************************************)
(* What the interactive ray tracer promises its user, with no mention of   *)
(* events, counters, host vectors or device buffers: there is one camera,  *)
(* one scene and one picture.  An edit changes a single object and leaves  *)
(* the picture alone; a refresh may move the camera and replaces the       *)
(* picture by a rendering of the scene as it is at that moment, seen from  *)
(* where the camera then is.  A picture never shows a mixture of scenes,   *)
(* nor the scene from a place the camera is not at.                        *)
(***************************************************************************)

CONSTANTS
  Objects,   \* the figures of the scene
  Geometry,  \* what a figure's position and size can be
  Camera     \* the poses of the camera

VARIABLES
  running,   \* FALSE once the program has been told to exit
  camera,    \* the pose of the camera
  scene,     \* the geometry of every object
  picture    \* the rendering on the screen: the pose and scene it was made from

viewerVars == <<running, camera, scene, picture>>

Rendering(c, s) == [camera |-> c, scene |-> s]

Init ==
  /\ running = TRUE
  /\ camera \in Camera
  /\ scene \in [Objects -> Geometry]
  /\ picture = Rendering(camera, scene)

(* The user drags one object: the picture is stale until the next refresh. *)
Edit(o) ==
  /\ running
  /\ \E g \in Geometry : scene' = [scene EXCEPT ![o] = g]
  /\ UNCHANGED <<running, camera, picture>>

(* A frame: the camera may move, and the whole picture is replaced. *)
Refresh ==
  /\ running
  /\ camera' \in Camera
  /\ picture' = Rendering(camera', scene)
  /\ UNCHANGED <<running, scene>>

Exit ==
  /\ running
  /\ running' = FALSE
  /\ UNCHANGED <<camera, scene, picture>>

Next ==
  \/ \E o \in Objects : Edit(o)
  \/ Refresh
  \/ Exit

Spec == Init /\ [][Next]_viewerVars

=============================================================================

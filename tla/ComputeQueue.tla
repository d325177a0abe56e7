---------------------------- MODULE ComputeQueue ----------------------------
(***************************************************************************)
(* A frame call by call: the host thread, which enqueues commands and may  *)
(* wait for them, and the GPU, which executes them one after the other.    *)
(* EventHooks takes a frame as one step; here is what makes that true.     *)
(*                                                                         *)
(* CLarray::fill and CLarray::dump block by default; framehook runs the    *)
(* kernel without blocking.  A command refers to host memory by pointer,   *)
(* so it sees what is there when it executes, not when it was enqueued.    *)
(* A kernel renders the pixels in any order, one per step.                 *)
(***************************************************************************)
EXTENDS Integers, Sequences, FiniteSets

CONSTANTS
  Pixels,    \* the work-items of tracer_kernel
  Objects,   \* the figures of the scene
  Geometry,  \* what a figure's position and size can be
  Camera,    \* the poses of the camera
  Blank      \* a picture before the first one

Rendering(c, f) == [camera |-> c, figures |-> f]
Colour == [camera : Camera, figures : [Objects -> Geometry]]

ASSUME PictureAssumption ==
  /\ Pixels # {} /\ IsFiniteSet(Pixels)
  /\ Blank \notin [Pixels -> Colour]

VARIABLES
  pc,       \* where the host thread is
  camera,   \* cam_vec[0]
  figures,  \* sp_vec ... box_vec
  queue,    \* commands enqueued and not yet complete
  todo,     \* the pixels the kernel at the head has still to render
  dev,      \* rtx::scene::cameras and rtx::scene::figures
  canvas,   \* rtx::scene::canvas
  img,      \* the memory of rtx::data::img
  shown     \* what put_image last put into the window

vars == <<pc, camera, figures, queue, todo, dev, canvas, img, shown>>
hostVars == <<camera, figures>>
gpuVars == <<todo, dev, canvas, img>>

Command == {"write cameras", "write figures", "kernel", "read"}

TypeOK ==
  /\ pc \in {"start", "first run", "event loop", "refill", "fill", "run",
             "dump", "exit"}
  /\ camera \in Camera
  /\ figures \in [Objects -> Geometry]
  /\ queue \in Seq(Command)
  /\ todo \subseteq Pixels
  /\ dev \in Colour
  /\ canvas \in [Pixels -> Colour]
  /\ img \in [Pixels -> Colour]
  /\ shown \in [Pixels -> Colour] \cup {Blank}

(* After init_scene, whose arrays are filled by blocking calls.  The canvas *)
(* and the image hold whatever was in their memory.                         *)
Init ==
  /\ pc = "start"
  /\ camera \in Camera
  /\ figures \in [Objects -> Geometry]
  /\ queue = <<>>
  /\ todo = Pixels
  /\ dev = Rendering(camera, figures)
  /\ canvas \in [Pixels -> Colour]
  /\ img \in [Pixels -> Colour]
  /\ shown = Blank

-----------------------------------------------------------------------------
(* The host thread. *)

Enqueue(command) == queue' = Append(queue, command)

(* "Function will block until all data will be filled" (CLarray.hpp:219).   *)
(* There is one host thread and the queue is in order: nothing else is left *)
(* then.                                                                    *)
Complete == queue = <<>>

(* The wait at the end of a refill, of the copy of the camera and of the    *)
(* read.  Mutants: the call passes block = false.                           *)
RefillReturns_NoBlock == TRUE
RefillReturns == Complete
FillReturns == Complete
DumpReturns_NoBlock == TRUE
DumpReturns == Complete

(* main runs the kernel and waits for it, then reads the canvas. *)
first_run ==
  /\ pc = "start"
  /\ pc' = "first run"
  /\ Enqueue("kernel")
  /\ UNCHANGED <<hostVars, gpuVars, shown>>

first_dump ==
  /\ pc = "first run"
  /\ Complete
  /\ pc' = "dump"
  /\ Enqueue("read")
  /\ UNCHANGED <<hostVars, gpuVars, shown>>

(* mouse_hook during a drag: one figure changes, its type is refilled. *)
mouse_hook(o) ==
  /\ pc = "event loop"
  /\ pc' = "refill"
  /\ \E g \in Geometry : figures' = [figures EXCEPT ![o] = g]
  /\ Enqueue("write figures")
  /\ UNCHANGED <<camera, gpuVars, shown>>

refilled ==
  /\ pc = "refill"
  /\ RefillReturns
  /\ pc' = "event loop"
  /\ UNCHANGED <<hostVars, queue, gpuVars, shown>>

(* framehook: the camera moves and is copied. *)
framehook ==
  /\ pc = "event loop"
  /\ pc' = "fill"
  /\ camera' \in Camera
  /\ Enqueue("write cameras")
  /\ UNCHANGED <<figures, gpuVars, shown>>

(* kernel->run(queue, false) *)
run ==
  /\ pc = "fill"
  /\ FillReturns
  /\ pc' = "run"
  /\ Enqueue("kernel")
  /\ UNCHANGED <<hostVars, gpuVars, shown>>

(* canvas.dump(img->raw_pixel_data(), queue) *)
dump ==
  /\ pc = "run"
  /\ pc' = "dump"
  /\ Enqueue("read")
  /\ UNCHANGED <<hostVars, gpuVars, shown>>

put_image ==
  /\ pc = "dump"
  /\ DumpReturns
  /\ pc' = "event loop"
  /\ shown' = img
  /\ UNCHANGED <<hostVars, queue, gpuVars>>

(* The close button or escape. *)
collapse ==
  /\ pc = "event loop"
  /\ pc' = "exit"
  /\ UNCHANGED <<hostVars, queue, gpuVars, shown>>

-----------------------------------------------------------------------------
(* The GPU.  The queue is created without properties: in order. *)

AtHead(command) == queue # <<>> /\ Head(queue) = command

write_cameras ==
  /\ AtHead("write cameras")
  /\ dev' = [dev EXCEPT !.camera = camera]
  /\ queue' = Tail(queue)
  /\ UNCHANGED <<pc, hostVars, todo, canvas, img, shown>>

write_figures ==
  /\ AtHead("write figures")
  /\ dev' = [dev EXCEPT !.figures = figures]
  /\ queue' = Tail(queue)
  /\ UNCHANGED <<pc, hostVars, todo, canvas, img, shown>>

(* A work-item that has its colour ends.                                   *)
(* Mutant: the loop over the rays does not end.                            *)
Ended_Never(p) == {}
Ended(p) == {p}

(* A work-item writes the colour of its pixel. *)
tracer_kernel(p) ==
  /\ AtHead("kernel")
  /\ p \in todo
  /\ todo' = todo \ Ended(p)
  /\ canvas' = [canvas EXCEPT ![p] = dev]
  /\ UNCHANGED <<pc, hostVars, queue, dev, img, shown>>

kernel_complete ==
  /\ AtHead("kernel")
  /\ todo = {}
  /\ todo' = Pixels
  /\ queue' = Tail(queue)
  /\ UNCHANGED <<pc, hostVars, dev, canvas, img, shown>>

read_canvas ==
  /\ AtHead("read")
  /\ img' = canvas
  /\ queue' = Tail(queue)
  /\ UNCHANGED <<pc, hostVars, todo, dev, canvas, shown>>

Host ==
  \/ first_run
  \/ first_dump
  \/ refilled
  \/ run
  \/ dump
  \/ put_image

User ==
  \/ \E o \in Objects : mouse_hook(o)
  \/ framehook
  \/ collapse

Gpu ==
  \/ write_cameras
  \/ write_figures
  \/ \E p \in Pixels : tracer_kernel(p)
  \/ kernel_complete
  \/ read_canvas

Next == Host \/ User \/ Gpu

Spec == Init /\ [][Next]_vars

(* The host thread runs, and the GPU executes what is enqueued. *)
FairSpec == Spec /\ WF_vars(Host) /\ WF_vars(Gpu)

-----------------------------------------------------------------------------
(* Every picture the window gets is whole and up to date: each pixel was    *)
(* rendered from where the camera is and from the figures as they are, with *)
(* nothing left of an earlier frame - though no one waits for the kernel.   *)
PictureIsWhole ==
  [][ shown' # shown =>
        \A p \in Pixels : shown'[p] = Rendering(camera, figures) ]_vars

(* Host memory that a pending command still has to read is left alone: no   *)
(* drag overtakes the refill of the one before, no frame the copy of the    *)
(* camera.                                                                  *)
NoChangeUnderCommand ==
  [][ /\ figures' # figures => "write figures" \notin {queue[i] : i \in DOMAIN queue}
      /\ camera' # camera => "write cameras" \notin {queue[i] : i \in DOMAIN queue}
    ]_vars

(* Between two hooks the GPU has nothing to do and has what the host has:   *)
(* the next hook may pick, drag or exit.                                    *)
IdleBetweenHooks ==
  pc \in {"event loop", "exit"} =>
    queue = <<>> /\ dev = Rendering(camera, figures)

(* Every hook returns: a wait of the host always ends.                      *)
HooksReturn == (pc \notin {"event loop", "exit"}) ~> (pc = "event loop")

(* What the window shows, as one rendering; a picture torn between frames  *)
(* is none.  Before the first picture it is taken as the one about to come.*)
picture ==
  IF shown = Blank THEN Rendering(camera, figures)
  ELSE LET c == shown[CHOOSE p \in Pixels : TRUE] IN
       IF \A p \in Pixels : shown[p] = c THEN c ELSE Rendering(c.camera, Blank)

V == INSTANCE Viewer WITH
       running <- pc # "exit",
       camera  <- picture.camera,
       scene   <- figures,
       picture <- [camera |-> picture.camera, scene |-> picture.figures]

(* Frame and drag, call by call on two processors, are the atomic steps of *)
(* Viewer: a drag is Edit, the moment put_image shows the frame is Refresh.*)
ImplementsViewer == V!Spec

=============================================================================

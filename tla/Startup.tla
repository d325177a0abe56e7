------------------------------ MODULE Startup ------------------------------
(***************************************************************************)
(* The life of the process: argparse, parse_scene, init_mlx, init_gpu,     *)
(* init_scene, init_kernel, the first picture, the event loop, and the ways*)
(* it ends: ESC, the closed window, a failed call.                         *)
(*                                                                         *)
(* The OpenCL wrappers (cllib) hold a handle each; an object lives while it*)
(* has a reference or another live object keeps it.  Each call to OpenCL   *)
(* and to the window library can fail.  What fails before init_scene is    *)
(* caught by main, unless it is compiled with __DEBUG; what is not caught  *)
(* ends the process at once, with nothing destroyed.                       *)
(***************************************************************************)
EXTENDS Naturals, Sequences

CONSTANTS
  Guards,    \* whether main has its try block: FALSE with __DEBUG
  Scenes,    \* what parse_scene found: figures, and numbered unions
  Null

Arrays == {"figures", "dfs_buff", "cameras", "lights", "canvas"}
Objects == Arrays \cup {"context", "queue", "program", "kernel"}

\* The wrappers: global variables, init_gpu's program, and the temporary of a
\* move assignment.
Wrappers == Objects \cup {"temp"}

ASSUME StartupAssumption ==
  /\ Guards \subseteq BOOLEAN
  /\ Scenes \subseteq [figures : BOOLEAN, unions : BOOLEAN]
  /\ Null \notin Objects /\ Null \notin Wrappers

VARIABLES
  guarded, scene,
  pc, at,                  \* the step, and the wrapper it is about
  got,                     \* argparse: the options seen
  tracer_type, kernel_file,
  own,                     \* the handle in each wrapper
  refs,                    \* the references the program has to each object
  built,                   \* what the program was compiled from and for
  grid,                    \* the kernel's work sizes
  args,                    \* the arguments set on the kernel
  win, img, hooks,         \* the window library's objects and callbacks
  used                     \* the OpenCL objects the last step named

cli == <<got, tracer_type, kernel_file>>
gpu == <<own, refs, built, grid, args, used>>
mlx == <<win, img, hooks>>
vars == <<guarded, scene, pc, at, cli, gpu, mlx>>

Init ==
  /\ guarded \in Guards /\ scene \in Scenes
  /\ pc = "argparse" /\ at = Null
  /\ got = {} /\ tracer_type = "RAY_TRACER_TYPE" /\ kernel_file = Null
  /\ own = [w \in Wrappers |-> Null] /\ refs = [o \in Objects |-> 0]
  /\ built = Null /\ grid = Null /\ args = <<>>
  /\ win = "none" /\ img = "none" /\ hooks = {}
  /\ used = {}

-----------------------------------------------------------------------------
(* References, and the ways the process ends.                               *)

\* OpenCL: a queue, a program and a buffer keep their context, a kernel keeps
\* its program.
Users(o) == CASE o = "context" -> Objects
              [] o = "program" -> {"program", "kernel"}
              [] OTHER -> {o}
Live(o) == \E user \in Users(o) : refs[user] > 0

\* The destructors: clRelease..., once for the handle a wrapper holds.
Released(w) == IF own[w] = Null THEN refs ELSE [refs EXCEPT ![own[w]] = @ - 1]
Held(w) == IF own[w] = Null THEN {} ELSE {own[w]}

\* The constructors; a handle in a temporary is on its way to a variable.
Created(w, o) == /\ own' = [own EXCEPT ![w] = o]
                 /\ refs' = [refs EXCEPT ![o] = 1]

\* operator =(&&).
\* Mutant: the source keeps the handle, as in CLcontext.
Moved_KeepsSource(w) == [own EXCEPT ![w] = own["temp"]]
Moved(w) == [own EXCEPT ![w] = own["temp"], !["temp"] = Null]

\* What is destroyed after what: by collapse; by unwinding out of init_gpu;
\* and at exit the variables of global.cpp, last first.
\* Mutant: collapse leaves the queue.
After_NoQueue == [kernel |-> "context", context |-> "canvas", queue |-> "canvas",
                  temp |-> "program", program |-> "canvas",
                  canvas |-> "lights", lights |-> "dfs_buff", dfs_buff |-> "figures",
                  figures |-> "cameras", cameras |-> Null]
After == [kernel |-> "context", context |-> "queue", queue |-> "canvas",
          temp |-> "program", program |-> "canvas",
          canvas |-> "lights", lights |-> "dfs_buff", dfs_buff |-> "figures",
          figures |-> "cameras", cameras |-> Null]

Step(step, w) == pc' = step /\ at' = w
Go(step) == Step(step, Null)
Exit == Step("destroy", "canvas")

\* Nothing of the process is destroyed on the way to terminate().
Terminate == Go("terminated")
Throw == IF guarded THEN Step("destroy", "temp") ELSE Terminate

DestroyNext ==
  /\ pc = "destroy" /\ at # Null
  /\ refs' = Released(at) /\ used' = Held(at)
  /\ own' = [own EXCEPT ![at] = Null]
  /\ at' = After[at]
  /\ UNCHANGED <<guarded, scene, pc, cli, built, grid, args, mlx>>

Ended == (pc = "terminated" \/ (pc = "destroy" /\ at = Null)) /\ UNCHANGED vars

-----------------------------------------------------------------------------
(* argparse and parse_scene.                                                *)

TracerWords == {"tracer", "tracing", "rtx"}
MarcherWords == {"marcher", "marching", "rmc"}
Words == {"--scene", "--tracer", "--help", "scene.json", "other"}
         \cup TracerWords \cup MarcherWords

\* Whether a word ends with ".json".
endthwith(word) == word = "scene.json"

SceneOption ==
  /\ pc = "argparse"
  /\ \E word \in Words \cup {Null} :
       IF endthwith(word) THEN got' = got \cup {"--scene"} /\ UNCHANGED <<pc, at>>
                          ELSE Exit /\ UNCHANGED got
  /\ UNCHANGED <<guarded, scene, tracer_type, kernel_file, gpu, mlx>>

TracerOption ==
  /\ pc = "argparse"
  /\ \E word \in Words \cup {Null} :
       \/ /\ word \in TracerWords
          /\ tracer_type' = "RAY_TRACER_TYPE" /\ kernel_file' = "tracer.cl"
          /\ got' = got \cup {"--tracer"} /\ UNCHANGED <<pc, at>>
       \/ /\ word \in MarcherWords
          /\ tracer_type' = "RAY_MARCHER_TYPE" /\ kernel_file' = "marcher.cl"
          /\ got' = got \cup {"--tracer"} /\ UNCHANGED <<pc, at>>
       \/ word \notin TracerWords \cup MarcherWords /\ Exit /\ UNCHANGED cli
  /\ UNCHANGED <<guarded, scene, gpu, mlx>>

\* --help, or an unknown option.
OtherOption ==
  /\ pc = "argparse"
  /\ Exit
  /\ UNCHANGED <<guarded, scene, cli, gpu, mlx>>

EndOfOptions ==
  /\ pc = "argparse"
  /\ IF got = {"--scene", "--tracer"} THEN Go("parse_scene") ELSE Exit
  /\ UNCHANGED <<guarded, scene, cli, gpu, mlx>>

\* A scene without lights fails an assertion, which nothing catches.
parse_scene ==
  /\ pc = "parse_scene"
  /\ Go("init_mlx") \/ Throw \/ Terminate
  /\ UNCHANGED <<guarded, scene, cli, gpu, mlx>>

-----------------------------------------------------------------------------
(* init_mlx.                                                                *)

\* Each hook is named for the event it is told of; "loop" is framehook.
AllHooks == {"key_press", "key_release", "mouse_move", "mouse_press",
             "mouse_release", "window_close", "loop"}

MLXcore ==
  /\ pc = "init_mlx"
  /\ Go("window") \/ Throw
  /\ UNCHANGED <<guarded, scene, cli, gpu, mlx>>

\* A width or height of zero throws too.
MLXwindow ==
  /\ pc = "window"
  /\ \/ win' = "open" /\ Go("image")
     \/ Throw /\ UNCHANGED win
  /\ UNCHANGED <<guarded, scene, cli, gpu, img, hooks>>

\* The address of the pixels is asked for before the image is known to exist:
\* without one the library's function crashes.
MLXimage ==
  /\ pc = "image"
  /\ \/ img' = "open" /\ hooks' = AllHooks /\ Go("init_gpu")
     \/ Terminate /\ UNCHANGED <<img, hooks>>
  /\ UNCHANGED <<guarded, scene, cli, gpu, win>>

-----------------------------------------------------------------------------
(* init_gpu.                                                                *)

\* No platform, or a failed call.
FindPlatform ==
  /\ pc = "init_gpu"
  /\ Go("device") \/ Throw
  /\ UNCHANGED <<guarded, scene, cli, gpu, mlx>>

\* A platform without devices is a failed call.
FindDevice ==
  /\ pc = "device"
  /\ Go("release devices") \/ Throw
  /\ UNCHANGED <<guarded, scene, cli, gpu, mlx>>

\* The vector of devices goes, but for the one that was moved out of it.  To
\* release a device of a platform changes nothing; the call can fail, and the
\* one for its name, and a vector's destructor lets no exception out.
ReleaseDevices ==
  /\ pc = "release devices"
  /\ Go("context") \/ Terminate
  /\ UNCHANGED <<guarded, scene, cli, gpu, mlx>>

CLcontext ==
  /\ pc = "context"
  /\ \/ Created("context", "context") /\ Go("queue")
     \/ Throw /\ UNCHANGED <<own, refs>>
  /\ used' = {}
  /\ UNCHANGED <<guarded, scene, cli, built, grid, args, mlx>>

CLqueue ==
  /\ pc = "queue"
  /\ \/ Created("queue", "queue") /\ Go("program")
     \/ Throw /\ UNCHANGED <<own, refs>>
  /\ used' = {own["context"]}
  /\ UNCHANGED <<guarded, scene, cli, built, grid, args, mlx>>

\* A kernel file that cannot be opened ends the process within init_gpu.
ReadKernelFile ==
  /\ pc = "program"
  /\ Go("source") \/ Exit
  /\ used' = {}
  /\ UNCHANGED <<guarded, scene, cli, own, refs, built, grid, args, mlx>>

CLprogram ==
  /\ pc = "source"
  /\ \/ Created("temp", "program") /\ Step("assign", "program")
     \/ Throw /\ UNCHANGED <<own, refs>>
  /\ used' = {own["context"]}
  /\ UNCHANGED <<guarded, scene, cli, built, grid, args, mlx>>

\* Of the options only that of the tracer changes the kernel's signature.
Flag == tracer_type

Compile ==
  /\ pc = "compile"
  /\ \/ built' = [file |-> kernel_file, flag |-> Flag] /\ Go("kernel")
     \/ Throw /\ UNCHANGED built
  /\ used' = {own["program"]}
  /\ UNCHANGED <<guarded, scene, cli, own, refs, grid, args, mlx>>

\* A kernel's work sizes: its own vector, and two pointers, each null or to a
\* vector of its own; the constructor first points them to its parameters.
\* Sizes of another dimension would throw, but init_gpu gives none.
Parameters == [global |-> <<>>, local |-> "parameter", offset |-> "parameter"]
set_global_work_size(k, sizes) == [k EXCEPT !.global = sizes]
set_local_work_size(k, sizes) == [k EXCEPT !.local = IF sizes = <<>> THEN Null ELSE sizes]
set_global_work_offset(k, sizes) == [k EXCEPT !.offset = IF sizes = <<>> THEN Null ELSE sizes]

WorkSizes(global, local, offset) ==
  set_global_work_offset(
    set_local_work_size(set_global_work_size(Parameters, global), local), offset)

CLkernel ==
  /\ pc = "kernel"
  /\ \/ /\ Created("kernel", "kernel") /\ Go("end init_gpu")
        /\ grid' = WorkSizes(<<"width", "height">>, <<>>, <<>>)
     \/ Throw /\ UNCHANGED <<own, refs, grid>>
  /\ used' = {own["program"]}
  /\ UNCHANGED <<guarded, scene, cli, built, args, mlx>>

\* The program goes, and then the device.
EndInitGpu ==
  /\ pc = "end init_gpu"
  /\ refs' = Released("program") /\ used' = Held("program")
  /\ own' = [own EXCEPT !["program"] = Null]
  /\ Step("make", "figures") \/ Throw
  /\ UNCHANGED <<guarded, scene, cli, built, grid, args, mlx>>

-----------------------------------------------------------------------------
(* x = CLprogram(...), x = CLarray(...): what becomes of the temporary.     *)

NextArray == [figures |-> IF scene.unions THEN "dfs_buff" ELSE "cameras",
              dfs_buff |-> "cameras", cameras |-> "lights", lights |-> "canvas"]

\* Unlike an array a CLprogram does not release what it held.
Assign ==
  /\ pc = "assign"
  /\ own' = Moved(at)
  /\ IF at = "program" THEN refs' = refs /\ used' = {}
     ELSE refs' = Released(at) /\ used' = Held(at)
  /\ Step("drop", at)
  /\ UNCHANGED <<guarded, scene, cli, built, grid, args, mlx>>

DropTemp ==
  /\ pc = "drop"
  /\ refs' = Released("temp") /\ used' = Held("temp")
  /\ own' = [own EXCEPT !["temp"] = Null]
  /\ CASE at = "program" -> Go("compile")
       [] at = "dfs_buff" -> Go("memset")
       [] at = "canvas" -> Go("init_kernel")
       [] OTHER -> Step("make", NextArray[at])
  /\ UNCHANGED <<guarded, scene, cli, built, grid, args, mlx>>

-----------------------------------------------------------------------------
(* init_scene, init_kernel and the first picture: no exception is caught.   *)

\* Arrays constructed from a vector are filled; the others only sized.
Filled == {"figures", "cameras", "lights"}

\* An array of nothing has no buffer.  A constructor that fails to fill its
\* buffer leaves it to nobody.
CLarray ==
  /\ pc = "make"
  /\ IF at = "figures" /\ ~scene.figures
     THEN Step("assign", at) /\ used' = {} /\ UNCHANGED <<own, refs>>
     ELSE /\ \/ Created("temp", at) /\ Step("assign", at)
             \/ Terminate /\ UNCHANGED <<own, refs>>
             \/ /\ at \in Filled
                /\ refs' = [refs EXCEPT ![at] = 1] /\ Terminate /\ UNCHANGED own
          /\ used' = {own["context"]} \cup IF at \in Filled THEN {own["queue"]} ELSE {}
  /\ UNCHANGED <<guarded, scene, cli, built, grid, args, mlx>>

MemsetUnions ==
  /\ pc = "memset"
  /\ Step("make", "cameras") \/ Terminate
  /\ used' = {own["dfs_buff"], own["queue"]}
  /\ UNCHANGED <<guarded, scene, cli, own, refs, built, grid, args, mlx>>

\* The arguments that follow the figures, in the order of both sides.
Counts == <<"lights", "cameras", "spheres_num", "planes_num", "triangles_num",
            "cones_num", "cylinders_num", "torus_num", "boxes_num",
            "lights_num", "cameras_num", "width", "height">>

\* What init_kernel sets, and what the kernel's signature has.
\* Mutant: the buffer of the unions is passed to the ray tracer too.
Arguments_Always == <<"canvas", "dfs_buff", "union_cnt", "figures">> \o Counts
Arguments == <<"canvas">>
             \o (IF tracer_type = "RAY_MARCHER_TYPE" THEN <<"dfs_buff", "union_cnt">> ELSE <<>>)
             \o <<"figures">> \o Counts
Signature(flag) == IF flag = "RAY_TRACER_TYPE"
                   THEN <<"canvas", "figures">> \o Counts
                   ELSE <<"canvas", "dfs_buff", "union_cnt", "figures">> \o Counts
Range(f) == {f[i] : i \in DOMAIN f}

init_kernel ==
  /\ pc = "init_kernel"
  /\ \/ args' = Arguments /\ Go("run")
     \/ Terminate /\ UNCHANGED args
  /\ used' = {own["kernel"]}
  /\ UNCHANGED <<guarded, scene, cli, own, refs, built, grid, mlx>>

\* A buffer that was never made is an argument all the same.
Rendering == {own["kernel"], own["queue"]}
             \cup {own[a] : a \in {b \in Arrays \cap Range(args) : own[b] # Null}}

Run ==
  /\ pc = "run"
  /\ Go("dump") \/ Terminate
  /\ used' = Rendering
  /\ UNCHANGED <<guarded, scene, cli, own, refs, built, grid, args, mlx>>

Dump ==
  /\ pc = "dump"
  /\ Go("fill") \/ Terminate
  /\ used' = {own["canvas"], own["queue"]}
  /\ UNCHANGED <<guarded, scene, cli, own, refs, built, grid, args, mlx>>

\* Canvas and image are of the configured size: nothing is thrown.
FillImage ==
  /\ pc = "fill"
  /\ Go("event_loop")
  /\ used' = {}
  /\ UNCHANGED <<guarded, scene, cli, own, refs, built, grid, args, mlx>>

-----------------------------------------------------------------------------
(* The event loop, seen from outside: see EventHooks for what the hooks do. *)

Frame ==
  /\ pc = "event_loop" /\ "loop" \in hooks
  /\ Go("event_loop") \/ Terminate
  /\ used' = Rendering
  /\ UNCHANGED <<guarded, scene, cli, own, refs, built, grid, args, mlx>>

\* exit: the objects of init_mlx and init_gpu are left to the system.
KeyEscape ==
  /\ pc = "event_loop" /\ "key_press" \in hooks
  /\ Exit
  /\ used' = {}
  /\ UNCHANGED <<guarded, scene, cli, own, refs, built, grid, args, mlx>>

collapse ==
  /\ pc = "event_loop" /\ "window_close" \in hooks
  /\ win' = "destroyed" /\ img' = "destroyed"
  /\ Step("destroy", "kernel")
  /\ used' = {}
  /\ UNCHANGED <<guarded, scene, cli, own, refs, built, grid, args, hooks>>

-----------------------------------------------------------------------------

Next ==
  \/ SceneOption \/ TracerOption \/ OtherOption \/ EndOfOptions \/ parse_scene
  \/ MLXcore \/ MLXwindow \/ MLXimage
  \/ FindPlatform \/ FindDevice \/ ReleaseDevices
  \/ CLcontext \/ CLqueue \/ ReadKernelFile \/ CLprogram \/ Compile \/ CLkernel \/ EndInitGpu
  \/ Assign \/ DropTemp \/ CLarray \/ MemsetUnions
  \/ init_kernel \/ Run \/ Dump \/ FillImage
  \/ Frame \/ KeyEscape \/ collapse
  \/ DestroyNext \/ Ended

Spec == Init /\ [][Next]_vars

-----------------------------------------------------------------------------
(* Properties.                                                              *)

(* A handle is in one wrapper only, and a wrapper's object has the one      *)
(* reference that wrapper releases: nothing is released twice, and what no  *)
(* wrapper holds is freed, unless a constructor failed half-way and ended   *)
(* the process.                                                             *)
OneOwner ==
  /\ \A w, v \in Wrappers : own[w] = own[v] /\ own[w] # Null => w = v
  /\ \A o \in Objects :
       /\ refs[o] = 1 \/ (refs[o] = 0 /\ \A w \in Wrappers : own[w] # o)
       /\ refs[o] = 1 => pc = "terminated" \/ \E w \in Wrappers : own[w] = o

(* OpenCL is only handed objects that live, in every order of construction, *)
(* unwinding and destruction; the context outlives collapse's deletion of   *)
(* it in the queue and the buffers.                                         *)
NothingDeadIsUsed == [][used' \subseteq {o \in Objects : Live(o)}]_vars

(* When the kernel runs, the file and the flag it was compiled with and the *)
(* arguments set belong together, whatever options came in whatever order;  *)
(* it runs once per pixel, by sizes that are its own.                       *)
ArgumentsMatchKernel ==
  pc \in {"run", "dump", "fill", "event_loop"} =>
    /\ args = Signature(built.flag)
    /\ grid = [global |-> <<"width", "height">>, local |-> Null, offset |-> Null]
    /\ built.file = IF built.flag = "RAY_TRACER_TYPE" THEN "tracer.cl" ELSE "marcher.cl"

(* A process that exits has freed its arrays, and everything if its window  *)
(* was closed.                                                              *)
FreedAtExit ==
  pc = "destroy" /\ at = Null =>
    /\ \A o \in Arrays : ~Live(o)
    /\ win = "destroyed" => \A o \in Objects : ~Live(o)
=============================================================================

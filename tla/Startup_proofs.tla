--------------------------- MODULE Startup_proofs ---------------------------
(***************************************************************************)
(* Proofs about the life of the process: which wrapper holds what at every *)
(* step, and from it that nothing is released twice, used dead, or left    *)
(* behind when the window is closed.                                       *)
(***************************************************************************)
EXTENDS Startup, TLAPS

Steps == {"argparse", "parse_scene", "init_mlx", "window", "image", "init_gpu", "device",
          "release devices", "context", "queue", "program", "source", "assign", "drop",
          "compile", "kernel", "end init_gpu", "make", "memset", "init_kernel", "run",
          "dump", "fill", "event_loop", "destroy", "terminated"}

(* The types, and what a step can be about.                                 *)
TypeOK ==
  /\ guarded \in BOOLEAN /\ scene \in [figures : BOOLEAN, unions : BOOLEAN]
  /\ pc \in Steps /\ at \in Wrappers \cup {Null}
  /\ pc = "make" => at \in Arrays
  /\ pc \in {"assign", "drop"} => at \in Arrays \cup {"program"}
  /\ got \subseteq {"--scene", "--tracer"}
  /\ tracer_type \in {"RAY_TRACER_TYPE", "RAY_MARCHER_TYPE"}
  /\ own \in [Wrappers -> Objects \cup {Null}] /\ refs \in [Objects -> {0, 1}]
  /\ win \in {"none", "open", "destroyed"}
  /\ pc # "destroy" => win # "destroyed"

\* Every wrapper holds its own object; the temporary what is being assigned.
Home ==
  /\ \A w \in Objects : own[w] \in {w, Null}
  /\ own["temp"] # Null => /\ pc = "assign" /\ own["temp"] = at
                           /\ own[at] = Null

Counted ==
  \A o \in Objects :
    /\ own[o] = o \/ own["temp"] = o => refs[o] = 1
    /\ refs[o] = 1 => pc = "terminated" \/ own[o] = o \/ own["temp"] = o

Gone == {"destroy", "terminated"}
Early == {"argparse", "parse_scene", "init_mlx", "window", "image", "init_gpu", "device",
          "release devices", "context", "queue", "program", "source", "compile", "kernel",
          "end init_gpu"}
Late == {"make", "memset", "init_kernel", "run", "dump", "fill", "event_loop"}

\* The objects of init_gpu in their wrappers, step by step.
HaveContext == pc \in {"queue", "program", "source", "assign", "drop", "compile", "kernel",
                       "end init_gpu"} \cup Late
HaveQueue == HaveContext /\ pc # "queue"
HaveProgram == pc \in {"compile", "kernel", "end init_gpu"} \/ (pc = "drop" /\ at = "program")
HaveKernel == pc \in {"end init_gpu"} \cup Late \/ (pc \in {"assign", "drop"} /\ at # "program")

InitGpuOK ==
  pc \notin Gone =>
    /\ own["context"] = IF HaveContext THEN "context" ELSE Null
    /\ own["queue"] = IF HaveQueue THEN "queue" ELSE Null
    /\ own["program"] = IF HaveProgram THEN "program" ELSE Null
    /\ own["kernel"] = IF HaveKernel THEN "kernel" ELSE Null

\* The arrays in the order init_scene makes them.
Nth(a) == CASE a = "figures" -> 1 [] a = "dfs_buff" -> 2 [] a = "cameras" -> 3
            [] a = "lights" -> 4 [] a = "canvas" -> 5 [] OTHER -> 0

InitSceneOK ==
  /\ pc \in Early => \A a \in Arrays : own[a] = Null
  /\ pc \in {"make", "assign"} => \A a \in Arrays : Nth(a) >= Nth(at) => own[a] = Null
  /\ pc = "drop" => \A a \in Arrays : Nth(a) > Nth(at) => own[a] = Null
  /\ pc = "memset" => \A a \in Arrays : Nth(a) > 2 => own[a] = Null
  /\ pc = "assign" /\ at # "figures" => own["temp"] = at
  /\ pc = "drop" /\ at # "figures" => own[at] = at
  /\ pc = "memset" => own["dfs_buff"] = "dfs_buff"
  /\ pc \in {"init_kernel", "run", "dump", "fill", "event_loop"} => own["canvas"] = "canvas"

\* The order of destruction.
Rank(w) == CASE w = "kernel" -> 1 [] w = "context" -> 2 [] w = "queue" -> 3
             [] w = "canvas" -> 4 [] w = "lights" -> 5 [] w = "dfs_buff" -> 6
             [] w = "figures" -> 7 [] w = "cameras" -> 8 [] w = Null -> 9 [] OTHER -> 0

Destroying ==
  pc = "destroy" =>
    /\ win = "destroyed" => at \notin {"temp", "program"}
    /\ \A w \in Wrappers :
         Rank(w) < Rank(at) /\ (w \in Arrays \/ win = "destroyed") => own[w] = Null

OptionsOK ==
  /\ \/ pc = "argparse" /\ "--tracer" \notin got
     \/ pc \in Gone
     \/ kernel_file = IF tracer_type = "RAY_TRACER_TYPE" THEN "tracer.cl" ELSE "marcher.cl"
  /\ pc \in {"kernel", "end init_gpu"} \cup Late \/ (pc \in {"assign", "drop"} /\ at # "program")
       => built = [file |-> kernel_file, flag |-> tracer_type]
  /\ pc \in {"run", "dump", "fill", "event_loop"} => args = Arguments

IInv == /\ TypeOK /\ Home /\ Counted /\ InitGpuOK /\ InitSceneOK /\ Destroying /\ OptionsOK

LEMMA NullFact ==
  /\ Null \notin Objects /\ Null \notin Wrappers
  /\ guarded \in Guards => guarded \in BOOLEAN
  /\ scene \in Scenes => scene \in [figures : BOOLEAN, unions : BOOLEAN]
  /\ "temp" \notin Objects /\ "program" \notin Arrays
BY StartupAssumption DEF Objects, Arrays

LEMMA AfterFact ==
  /\ After["kernel"] = "context" /\ After["context"] = "queue" /\ After["queue"] = "canvas"
  /\ After["temp"] = "program" /\ After["program"] = "canvas"
  /\ After["canvas"] = "lights" /\ After["lights"] = "dfs_buff"
  /\ After["dfs_buff"] = "figures" /\ After["figures"] = "cameras"
  /\ After["cameras"] = Null
BY DEF After

LEMMA RankFact ==
  /\ Rank("temp") = 0 /\ Rank("program") = 0 /\ Rank("kernel") = 1
  /\ Rank("context") = 2 /\ Rank("queue") = 3
  /\ Rank("canvas") = 4 /\ Rank("lights") = 5 /\ Rank("dfs_buff") = 6
  /\ Rank("figures") = 7 /\ Rank("cameras") = 8 /\ Rank(Null) = 9
  /\ \A a \in Arrays : Rank(a) \in Nat /\ Rank(a) >= 4
  /\ \A w \in Wrappers \cup {Null} : Rank(w) \in Nat
BY NullFact DEF Rank, Wrappers, Objects, Arrays

LEMMA InitIInv == Init => IInv
<1>. SUFFICES ASSUME Init PROVE IInv
  OBVIOUS
<1>1. TypeOK
  BY NullFact DEF Init, TypeOK, Steps
<1>2. Home /\ Counted
  BY NullFact DEF Init, Home, Counted, Wrappers
<1>3. InitGpuOK
  BY DEF Init, InitGpuOK, HaveContext, HaveQueue, HaveProgram, HaveKernel, Late, Wrappers, Objects
<1>4. InitSceneOK /\ Destroying
  BY DEF Init, InitSceneOK, Destroying, Wrappers, Objects
<1>5. OptionsOK
  BY DEF Init, OptionsOK, Late
<1>. QED
  BY <1>1, <1>2, <1>3, <1>4, <1>5 DEF IInv

\* Steps that leave the wrappers alone.
LEMMA QuietFact ==
  ASSUME IInv, own' = own, refs' = refs, pc \notin {"assign", "terminated"}
  PROVE  Home' /\ Counted'
<1>1. own["temp"] = Null
  BY DEF IInv, Home
<1>. QED
  BY <1>1 DEF IInv, Home, Counted

LEMMA OptionStep ==
  IInv /\ (SceneOption \/ TracerOption \/ OtherOption \/ EndOfOptions \/ parse_scene) => IInv'
<1>. SUFFICES ASSUME IInv, SceneOption \/ TracerOption \/ OtherOption \/ EndOfOptions \/ parse_scene
              PROVE  IInv'
  OBVIOUS
<1>1. /\ pc \in {"argparse", "parse_scene"}
      /\ pc' \in {"argparse", "parse_scene", "init_mlx", "destroy", "terminated"}
      /\ pc' = "destroy" => at' \in {"canvas", "temp"}
      /\ own' = own /\ refs' = refs /\ built' = built /\ args' = args
      /\ win' = win /\ guarded' = guarded /\ scene' = scene
      /\ at' \in {"canvas", "temp", Null, at}
      /\ got' \subseteq got \cup {"--scene", "--tracer"}
      /\ tracer_type' \in {tracer_type, "RAY_TRACER_TYPE", "RAY_MARCHER_TYPE"}
  BY DEF SceneOption, TracerOption, OtherOption, EndOfOptions, parse_scene,
         Exit, Throw, Terminate, Go, Step, gpu, mlx, cli
<1>2. TypeOK'
  <2>1. /\ pc' \in Steps /\ at' \in Wrappers \cup {Null}
        /\ pc' \notin {"make", "assign", "drop"}
    BY <1>1 DEF IInv, TypeOK, Steps, Wrappers, Objects, Arrays
  <2>2. got' \subseteq {"--scene", "--tracer"}
    BY <1>1 DEF IInv, TypeOK
  <2>. QED
    BY <1>1, <2>1, <2>2 DEF IInv, TypeOK
<1>3. Home' /\ Counted'
  BY <1>1, QuietFact
<1>4. InitGpuOK'
  BY <1>1 DEF IInv, InitGpuOK, HaveContext, HaveQueue, HaveProgram, HaveKernel, Late, Gone
<1>5. InitSceneOK'
  BY <1>1 DEF IInv, InitSceneOK, Early
<1>6. Destroying'
  BY <1>1, RankFact DEF IInv, Destroying, TypeOK
<1>7. OptionsOK'
  <2>1. \/ pc' = "argparse" /\ "--tracer" \notin got'
        \/ pc' \in Gone
        \/ kernel_file' = IF tracer_type' = "RAY_TRACER_TYPE" THEN "tracer.cl" ELSE "marcher.cl"
    <3>1. CASE TracerOption
      BY <3>1 DEF TracerOption, IInv, OptionsOK, Exit, Step, cli, Gone
    <3>2. CASE SceneOption
      BY <3>2 DEF SceneOption, IInv, OptionsOK, Exit, Step, Gone
    <3>3. CASE OtherOption \/ EndOfOptions
      BY <3>3 DEF OtherOption, EndOfOptions, IInv, OptionsOK, Exit, Go, Step, cli, Gone
    <3>4. CASE parse_scene
      BY <3>4 DEF parse_scene, IInv, OptionsOK, cli, Gone
    <3>. QED
      BY <3>1, <3>2, <3>3, <3>4
  <2>. QED
    BY <1>1, <2>1 DEF OptionsOK, Late
<1>. QED
  BY <1>2, <1>3, <1>4, <1>5, <1>6, <1>7 DEF IInv

\* Unwinding starts before anything that is destroyed.
LEMMA UnwindFact ==
  ASSUME pc' = "destroy" => at' = "temp", win' # "destroyed"
  PROVE  Destroying'
<1>1. \A w \in Wrappers : ~(Rank(w) < Rank("temp"))
  BY RankFact
<1>. QED
  BY <1>1 DEF Destroying

LEMMA MlxStep ==
  IInv /\ (MLXcore \/ MLXwindow \/ MLXimage \/ FindPlatform \/ FindDevice \/ ReleaseDevices)
    => IInv'
<1>. SUFFICES ASSUME IInv,
                     \/ MLXcore \/ MLXwindow \/ MLXimage
                     \/ FindPlatform \/ FindDevice \/ ReleaseDevices
              PROVE  IInv'
  OBVIOUS
<1>1. /\ pc \in {"init_mlx", "window", "image", "init_gpu", "device", "release devices"}
      /\ pc' \in {"window", "image", "init_gpu", "device", "release devices", "context",
                  "destroy", "terminated"}
      /\ pc' = "destroy" => at' = "temp"
      /\ own' = own /\ refs' = refs /\ built' = built /\ args' = args
      /\ win' \in {win, "open"} /\ guarded' = guarded /\ scene' = scene
      /\ at' \in {"temp", Null}
      /\ got' = got /\ tracer_type' = tracer_type /\ kernel_file' = kernel_file
  BY DEF MLXcore, MLXwindow, MLXimage, FindPlatform, FindDevice, ReleaseDevices,
         Throw, Terminate, Go, Step, gpu, mlx, cli
<1>2. TypeOK'
  BY <1>1 DEF IInv, TypeOK, Steps, Wrappers
<1>3. Home' /\ Counted'
  BY <1>1, QuietFact
<1>4. InitGpuOK'
  BY <1>1 DEF IInv, InitGpuOK, HaveContext, HaveQueue, HaveProgram, HaveKernel, Late, Gone
<1>5. InitSceneOK'
  BY <1>1 DEF IInv, InitSceneOK, Early
<1>6. Destroying'
  <2>. win # "destroyed"
    BY <1>1 DEF IInv, TypeOK
  <2>. QED
    BY <1>1, UnwindFact
<1>7. OptionsOK'
  BY <1>1 DEF IInv, OptionsOK, Late, Gone
<1>. QED
  BY <1>2, <1>3, <1>4, <1>5, <1>6, <1>7 DEF IInv

\* A constructor, into its variable or into the temporary of an assignment.
LEMMA CreatedFact ==
  ASSUME IInv, NEW w \in Wrappers, NEW o \in Objects, Created(w, o),
         w = o \/ (w = "temp" /\ pc' = "assign" /\ at' = o),
         own[o] = Null, pc # "assign", pc # "terminated"
  PROVE  /\ own' \in [Wrappers -> Objects \cup {Null}] /\ refs' \in [Objects -> {0, 1}]
         /\ Home' /\ Counted'
         /\ \A v \in Wrappers : own'[v] = IF v = w THEN o ELSE own[v]
<1>1. /\ own \in [Wrappers -> Objects \cup {Null}] /\ refs \in [Objects -> {0, 1}]
      /\ own["temp"] = Null
  BY DEF IInv, TypeOK, Home
<1>2. own' = [own EXCEPT ![w] = o] /\ refs' = [refs EXCEPT ![o] = 1]
  BY DEF Created
<1>3. /\ own' \in [Wrappers -> Objects \cup {Null}] /\ refs' \in [Objects -> {0, 1}]
      /\ \A v \in Wrappers : own'[v] = IF v = w THEN o ELSE own[v]
      /\ \A p \in Objects : refs'[p] = IF p = o THEN 1 ELSE refs[p]
  BY <1>1, <1>2
<1>4. Objects \subseteq Wrappers /\ "temp" \in Wrappers /\ "temp" \notin Objects
  BY NullFact DEF Wrappers
<1>5. Home'
  BY <1>1, <1>3, <1>4, NullFact DEF IInv, Home
<1>6. Counted'
  BY <1>1, <1>3, <1>4, NullFact DEF IInv, Counted, Home
<1>. QED
  BY <1>3, <1>5, <1>6

\* A step of init_gpu that fails changes no wrapper.
LEMMA GpuFailure ==
  ASSUME IInv, pc \in {"context", "queue", "program", "source", "compile", "kernel"},
         own' = own, refs' = refs, Throw \/ Exit,
         UNCHANGED <<guarded, scene, cli, built, args, mlx>>
  PROVE  IInv'
<1>1. /\ pc' \in {"destroy", "terminated"} /\ at' \in {"temp", "canvas", Null}
      /\ pc' = "destroy" => at' \in {"temp", "canvas"}
      /\ guarded' = guarded /\ scene' = scene /\ got' = got
      /\ tracer_type' = tracer_type /\ kernel_file' = kernel_file
      /\ built' = built /\ args' = args /\ win' = win
  BY DEF Throw, Exit, Terminate, Go, Step, cli, mlx
<1>2. TypeOK'
  BY <1>1 DEF IInv, TypeOK, Steps, Wrappers, Objects, Arrays
<1>3. Home' /\ Counted'
  BY QuietFact
<1>4. InitGpuOK' /\ InitSceneOK'
  BY <1>1 DEF InitGpuOK, InitSceneOK, Early, Gone
<1>5. Destroying'
  BY <1>1, RankFact DEF IInv, Destroying, TypeOK
<1>6. OptionsOK'
  BY <1>1 DEF IInv, OptionsOK, Late, Gone
<1>. QED
  BY <1>2, <1>3, <1>4, <1>5, <1>6 DEF IInv

LEMMA CLcontextStep == IInv /\ CLcontext => IInv'
<1>. SUFFICES ASSUME IInv, CLcontext PROVE IInv'
  OBVIOUS
<1>1. /\ pc = "context" /\ UNCHANGED <<guarded, scene, cli, built, grid, args, mlx>>
      /\ \/ Created("context", "context") /\ Go("queue")
         \/ Throw /\ own' = own /\ refs' = refs
  BY DEF CLcontext
<1>2. CASE Created("context", "context") /\ Go("queue")
  <2>1. /\ pc' = "queue" /\ at' = Null /\ guarded' = guarded /\ scene' = scene
        /\ got' = got /\ tracer_type' = tracer_type /\ kernel_file' = kernel_file
        /\ built' = built /\ args' = args /\ win' = win
    BY <1>1, <1>2 DEF Go, Step, cli, mlx
  <2>2. "context" \in Objects /\ "context" \in Wrappers /\ own["context"] = Null
    BY <1>1 DEF Objects, Wrappers, IInv, InitGpuOK, HaveContext, Gone, Late
  <2>3. /\ own' \in [Wrappers -> Objects \cup {Null}] /\ refs' \in [Objects -> {0, 1}]
        /\ Home' /\ Counted'
        /\ \A v \in Wrappers : own'[v] = IF v = "context" THEN "context" ELSE own[v]
    BY <1>1, <1>2, <2>2, CreatedFact
  <2>4. TypeOK'
    BY <1>1, <2>1, <2>3 DEF IInv, TypeOK, Steps
  <2>5. InitGpuOK'
    BY <1>1, <2>1, <2>3 DEF IInv, InitGpuOK, HaveContext, HaveQueue, HaveProgram, HaveKernel,
                            Late, Gone, Wrappers, Objects
  <2>6. InitSceneOK'
    BY <1>1, <2>1, <2>3 DEF IInv, InitSceneOK, Early, Arrays, Wrappers, Objects
  <2>7. Destroying' /\ OptionsOK'
    BY <1>1, <2>1 DEF IInv, Destroying, OptionsOK, Late, Gone
  <2>. QED
    BY <2>3, <2>4, <2>5, <2>6, <2>7 DEF IInv
<1>. QED
  BY <1>1, <1>2, GpuFailure

LEMMA CLqueueStep == IInv /\ CLqueue => IInv'
<1>. SUFFICES ASSUME IInv, CLqueue PROVE IInv'
  OBVIOUS
<1>1. /\ pc = "queue" /\ UNCHANGED <<guarded, scene, cli, built, grid, args, mlx>>
      /\ \/ Created("queue", "queue") /\ Go("program")
         \/ (Throw) /\ own' = own /\ refs' = refs
  BY DEF CLqueue
<1>2. CASE Created("queue", "queue") /\ Go("program")
  <2>1. /\ pc' = "program" /\ at' = Null /\ guarded' = guarded /\ scene' = scene
        /\ got' = got /\ tracer_type' = tracer_type /\ kernel_file' = kernel_file
        /\ built' = built /\ args' = args /\ win' = win
    BY <1>1, <1>2 DEF Go, Step, cli, mlx
  <2>2. "queue" \in Objects /\ "queue" \in Wrappers /\ own["queue"] = Null
    BY <1>1 DEF Objects, Wrappers, IInv, InitGpuOK, HaveContext, HaveQueue, HaveProgram, HaveKernel,
                Gone, Late
  <2>3. /\ own' \in [Wrappers -> Objects \cup {Null}] /\ refs' \in [Objects -> {0, 1}]
        /\ Home' /\ Counted'
        /\ \A v \in Wrappers : own'[v] = IF v = "queue" THEN "queue" ELSE own[v]
    BY <1>1, <1>2, <2>1, <2>2, CreatedFact
  <2>4. TypeOK'
    BY <1>1, <2>1, <2>2, <2>3 DEF IInv, TypeOK, Steps
  <2>5. InitGpuOK'
    BY <1>1, <2>1, <2>3 DEF IInv, InitGpuOK, HaveContext, HaveQueue, HaveProgram, HaveKernel,
                            Late, Gone, Wrappers, Objects
  <2>6. InitSceneOK'
    BY <1>1, <2>1, <2>3 DEF IInv, InitSceneOK, Early, Arrays, Wrappers, Objects
  <2>7. Destroying' /\ OptionsOK'
    BY <1>1, <2>1 DEF IInv, Destroying, OptionsOK, Late, Gone
  <2>. QED
    BY <2>3, <2>4, <2>5, <2>6, <2>7 DEF IInv
<1>. QED
  BY <1>1, <1>2, GpuFailure

LEMMA ReadKernelFileStep == IInv /\ ReadKernelFile => IInv'
<1>. SUFFICES ASSUME IInv, ReadKernelFile PROVE IInv'
  OBVIOUS
<1>1. /\ pc = "program" /\ own' = own /\ refs' = refs
      /\ UNCHANGED <<guarded, scene, cli, built, args, mlx>>
      /\ Go("source") \/ Exit
  BY DEF ReadKernelFile
<1>2. CASE Go("source")
  <2>1. /\ pc' = "source" /\ at' = Null /\ guarded' = guarded /\ scene' = scene
        /\ got' = got /\ tracer_type' = tracer_type /\ kernel_file' = kernel_file
        /\ built' = built /\ args' = args /\ win' = win
    BY <1>1, <1>2 DEF Go, Step, cli, mlx
  <2>2. TypeOK'
    BY <1>1, <2>1 DEF IInv, TypeOK, Steps
  <2>3. Home' /\ Counted'
    BY <1>1, QuietFact
  <2>4. InitGpuOK'
    BY <1>1, <2>1 DEF IInv, InitGpuOK, HaveContext, HaveQueue, HaveProgram, HaveKernel, Late, Gone
  <2>5. InitSceneOK' /\ Destroying' /\ OptionsOK'
    BY <1>1, <2>1 DEF IInv, InitSceneOK, Early, Destroying, OptionsOK, Late, Gone
  <2>. QED
    BY <2>2, <2>3, <2>4, <2>5 DEF IInv
<1>. QED
  BY <1>1, <1>2, GpuFailure

LEMMA CLprogramStep == IInv /\ CLprogram => IInv'
<1>. SUFFICES ASSUME IInv, CLprogram PROVE IInv'
  OBVIOUS
<1>1. /\ pc = "source" /\ UNCHANGED <<guarded, scene, cli, built, grid, args, mlx>>
      /\ \/ Created("temp", "program") /\ Step("assign", "program")
         \/ Throw /\ own' = own /\ refs' = refs
  BY DEF CLprogram
<1>2. CASE Created("temp", "program") /\ Step("assign", "program")
  <2>1. /\ pc' = "assign" /\ at' = "program" /\ guarded' = guarded /\ scene' = scene
        /\ got' = got /\ tracer_type' = tracer_type /\ kernel_file' = kernel_file
        /\ built' = built /\ args' = args /\ win' = win
    BY <1>1, <1>2 DEF Go, Step, cli, mlx
  <2>2. "program" \in Objects /\ "temp" \in Wrappers /\ own["program"] = Null
    BY <1>1 DEF Objects, Wrappers, IInv, InitGpuOK, HaveContext, HaveQueue, HaveProgram, HaveKernel,
                Gone, Late
  <2>3. /\ own' \in [Wrappers -> Objects \cup {Null}] /\ refs' \in [Objects -> {0, 1}]
        /\ Home' /\ Counted'
        /\ \A v \in Wrappers : own'[v] = IF v = "temp" THEN "program" ELSE own[v]
    BY <1>1, <1>2, <2>1, <2>2, CreatedFact
  <2>4. TypeOK'
    BY <1>1, <2>1, <2>2, <2>3 DEF IInv, TypeOK, Steps, Wrappers, Objects
  <2>5. InitGpuOK'
    BY <1>1, <2>1, <2>3 DEF IInv, InitGpuOK, HaveContext, HaveQueue, HaveProgram, HaveKernel,
                            Late, Gone, Wrappers, Objects
  <2>6. InitSceneOK'
    BY <1>1, <2>1, <2>3 DEF IInv, InitSceneOK, Early, Arrays, Wrappers, Objects
  <2>7. Destroying' /\ OptionsOK'
    BY <1>1, <2>1 DEF IInv, Destroying, OptionsOK, Late, Gone
  <2>. QED
    BY <2>3, <2>4, <2>5, <2>6, <2>7 DEF IInv
<1>. QED
  BY <1>1, <1>2, GpuFailure

LEMMA CLkernelStep == IInv /\ CLkernel => IInv'
<1>. SUFFICES ASSUME IInv, CLkernel PROVE IInv'
  OBVIOUS
<1>1. /\ pc = "kernel" /\ UNCHANGED <<guarded, scene, cli, built, args, mlx>>
      /\ \/ Created("kernel", "kernel") /\ Go("end init_gpu")
         \/ (Throw) /\ own' = own /\ refs' = refs
  BY DEF CLkernel
<1>2. CASE Created("kernel", "kernel") /\ Go("end init_gpu")
  <2>1. /\ pc' = "end init_gpu" /\ at' = Null /\ guarded' = guarded /\ scene' = scene
        /\ got' = got /\ tracer_type' = tracer_type /\ kernel_file' = kernel_file
        /\ built' = built /\ args' = args /\ win' = win
    BY <1>1, <1>2 DEF Go, Step, cli, mlx
  <2>2. "kernel" \in Objects /\ "kernel" \in Wrappers /\ own["kernel"] = Null
    BY <1>1 DEF Objects, Wrappers, IInv, InitGpuOK, HaveContext, HaveQueue, HaveProgram, HaveKernel,
                Gone, Late
  <2>3. /\ own' \in [Wrappers -> Objects \cup {Null}] /\ refs' \in [Objects -> {0, 1}]
        /\ Home' /\ Counted'
        /\ \A v \in Wrappers : own'[v] = IF v = "kernel" THEN "kernel" ELSE own[v]
    BY <1>1, <1>2, <2>1, <2>2, CreatedFact
  <2>4. TypeOK'
    BY <1>1, <2>1, <2>2, <2>3 DEF IInv, TypeOK, Steps
  <2>5. InitGpuOK'
    BY <1>1, <2>1, <2>3 DEF IInv, InitGpuOK, HaveContext, HaveQueue, HaveProgram, HaveKernel,
                            Late, Gone, Wrappers, Objects
  <2>6. InitSceneOK'
    BY <1>1, <2>1, <2>3 DEF IInv, InitSceneOK, Early, Arrays, Wrappers, Objects
  <2>7. Destroying' /\ OptionsOK'
    BY <1>1, <2>1 DEF IInv, Destroying, OptionsOK, Late, Gone
  <2>. QED
    BY <2>3, <2>4, <2>5, <2>6, <2>7 DEF IInv
<1>. QED
  BY <1>1, <1>2, GpuFailure

LEMMA CompileStep == IInv /\ Compile => IInv'
<1>. SUFFICES ASSUME IInv, Compile PROVE IInv'
  OBVIOUS
<1>1. /\ pc = "compile" /\ own' = own /\ refs' = refs
      /\ UNCHANGED <<guarded, scene, cli, grid, args, mlx>>
      /\ \/ built' = [file |-> kernel_file, flag |-> tracer_type] /\ Go("kernel")
         \/ Throw /\ built' = built
  BY DEF Compile, Flag
<1>2. CASE built' = [file |-> kernel_file, flag |-> tracer_type] /\ Go("kernel")
  <2>1. /\ pc' = "kernel" /\ at' = Null /\ guarded' = guarded /\ scene' = scene
        /\ got' = got /\ tracer_type' = tracer_type /\ kernel_file' = kernel_file
        /\ args' = args /\ win' = win
    BY <1>1, <1>2 DEF Go, Step, cli, mlx
  <2>2. TypeOK'
    BY <1>1, <2>1 DEF IInv, TypeOK, Steps
  <2>3. Home' /\ Counted'
    BY <1>1, QuietFact
  <2>4. InitGpuOK'
    BY <1>1, <2>1 DEF IInv, InitGpuOK, HaveContext, HaveQueue, HaveProgram, HaveKernel, Late, Gone
  <2>5. InitSceneOK' /\ Destroying'
    BY <1>1, <2>1 DEF IInv, InitSceneOK, Early, Destroying
  <2>6. OptionsOK'
    BY <1>1, <1>2, <2>1 DEF IInv, OptionsOK, Gone
  <2>. QED
    BY <2>2, <2>3, <2>4, <2>5, <2>6 DEF IInv
<1>. QED
  BY <1>1, <1>2, GpuFailure

\* A wrapper lets go of what it holds, and what it held is released.
LEMMA ReleasedFact ==
  ASSUME IInv, NEW w \in Wrappers, refs' = Released(w), own' = [own EXCEPT ![w] = Null],
         pc \notin {"assign", "terminated"}
  PROVE  /\ own' \in [Wrappers -> Objects \cup {Null}] /\ refs' \in [Objects -> {0, 1}]
         /\ Home' /\ Counted'
         /\ \A v \in Wrappers : own'[v] = IF v = w THEN Null ELSE own[v]
<1>1. /\ own \in [Wrappers -> Objects \cup {Null}] /\ refs \in [Objects -> {0, 1}]
      /\ own["temp"] = Null
  BY DEF IInv, TypeOK, Home
<1>2. \A v \in Wrappers : own'[v] = IF v = w THEN Null ELSE own[v]
  BY <1>1
<1>3. Objects \subseteq Wrappers /\ "temp" \in Wrappers /\ "temp" \notin Objects
  BY NullFact DEF Wrappers
<1>4. own[w] # Null => own[w] = w /\ w \in Objects /\ refs[w] = 1
  BY <1>1, <1>3, NullFact DEF IInv, Home, Counted, Wrappers
<1>5. \A o \in Objects : refs'[o] = IF own[w] # Null /\ o = w THEN 0 ELSE refs[o]
  BY <1>1, <1>4 DEF Released
<1>6. refs' \in [Objects -> {0, 1}]
  BY <1>1, <1>4 DEF Released
<1>7. Home'
  BY <1>1, <1>2, <1>3 DEF IInv, Home
<1>8. Counted'
  BY <1>1, <1>2, <1>3, <1>4, <1>5, NullFact DEF IInv, Counted
<1>. QED
  BY <1>1, <1>2, <1>6, <1>7, <1>8

LEMMA EndInitGpuStep == IInv /\ EndInitGpu => IInv'
<1>. SUFFICES ASSUME IInv, EndInitGpu PROVE IInv'
  OBVIOUS
<1>1. /\ pc = "end init_gpu"
      /\ \/ pc' = "make" /\ at' = "figures"
         \/ pc' = "destroy" /\ at' = "temp"
         \/ pc' = "terminated" /\ at' = Null
      /\ guarded' = guarded /\ scene' = scene
      /\ got' = got /\ tracer_type' = tracer_type /\ kernel_file' = kernel_file
      /\ built' = built /\ args' = args /\ win' = win
      /\ refs' = Released("program") /\ own' = [own EXCEPT !["program"] = Null]
  BY DEF EndInitGpu, Throw, Terminate, Go, Step, cli, mlx
<1>2. /\ own' \in [Wrappers -> Objects \cup {Null}] /\ refs' \in [Objects -> {0, 1}]
      /\ Home' /\ Counted'
      /\ \A v \in Wrappers : own'[v] = IF v = "program" THEN Null ELSE own[v]
  BY <1>1, ReleasedFact DEF Wrappers, Objects
<1>3. TypeOK'
  BY <1>1, <1>2 DEF IInv, TypeOK, Steps, Arrays, Wrappers, Objects
<1>4. InitGpuOK'
  BY <1>1, <1>2 DEF IInv, InitGpuOK, HaveContext, HaveQueue, HaveProgram, HaveKernel,
                    Late, Gone, Wrappers, Objects
<1>5. InitSceneOK'
  BY <1>1, <1>2 DEF IInv, InitSceneOK, Early, Arrays, Wrappers, Objects
<1>6. Destroying'
  <2>. win # "destroyed"
    BY <1>1 DEF IInv, TypeOK
  <2>. QED
    BY <1>1, UnwindFact
<1>7. OptionsOK'
  BY <1>1 DEF IInv, OptionsOK, Late, Gone
<1>. QED
  BY <1>2, <1>3, <1>4, <1>5, <1>6, <1>7 DEF IInv

LEMMA DestroyNextStep == IInv /\ DestroyNext => IInv'
<1>. SUFFICES ASSUME IInv, DestroyNext PROVE IInv'
  OBVIOUS
<1>1. /\ pc = "destroy" /\ pc' = "destroy" /\ at # Null /\ at' = After[at]
      /\ guarded' = guarded /\ scene' = scene
      /\ got' = got /\ tracer_type' = tracer_type /\ kernel_file' = kernel_file
      /\ built' = built /\ args' = args /\ win' = win
      /\ refs' = Released(at) /\ own' = [own EXCEPT ![at] = Null]
  BY DEF DestroyNext, cli, mlx
<1>2. at \in Wrappers
  BY <1>1 DEF IInv, TypeOK
<1>3. /\ own' \in [Wrappers -> Objects \cup {Null}] /\ refs' \in [Objects -> {0, 1}]
      /\ Home' /\ Counted'
      /\ \A v \in Wrappers : own'[v] = IF v = at THEN Null ELSE own[v]
  BY <1>1, <1>2, ReleasedFact
<1>4. /\ at' \in Wrappers \cup {Null}
      /\ at \notin {"temp", "program"} => at' \notin {"temp", "program"}
      /\ \A w \in Wrappers : Rank(w) < Rank(at') =>
           w = at \/ Rank(w) < Rank(at) \/ (at \in {"temp", "program"} /\ w \notin Arrays)
  BY <1>1, <1>2, AfterFact, RankFact, NullFact DEF Wrappers, Objects, Arrays
<1>5. TypeOK'
  BY <1>1, <1>3, <1>4 DEF IInv, TypeOK
<1>6. InitGpuOK' /\ InitSceneOK'
  BY <1>1 DEF InitGpuOK, InitSceneOK, Early, Gone
<1>7. Destroying'
  BY <1>1, <1>3, <1>4 DEF IInv, Destroying
<1>8. OptionsOK'
  BY <1>1 DEF IInv, OptionsOK, Late, Gone
<1>. QED
  BY <1>3, <1>5, <1>6, <1>7, <1>8 DEF IInv

LEMMA NthFact ==
  /\ Nth("figures") = 1 /\ Nth("dfs_buff") = 2 /\ Nth("cameras") = 3
  /\ Nth("lights") = 4 /\ Nth("canvas") = 5
  /\ \A a \in Arrays : Nth(a) \in Nat /\ Nth(a) >= 1
BY DEF Nth, Arrays

LEMMA AssignStep == IInv /\ Assign => IInv'
<1>. SUFFICES ASSUME IInv, Assign PROVE IInv'
  OBVIOUS
<1>1. /\ pc = "assign" /\ pc' = "drop" /\ at' = at /\ own' = Moved(at)
      /\ IF at = "program" THEN refs' = refs ELSE refs' = Released(at)
      /\ guarded' = guarded /\ scene' = scene
      /\ got' = got /\ tracer_type' = tracer_type /\ kernel_file' = kernel_file
      /\ built' = built /\ args' = args /\ win' = win
  BY DEF Assign, Step, cli, mlx
<1>2. /\ at \in Arrays \cup {"program"} /\ at \in Objects /\ at # "temp"
      /\ Objects \subseteq Wrappers /\ "temp" \in Wrappers /\ "temp" \notin Objects
  BY <1>1 DEF IInv, TypeOK, Objects, Arrays, Wrappers
<1>3. own[at] = Null
  <2>1. CASE at = "program"
    BY <1>1, <2>1 DEF IInv, InitGpuOK, HaveProgram, Gone
  <2>2. CASE at # "program"
    BY <1>1, <1>2, <2>2, NthFact DEF IInv, InitSceneOK
  <2>. QED
    BY <2>1, <2>2
<1>4. refs' = refs
  BY <1>1, <1>3 DEF Released
<1>5. /\ own' \in [Wrappers -> Objects \cup {Null}]
      /\ \A v \in Wrappers : own'[v] = IF v = "temp" THEN Null
                                       ELSE IF v = at THEN own["temp"] ELSE own[v]
      /\ own["temp"] \in {at, Null}
  BY <1>1, <1>2 DEF IInv, TypeOK, Moved, Home
<1>6. TypeOK'
  BY <1>1, <1>4, <1>5 DEF IInv, TypeOK, Steps
<1>7. Home'
  BY <1>2, <1>5 DEF IInv, Home
<1>8. Counted'
  BY <1>1, <1>2, <1>3, <1>4, <1>5, NullFact DEF IInv, Counted, Home
<1>9. InitGpuOK'
  <2>1. at = "program" => own'["program"] = "program"
    BY <1>1, <1>2, <1>5, NthFact DEF IInv, InitSceneOK
  <2>2. \A w \in {"context", "queue", "program", "kernel"} : w # at => own'[w] = own[w]
    BY <1>2, <1>5 DEF Objects
  <2>3. \A w \in {"context", "queue", "kernel"} : w # at
    BY <1>2 DEF Arrays
  <2>. QED
    BY <1>1, <2>1, <2>2, <2>3
       DEF IInv, InitGpuOK, HaveContext, HaveQueue, HaveProgram, HaveKernel, Late, Gone
<1>10. InitSceneOK'
  <2>1. \A a \in Arrays : a # at => own'[a] = own[a]
    BY <1>2, <1>5 DEF Objects
  <2>2. at # "figures" => own'[at] = at
    BY <1>1, <1>2, <1>5 DEF IInv, InitSceneOK
  <2>3. \A a \in Arrays : Nth(a) > Nth(at) => own'[a] = Null
    <3>1. CASE at = "program"
      BY <1>1, <2>1, <3>1, NthFact DEF IInv, InitSceneOK, Nth
    <3>2. CASE at \in Arrays
      BY <1>1, <2>1, <3>2, NthFact DEF IInv, InitSceneOK
    <3>. QED
      BY <1>2, <3>1, <3>2
  <2>. QED
    BY <1>1, <2>2, <2>3 DEF InitSceneOK, Early
<1>11. Destroying' /\ OptionsOK'
  BY <1>1 DEF IInv, Destroying, OptionsOK, Late, Gone
<1>. QED
  BY <1>6, <1>7, <1>8, <1>9, <1>10, <1>11 DEF IInv

LEMMA DropTempStep == IInv /\ DropTemp => IInv'
<1>. SUFFICES ASSUME IInv, DropTemp PROVE IInv'
  OBVIOUS
<1>1. /\ pc = "drop" /\ refs' = Released("temp") /\ own' = [own EXCEPT !["temp"] = Null]
      /\ guarded' = guarded /\ scene' = scene
      /\ got' = got /\ tracer_type' = tracer_type /\ kernel_file' = kernel_file
      /\ built' = built /\ args' = args /\ win' = win
      /\ at \in Arrays \cup {"program"}
  BY DEF DropTemp, cli, mlx, IInv, TypeOK
<1>2. own["temp"] = Null
  BY <1>1 DEF IInv, Home
<1>3. own' = own /\ refs' = refs
  BY <1>1, <1>2 DEF Released, IInv, TypeOK
<1>4. \/ at = "program" /\ pc' = "compile" /\ at' = Null
      \/ at = "figures" /\ pc' = "make" /\ at' \in {"dfs_buff", "cameras"}
      \/ at = "dfs_buff" /\ pc' = "memset" /\ at' = Null
      \/ at = "cameras" /\ pc' = "make" /\ at' = "lights"
      \/ at = "lights" /\ pc' = "make" /\ at' = "canvas"
      \/ at = "canvas" /\ pc' = "init_kernel" /\ at' = Null
  BY <1>1 DEF DropTemp, Go, Step, NextArray, Arrays
<1>5. TypeOK'
  BY <1>1, <1>3, <1>4 DEF IInv, TypeOK, Steps, Arrays, Wrappers, Objects
<1>6. Home' /\ Counted'
  BY <1>1, <1>3, QuietFact
<1>7. InitGpuOK'
  BY <1>1, <1>3, <1>4
     DEF IInv, InitGpuOK, HaveContext, HaveQueue, HaveProgram, HaveKernel, Late, Gone
<1>8. InitSceneOK'
  <2>1. \A a \in Arrays : Nth(a) > Nth(at) => own'[a] = Null
    BY <1>1, <1>3 DEF IInv, InitSceneOK
  <2>2. at # "figures" => own'[at] = at
    BY <1>1, <1>3 DEF IInv, InitSceneOK
  <2>3. CASE at = "program"
    <3>1. \A a \in Arrays : own'[a] = Null
      BY <2>1, <2>3, NthFact DEF Nth
    <3>. QED
      BY <1>4, <2>3, <3>1 DEF InitSceneOK, Early
  <2>4. CASE at = "figures"
    <3>1. \A a \in Arrays : Nth(a) >= Nth(at') => Nth(a) > Nth(at)
      BY <1>4, <2>4, NthFact
    <3>. QED
      BY <1>4, <2>1, <2>4, <3>1 DEF InitSceneOK, Early
  <2>5. CASE at = "dfs_buff"
    BY <1>4, <2>1, <2>2, <2>5, NthFact DEF InitSceneOK, Early
  <2>6. CASE at \in {"cameras", "lights"}
    <3>1. \A a \in Arrays : Nth(a) >= Nth(at') => Nth(a) > Nth(at)
      BY <1>4, <2>6, NthFact
    <3>. QED
      BY <1>4, <2>1, <2>6, <3>1 DEF InitSceneOK, Early
  <2>7. CASE at = "canvas"
    BY <1>4, <2>2, <2>7 DEF InitSceneOK, Early
  <2>. QED
    BY <1>1, <2>3, <2>4, <2>5, <2>6, <2>7 DEF Arrays
<1>9. Destroying' /\ OptionsOK'
  BY <1>1, <1>4 DEF IInv, Destroying, OptionsOK, Late, Gone
<1>. QED
  BY <1>5, <1>6, <1>7, <1>8, <1>9 DEF IInv

\* An array's constructor: into the temporary, or not at all.
LEMMA CLarrayStep == IInv /\ CLarray => IInv'
<1>. SUFFICES ASSUME IInv, CLarray PROVE IInv'
  OBVIOUS
<1>1. /\ pc = "make" /\ at \in Arrays /\ at \in Objects /\ "temp" \in Wrappers
      /\ guarded' = guarded /\ scene' = scene
      /\ got' = got /\ tracer_type' = tracer_type /\ kernel_file' = kernel_file
      /\ built' = built /\ args' = args /\ win' = win
  BY DEF CLarray, cli, mlx, IInv, TypeOK, Objects, Wrappers
<1>2. own[at] = Null /\ own["temp"] = Null
  BY <1>1, NthFact DEF IInv, InitSceneOK, Home
<1>3. \/ at = "figures" /\ Step("assign", at) /\ own' = own /\ refs' = refs
      \/ Created("temp", at) /\ Step("assign", at)
      \/ Terminate /\ own' = own /\ (refs' = refs \/ refs' = [refs EXCEPT ![at] = 1])
  BY DEF CLarray
<1>4. ASSUME pc' = "assign", at' = at, Home', Counted',
             own' \in [Wrappers -> Objects \cup {Null}], refs' \in [Objects -> {0, 1}],
             \A v \in Objects : own'[v] = own[v],
             at # "figures" => own'["temp"] = at
      PROVE  IInv'
  <2>1. TypeOK'
    BY <1>1, <1>4 DEF IInv, TypeOK, Steps
  <2>2. InitGpuOK'
    BY <1>1, <1>4 DEF IInv, InitGpuOK, HaveContext, HaveQueue, HaveProgram, HaveKernel,
                      Late, Gone, Objects, Arrays
  <2>3. InitSceneOK'
    BY <1>1, <1>4 DEF IInv, InitSceneOK, Early, Objects
  <2>4. Destroying' /\ OptionsOK'
    BY <1>1, <1>4 DEF IInv, Destroying, OptionsOK, Late, Gone, Arrays
  <2>. QED
    BY <1>4, <2>1, <2>2, <2>3, <2>4 DEF IInv
<1>5. CASE at = "figures" /\ Step("assign", at) /\ own' = own /\ refs' = refs
  BY <1>1, <1>4, <1>5, QuietFact DEF Step, IInv, TypeOK
<1>6. CASE Created("temp", at) /\ Step("assign", at)
  <2>1. /\ own' \in [Wrappers -> Objects \cup {Null}] /\ refs' \in [Objects -> {0, 1}]
        /\ Home' /\ Counted'
        /\ \A v \in Wrappers : own'[v] = IF v = "temp" THEN at ELSE own[v]
    BY <1>1, <1>2, <1>6, CreatedFact DEF Step
  <2>. QED
    BY <1>1, <1>4, <1>6, <2>1, NullFact DEF Step, Wrappers
<1>7. CASE Terminate /\ own' = own /\ (refs' = refs \/ refs' = [refs EXCEPT ![at] = 1])
  <2>1. pc' = "terminated" /\ at' = Null
    BY <1>7 DEF Terminate, Go, Step
  <2>2. refs' \in [Objects -> {0, 1}] /\ \A o \in Objects : refs[o] = 1 => refs'[o] = 1
    BY <1>1, <1>7 DEF IInv, TypeOK
  <2>3. TypeOK'
    BY <1>1, <1>7, <2>1, <2>2 DEF IInv, TypeOK, Steps
  <2>4. Home' /\ Counted'
    BY <1>1, <1>2, <1>7, <2>1, <2>2 DEF IInv, Home, Counted
  <2>. QED
    BY <1>1, <2>1, <2>3, <2>4
       DEF IInv, InitGpuOK, InitSceneOK, Early, Destroying, OptionsOK, Late, Gone
<1>. QED
  BY <1>3, <1>5, <1>6, <1>7

\* From memset to the end of the event loop no wrapper changes.
LEMMA LateStep ==
  IInv /\ (MemsetUnions \/ init_kernel \/ Run \/ Dump \/ FillImage \/ Frame \/ KeyEscape
           \/ collapse)
    => IInv'
<1>. SUFFICES ASSUME IInv,
                     \/ MemsetUnions \/ init_kernel \/ Run \/ Dump \/ FillImage
                     \/ Frame \/ KeyEscape \/ collapse
              PROVE  IInv'
  OBVIOUS
<1>1. /\ pc \in {"memset", "init_kernel", "run", "dump", "fill", "event_loop"}
      /\ guarded' = guarded /\ scene' = scene
      /\ got' = got /\ tracer_type' = tracer_type /\ kernel_file' = kernel_file
      /\ own' = own /\ refs' = refs /\ built' = built
  BY DEF MemsetUnions, init_kernel, Run, Dump, FillImage, Frame, KeyEscape, collapse, cli
<1>2. \/ /\ win' = win /\ args' = args
         /\ \/ pc = "memset" /\ pc' = "make" /\ at' = "cameras"
            \/ /\ pc \in {"run", "dump", "fill", "event_loop"} /\ at' = Null
               /\ pc' \in {"dump", "fill", "event_loop"}
            \/ pc' = "terminated" /\ at' = Null
            \/ pc' = "destroy" /\ at' = "canvas"
      \/ pc = "init_kernel" /\ pc' = "run" /\ at' = Null /\ win' = win /\ args' = Arguments
      \/ pc' = "destroy" /\ at' = "kernel" /\ win' = "destroyed" /\ args' = args
  BY DEF MemsetUnions, init_kernel, Run, Dump, FillImage, Frame, KeyEscape, collapse,
         Terminate, Exit, Go, Step, mlx
<1>3. TypeOK'
  BY <1>1, <1>2 DEF IInv, TypeOK, Steps, Arrays, Wrappers, Objects
<1>4. Home' /\ Counted'
  BY <1>1, QuietFact
<1>5. InitGpuOK'
  BY <1>1, <1>2 DEF IInv, InitGpuOK, HaveContext, HaveQueue, HaveProgram, HaveKernel, Late, Gone
<1>6. InitSceneOK'
  <2>1. \A a \in Arrays : Nth(a) >= Nth("cameras") => Nth(a) > 2
    BY NthFact
  <2>. QED
    BY <1>1, <1>2, <2>1 DEF IInv, InitSceneOK, Early
<1>7. Destroying'
  <2>1. CASE pc' # "destroy"
    BY <2>1 DEF Destroying
  <2>2. CASE pc' = "destroy" /\ at' = "canvas"
    <3>1. win' # "destroyed"
      BY <1>1, <1>2, <2>2 DEF IInv, TypeOK
    <3>2. \A w \in Wrappers : Rank(w) < Rank("canvas") => w \notin Arrays
      BY RankFact
    <3>. QED
      BY <2>2, <3>1, <3>2 DEF Destroying
  <2>3. CASE pc' = "destroy" /\ at' = "kernel"
    <3>1. \A w \in Wrappers : Rank(w) < Rank("kernel") => w \in {"temp", "program"}
      BY RankFact, NullFact DEF Wrappers, Objects, Arrays
    <3>2. own["temp"] = Null /\ own["program"] = Null
      BY <1>1 DEF IInv, Home, InitGpuOK, HaveProgram, Gone
    <3>. QED
      BY <1>1, <2>3, <3>1, <3>2 DEF Destroying
  <2>. QED
    BY <1>2, <2>1, <2>2, <2>3
<1>8. OptionsOK'
  <2>1. Arguments' = Arguments
    BY <1>1 DEF Arguments
  <2>. QED
    BY <1>1, <1>2, <2>1 DEF IInv, OptionsOK, Late, Gone
<1>. QED
  BY <1>3, <1>4, <1>5, <1>6, <1>7, <1>8 DEF IInv

LEMMA NextIInv == IInv /\ [Next]_vars => IInv'
<1>1. ASSUME IInv, UNCHANGED vars PROVE IInv'
  <2>1. /\ guarded' = guarded /\ scene' = scene /\ pc' = pc /\ at' = at /\ got' = got
        /\ tracer_type' = tracer_type /\ kernel_file' = kernel_file /\ own' = own
        /\ refs' = refs /\ built' = built /\ args' = args /\ win' = win
    BY <1>1 DEF vars, cli, gpu, mlx
  <2>2. TypeOK' /\ Home' /\ Counted'
    BY <1>1, <2>1 DEF IInv, TypeOK, Home, Counted
  <2>3. InitGpuOK'
    BY <1>1, <2>1 DEF IInv, InitGpuOK, HaveContext, HaveQueue, HaveProgram, HaveKernel
  <2>4. InitSceneOK' /\ Destroying'
    BY <1>1, <2>1 DEF IInv, InitSceneOK, Destroying
  <2>5. OptionsOK'
    BY <1>1, <2>1 DEF IInv, OptionsOK, Arguments
  <2>. QED
    BY <2>2, <2>3, <2>4, <2>5 DEF IInv
<1>2. IInv /\ Ended => IInv'
  BY <1>1 DEF Ended
<1>. QED
  BY <1>1, <1>2, OptionStep, MlxStep, CLcontextStep, CLqueueStep, ReadKernelFileStep,
     CLprogramStep, CompileStep,
     CLkernelStep, EndInitGpuStep, AssignStep, DropTempStep, CLarrayStep, LateStep,
     DestroyNextStep
     DEF Next

LEMMA Invariant == Spec => []IInv
  BY InitIInv, NextIInv, PTL DEF Spec

\* The kernel's work sizes, from its constructor on.
GridOK == HaveKernel =>
            grid = [global |-> <<"width", "height">>, local |-> Null, offset |-> Null]

LEMMA GridInvariant == Spec => []GridOK
<1>1. Init => GridOK
  BY DEF Init, GridOK, HaveKernel, Late
<1>2. GridOK /\ [Next]_vars => GridOK'
  <2>. SUFFICES ASSUME GridOK, [Next]_vars PROVE GridOK'
    OBVIOUS
  <2>1. CASE UNCHANGED vars \/ Ended
    BY <2>1 DEF GridOK, HaveKernel, vars, gpu, Ended
  <2>2. ASSUME \/ SceneOption \/ TracerOption \/ OtherOption \/ EndOfOptions \/ parse_scene
               \/ MLXcore \/ MLXwindow \/ MLXimage \/ FindPlatform \/ FindDevice
               \/ ReleaseDevices \/ CLcontext \/ CLqueue \/ ReadKernelFile \/ CLprogram
               \/ Compile \/ DestroyNext
        PROVE  pc' \notin Late \cup {"end init_gpu"} /\ (pc' \in {"assign", "drop"} => at' = "program")
    BY <2>2 DEF SceneOption, TracerOption, OtherOption, EndOfOptions, parse_scene, MLXcore,
                MLXwindow, MLXimage, FindPlatform, FindDevice, ReleaseDevices, CLcontext,
                CLqueue, ReadKernelFile, CLprogram, Compile, DestroyNext,
                Throw, Exit, Terminate, Go, Step, Late
  <2>3. CASE CLkernel
    <3>1. CASE grid' = WorkSizes(<<"width", "height">>, <<>>, <<>>)
      <4>1. <<"width", "height">> # <<>>
        OBVIOUS
      <4>2. grid' = [global |-> <<"width", "height">>, local |-> Null, offset |-> Null]
        BY <3>1 DEF WorkSizes, set_global_work_size, set_local_work_size,
                    set_global_work_offset, Parameters
      <4>. QED
        BY <4>2 DEF GridOK
    <3>2. CASE Throw
      BY <3>2 DEF Throw, Terminate, Go, Step, GridOK, HaveKernel, Late
    <3>. QED
      BY <2>3, <3>1, <3>2 DEF CLkernel
  <2>4. ASSUME \/ EndInitGpu \/ Assign \/ DropTemp \/ CLarray \/ MemsetUnions \/ init_kernel
               \/ Run \/ Dump \/ FillImage \/ Frame \/ KeyEscape \/ collapse
        PROVE  /\ grid' = grid
               /\ \/ pc \in Late \cup {"end init_gpu"}
                  \/ pc \in {"assign", "drop"} /\ at # "program"
                  \/ pc' \in {"assign", "drop"} /\ at' = "program"
                  \/ pc' = "compile"
    BY <2>4 DEF EndInitGpu, Assign, DropTemp, CLarray, MemsetUnions, init_kernel, Run, Dump,
                FillImage, Frame, KeyEscape, collapse, Go, Step, Late
  <2>. QED
    BY <2>1, <2>2, <2>3, <2>4 DEF Next, GridOK, HaveKernel, Late
<1>. QED
  BY <1>1, <1>2, PTL DEF Spec

(* Every wrapper and every object is as the types say, at every step.       *)
THEOREM TypeCorrect == Spec => []TypeOK
  BY Invariant, PTL DEF IInv

(* No handle is in two wrappers and no object is released twice or, but for *)
(* a constructor that ends the process, lost: CLarray, CLprogram, CLcontext.*)
THEOREM NothingReleasedTwice == Spec => []OneOwner
<1>1. IInv => OneOwner
  <2>. SUFFICES ASSUME IInv PROVE OneOwner
    OBVIOUS
  <2>1. ASSUME NEW w \in Wrappers, NEW v \in Wrappers, own[w] = own[v], own[w] # Null
        PROVE  w = v
    BY <2>1, NullFact DEF IInv, Home, Wrappers
  <2>2. ASSUME NEW o \in Objects
        PROVE  /\ refs[o] = 1 \/ (refs[o] = 0 /\ \A w \in Wrappers : own[w] # o)
               /\ refs[o] = 1 => pc = "terminated" \/ \E w \in Wrappers : own[w] = o
    <3>1. refs[o] \in {0, 1}
      BY <2>2 DEF IInv, TypeOK
    <3>2. \A w \in Wrappers : own[w] = o => own[o] = o \/ own["temp"] = o
      BY <2>2, NullFact DEF IInv, Home, Wrappers
    <3>3. o \in Wrappers /\ "temp" \in Wrappers
      BY <2>2 DEF Wrappers
    <3>. QED
      BY <2>2, <3>1, <3>2, <3>3 DEF IInv, Counted
  <2>. QED
    BY <2>1, <2>2 DEF OneOwner
<1>. QED
  BY <1>1, Invariant, PTL

(* Whatever the options and their order, the file that was compiled, its    *)
(* flag and the arguments of init_kernel agree with the kernel's signature, *)
(* and the kernel's work sizes are those init_gpu gave it.                  *)
THEOREM KernelGetsItsArguments == Spec => []ArgumentsMatchKernel
<1>1. IInv /\ GridOK => ArgumentsMatchKernel
  <2>. SUFFICES ASSUME IInv, GridOK, pc \in {"run", "dump", "fill", "event_loop"}
                PROVE  /\ args = Signature(built.flag)
                       /\ grid = [global |-> <<"width", "height">>,
                                  local |-> Null, offset |-> Null]
                       /\ built.file = IF built.flag = "RAY_TRACER_TYPE" THEN "tracer.cl"
                                       ELSE "marcher.cl"
    BY DEF ArgumentsMatchKernel
  <2>1. /\ built = [file |-> kernel_file, flag |-> tracer_type] /\ args = Arguments
        /\ kernel_file = IF tracer_type = "RAY_TRACER_TYPE" THEN "tracer.cl" ELSE "marcher.cl"
    BY DEF IInv, OptionsOK, Late, Gone
  <2>2. tracer_type \in {"RAY_TRACER_TYPE", "RAY_MARCHER_TYPE"}
    BY DEF IInv, TypeOK
  <2>3. args = Signature(tracer_type)
    BY <2>1, <2>2 DEF Arguments, Signature
  <2>4. HaveKernel
    BY DEF HaveKernel, Late
  <2>. QED
    BY <2>1, <2>3, <2>4 DEF GridOK
<1>. QED
  BY <1>1, Invariant, GridInvariant, PTL

(* At exit the arrays of global.cpp are freed; after collapse everything is.*)
THEOREM ExitFrees == Spec => []FreedAtExit
<1>1. IInv => FreedAtExit
  <2>. SUFFICES ASSUME IInv, pc = "destroy", at = Null
                PROVE  /\ \A o \in Arrays : ~Live(o)
                       /\ win = "destroyed" => \A o \in Objects : ~Live(o)
    BY DEF FreedAtExit
  <2>1. \A w \in Wrappers : Rank(w) < 9
    BY RankFact DEF Rank, Wrappers, Objects, Arrays
  <2>2. \A o \in Objects : own[o] = Null /\ own["temp"] = Null => refs[o] = 0
    BY NullFact DEF IInv, Counted, TypeOK
  <2>3. own["temp"] = Null /\ Objects \subseteq Wrappers /\ Arrays \subseteq Objects
    BY DEF IInv, Home, Wrappers, Objects
  <2>4. \A a \in Arrays : refs[a] = 0
    BY <2>1, <2>2, <2>3, RankFact DEF IInv, Destroying
  <2>5. win = "destroyed" => \A o \in Objects : refs[o] = 0
    BY <2>1, <2>2, <2>3, RankFact DEF IInv, Destroying
  <2>6. \A a \in Arrays : Users(a) = {a}
    BY DEF Users, Arrays
  <2>7. \A o \in Objects : Users(o) \subseteq Objects
    BY DEF Users, Objects, Arrays
  <2>. QED
    BY <2>4, <2>5, <2>6, <2>7 DEF Live
<1>. QED
  BY <1>1, Invariant, PTL

Alive == {o \in Objects : Live(o)}

\* What a wrapper holds is alive.
LEMMA HeldIsLive ==
  ASSUME IInv, NEW w \in Wrappers, own[w] # Null
  PROVE  own[w] \in Alive
<1>1. own[w] \in Objects /\ refs[own[w]] = 1
  BY NullFact DEF IInv, Home, Counted, TypeOK, Wrappers
<1>2. \A o \in Objects : o \in Users(o)
  BY DEF Users
<1>. QED
  BY <1>1, <1>2 DEF Live, Alive

\* Until init_gpu no call of OpenCL has named anything.
Before == {"argparse", "parse_scene", "init_mlx", "window", "image", "init_gpu", "device",
           "release devices"}
NothingUsedYet == pc \in Before => used = {}

LEMMA UsedInvariant == Spec => []NothingUsedYet
<1>1. Init => NothingUsedYet
  BY DEF Init, NothingUsedYet
<1>2. NothingUsedYet /\ [Next]_vars => NothingUsedYet'
  <2>. SUFFICES ASSUME NothingUsedYet, [Next]_vars PROVE NothingUsedYet'
    OBVIOUS
  <2>1. CASE UNCHANGED vars
    BY <2>1 DEF NothingUsedYet, vars, gpu
  <2>2. ASSUME \/ SceneOption \/ TracerOption \/ OtherOption \/ EndOfOptions \/ parse_scene
               \/ MLXcore \/ MLXwindow \/ MLXimage
               \/ FindPlatform \/ FindDevice \/ ReleaseDevices
        PROVE  pc \in Before /\ used' = used
    BY <2>2 DEF SceneOption, TracerOption, OtherOption, EndOfOptions, parse_scene,
                MLXcore, MLXwindow, MLXimage, FindPlatform, FindDevice, ReleaseDevices,
                gpu, Before
  <2>3. ASSUME \/ CLcontext \/ CLqueue \/ ReadKernelFile \/ CLprogram \/ Compile \/ CLkernel \/ EndInitGpu
               \/ Assign \/ DropTemp \/ CLarray
        PROVE  pc' \notin Before
    BY <2>3 DEF CLcontext, CLqueue, ReadKernelFile, CLprogram, Compile, CLkernel, EndInitGpu, Assign, DropTemp,
                CLarray, Throw, Exit, Terminate, Go, Step, Before
  <2>4. ASSUME \/ MemsetUnions \/ init_kernel \/ Run \/ Dump \/ FillImage
               \/ Frame \/ KeyEscape \/ collapse \/ DestroyNext
        PROVE  pc' \notin Before
    BY <2>4 DEF MemsetUnions, init_kernel, Run, Dump, FillImage, Frame, KeyEscape, collapse, DestroyNext,
                Exit, Terminate, Go, Step, Before
  <2>. QED
    BY <2>1, <2>2, <2>3, <2>4 DEF Next, Ended, NothingUsedYet
<1>. QED
  BY <1>1, <1>2, PTL DEF Spec

(* No call of OpenCL, and no release, names an object that is gone or was   *)
(* never made, however the steps of init_gpu, init_scene and collapse fall. *)
THEOREM HandlesAreLive == Spec => NothingDeadIsUsed
<1>1. ASSUME IInv, NothingUsedYet, Next, vars' # vars
      PROVE  used' \subseteq Alive
  <2>1. /\ \A w \in Wrappers : own[w] # Null => own[w] \in Alive
        /\ \A w \in Wrappers : Held(w) \subseteq Alive
    BY <1>1, HeldIsLive DEF Held
  <2>2. /\ Objects \subseteq Wrappers /\ "temp" \in Wrappers /\ Arrays \subseteq Objects
        /\ "context" \in Objects /\ "queue" \in Objects /\ "program" \in Objects
        /\ "kernel" \in Objects /\ "dfs_buff" \in Objects /\ "canvas" \in Objects
    BY DEF Wrappers, Objects, Arrays
  <2>3. /\ pc \in {"queue", "source"} \cup Late => own["context"] \in Alive
        /\ pc \in {"compile", "kernel"} => own["program"] \in Alive
        /\ pc \in Late => own["queue"] \in Alive /\ own["kernel"] \in Alive
    <3>1. /\ pc \in {"queue", "source"} \cup Late => own["context"] # Null
          /\ pc \in {"compile", "kernel"} => own["program"] # Null
          /\ pc \in Late => own["queue"] # Null /\ own["kernel"] # Null
      BY <1>1, <2>2, NullFact
         DEF IInv, InitGpuOK, HaveContext, HaveQueue, HaveProgram, HaveKernel, Gone, Late
    <3>. QED
      BY <2>1, <2>2, <3>1
  <2>4. /\ pc = "memset" => own["dfs_buff"] \in Alive
        /\ pc \in {"dump", "run", "event_loop"} => own["canvas"] \in Alive
    BY <1>1, <2>1, <2>2, NullFact DEF IInv, InitSceneOK
  <2>5. CASE CLcontext \/ ReadKernelFile \/ FillImage \/ KeyEscape \/ collapse
    BY <2>5 DEF CLcontext, ReadKernelFile, FillImage, KeyEscape, collapse
  <2>6. CASE CLqueue \/ CLprogram
    BY <2>3, <2>6 DEF CLqueue, CLprogram
  <2>7. CASE Compile \/ CLkernel
    BY <2>3, <2>7 DEF Compile, CLkernel
  <2>8. CASE CLarray \/ init_kernel
    BY <2>3, <2>8 DEF CLarray, init_kernel, Late
  <2>9. CASE MemsetUnions \/ Dump
    BY <2>3, <2>4, <2>9 DEF MemsetUnions, Dump, Late
  <2>10. CASE Run \/ Frame
    <3>1. \A a \in Arrays : own[a] # Null => own[a] \in Alive
      BY <2>1, <2>2
    <3>2. used' = Rendering /\ pc \in Late
      BY <2>10 DEF Run, Frame, Late
    <3>. QED
      BY <2>3, <3>1, <3>2 DEF Rendering
  <2>11. CASE Assign \/ DropTemp \/ DestroyNext \/ EndInitGpu
    <3>1. \E w \in Wrappers : used' = {} \/ used' = Held(w)
      BY <1>1, <2>2, <2>11
         DEF Assign, DropTemp, DestroyNext, EndInitGpu, IInv, TypeOK
    <3>. QED
      BY <2>1, <3>1
  <2>12. CASE \/ SceneOption \/ TracerOption \/ OtherOption \/ EndOfOptions \/ parse_scene
              \/ MLXcore \/ MLXwindow \/ MLXimage
              \/ FindPlatform \/ FindDevice \/ ReleaseDevices
    <3>1. used' = used /\ pc \in Before
      BY <2>12 DEF SceneOption, TracerOption, OtherOption, EndOfOptions, parse_scene,
                   MLXcore, MLXwindow, MLXimage, FindPlatform, FindDevice, ReleaseDevices,
                   gpu, Before
    <3>. QED
      BY <1>1, <3>1 DEF NothingUsedYet
  <2>. QED
    BY <1>1, <2>5, <2>6, <2>7, <2>8, <2>9, <2>10, <2>11, <2>12 DEF Next, Ended
<1>2. IInv /\ NothingUsedYet /\ [Next]_vars
        => [used' \subseteq {o \in Objects : Live(o)}]_vars
  BY <1>1 DEF Alive
<1>. QED
  BY <1>2, Invariant, UsedInvariant, PTL DEF Spec, NothingDeadIsUsed
=============================================================================

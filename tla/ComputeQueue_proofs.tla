------------------------- MODULE ComputeQueue_proofs -------------------------
(***************************************************************************)
(* Proofs about a frame call by call, for every number of pixels, figures  *)
(* and poses.                                                              *)
(***************************************************************************)
EXTENDS ComputeQueue, SequenceTheorems, FiniteSetTheorems, WellFoundedInduction,
        TLAPS

(* The GPU's copies are the host's values. *)
Synced == dev = Rendering(camera, figures)

(* The canvas is the frame of the present camera and figures. *)
Rendered == \A p \in Pixels : canvas[p] = Rendering(camera, figures)

KernelAtHead == AtHead("kernel")

(* What is left in the queue when the host thread is at each of its calls, *)
(* and what the commands already executed have left behind.                *)
Drained ==
  pc \in {"start", "event loop", "exit"} => queue = <<>> /\ Synced

Refilling ==
  pc = "refill" =>
    /\ dev.camera = camera
    /\ queue = <<"write figures">> \/ (queue = <<>> /\ Synced)

Filling ==
  pc = "fill" =>
    /\ dev.figures = figures
    /\ queue = <<"write cameras">> \/ (queue = <<>> /\ Synced)

Running ==
  pc \in {"first run", "run"} =>
    /\ Synced
    /\ queue = <<"kernel">> \/ (queue = <<>> /\ Rendered)

Dumping ==
  pc = "dump" =>
    /\ Synced
    /\ \/ queue = <<"kernel", "read">>
       \/ queue = <<"read">> /\ Rendered
       \/ queue = <<>> /\ Rendered /\ img = canvas

(* A kernel under way has rendered the pixels it has not still to do. *)
UnderWay ==
  /\ KernelAtHead =>
       \A p \in Pixels : p \notin todo => canvas[p] = Rendering(camera, figures)
  /\ ~KernelAtHead => todo = Pixels

(* A picture is all of one frame; before the first one no hook has run. *)
OnScreen ==
  /\ shown # Blank => \E c \in Colour : shown = [p \in Pixels |-> c]
  /\ shown = Blank => pc \in {"start", "first run", "dump"}

QueueInv ==
  /\ TypeOK
  /\ Drained
  /\ Refilling
  /\ Filling
  /\ Running
  /\ Dumping
  /\ UnderWay
  /\ OnScreen

-----------------------------------------------------------------------------
(* The few queues that occur. *)
LEMMA OneCommand ==
  ASSUME NEW c \in Command
  PROVE  /\ Append(<<>>, c) = <<c>>
         /\ <<c>> # <<>> /\ Head(<<c>>) = c /\ Tail(<<c>>) = <<>>
         /\ <<c>> \in Seq(Command)
<1>1. Append(<<>>, c) = <<c>> /\ <<c>> # <<>>
  OBVIOUS
<1>2. Head(<<c>>) = c /\ Tail(<<c>>) = <<>>
  OBVIOUS
<1>3. <<c>> \in Seq(Command)
  OBVIOUS
<1>4. QED
  BY <1>1, <1>2, <1>3

LEMMA TwoCommands ==
  ASSUME NEW c \in Command, NEW d \in Command
  PROVE  /\ <<c, d>> # <<>> /\ Head(<<c, d>>) = c /\ Tail(<<c, d>>) = <<d>>
         /\ <<c, d>> \in Seq(Command)
<1>1. Head(<<c, d>>) = c /\ <<c, d>> # <<>> /\ <<c, d>> \in Seq(Command)
  <2>1. Head(<<c, d>>) = c
    OBVIOUS
  <2>2. <<c, d>> # <<>>
    <3>1. Len(<<c, d>>) = 2 /\ Len(<<>>) = 0
      OBVIOUS
    <3>2. QED
      BY <3>1
  <2>3. <<c, d>> \in Seq(Command)
    OBVIOUS
  <2>4. QED
    BY <2>1, <2>2, <2>3
<1>2. Tail(<<c, d>>) = <<d>>
  <2> DEFINE s == <<c, d>>
             t == Tail(s)
  <2>1. s \in Seq({c, d}) /\ Len(s) = 2 /\ s[2] = d
    OBVIOUS
  <2>2. t \in Seq({c, d}) /\ Len(t) = 1 /\ t[1] = d
    <3> HIDE DEF s
    <3>1. QED
      BY <2>1
  <2>3. t = <<d>>
    <3> HIDE DEF t
    <3>1. QED
      BY <2>2
  <2>4. QED
    BY <2>3
<1>3. QED
  BY <1>1, <1>2

LEMMA SecondCommand ==
  ASSUME NEW S, NEW c \in S, NEW d \in S,
         NEW s \in Seq(S), Len(s) = 1, s[1] = c
  PROVE  Append(s, d) = <<c, d>>
<1> DEFINE t == Append(s, d)
<1>1. /\ t \in Seq(S)
      /\ Len(t) = Len(s) + 1
      /\ \A i \in 1 .. Len(s) : t[i] = s[i]
      /\ t[Len(s) + 1] = d
  BY AppendProperties, Zenon
<1> HIDE DEF t
<1>2. Len(t) = 2 /\ t[2] = d
  BY <1>1
<1>3. t[1] = c
  <2>1. 1 \in 1 .. Len(s)
    OBVIOUS
  <2>2. QED
    BY <1>1, <2>1
<1>4. t = <<c, d>>
  BY <1>1, <1>2, <1>3
<1>5. QED
  BY <1>4, Zenon DEF t

LEMMA ReadBehindKernel ==
  ASSUME NEW s, s = <<"kernel">>
  PROVE  Append(s, "read") = <<"kernel", "read">>
<1>1. "kernel" \in Command /\ "read" \in Command
  BY DEF Command
<1>2. s \in Seq(Command) /\ Len(s) = 1 /\ s[1] = "kernel"
  BY <1>1
<1>3. QED
  BY <1>1, <1>2, SecondCommand, Zenon

(* One fact per queue, with the sequences spelled out. *)
LEMMA QueueFacts ==
  /\ Append(<<>>, "write figures") = <<"write figures">>
  /\ Append(<<>>, "write cameras") = <<"write cameras">>
  /\ Append(<<>>, "kernel") = <<"kernel">>
  /\ Append(<<>>, "read") = <<"read">>
  /\ <<"write figures">> # <<>> /\ <<"write cameras">> # <<>>
  /\ <<"kernel">> # <<>> /\ <<"read">> # <<>> /\ <<"kernel", "read">> # <<>>
  /\ Head(<<"write figures">>) = "write figures"
  /\ Head(<<"write cameras">>) = "write cameras"
  /\ Head(<<"kernel">>) = "kernel"
  /\ Head(<<"read">>) = "read"
  /\ Head(<<"kernel", "read">>) = "kernel"
  /\ Tail(<<"write figures">>) = <<>>
  /\ Tail(<<"write cameras">>) = <<>>
  /\ Tail(<<"kernel">>) = <<>>
  /\ Tail(<<"read">>) = <<>>
  /\ Tail(<<"kernel", "read">>) = <<"read">>
  /\ {<<>>, <<"write figures">>, <<"write cameras">>, <<"kernel">>, <<"read">>,
      <<"kernel", "read">>} \subseteq Seq(Command)
<1>1. "write figures" \in Command /\ "write cameras" \in Command
      /\ "kernel" \in Command /\ "read" \in Command
  BY DEF Command
<1>2. <<>> \in Seq(Command)
  OBVIOUS
<1>3. QED
  BY <1>1, <1>2, OneCommand, TwoCommands, Zenon

LEMMA ColourFacts ==
  ASSUME NEW c \in Camera, NEW f \in [Objects -> Geometry]
  PROVE  /\ Rendering(c, f) \in Colour
         /\ Rendering(c, f).camera = c
         /\ Rendering(c, f).figures = f
BY DEF Rendering, Colour

LEMMA ColourDetermined ==
  ASSUME NEW d \in Colour, NEW c, NEW f, d.camera = c, d.figures = f
  PROVE  d = Rendering(c, f)
BY DEF Rendering, Colour

-----------------------------------------------------------------------------
LEMMA QueueInit == Init => QueueInv
<1> SUFFICES ASSUME Init PROVE QueueInv
  OBVIOUS
<1>1. dev \in Colour
  BY ColourFacts DEF Init
<1>2. TypeOK
  BY <1>1, QueueFacts DEF Init, TypeOK
<1>3. ~KernelAtHead
  BY DEF Init, KernelAtHead, AtHead
<1>4. QED
  BY <1>2, <1>3 DEF Init, QueueInv, Drained, Refilling, Filling, Running,
                   Dumping, UnderWay, OnScreen, Synced

-----------------------------------------------------------------------------
(* The calls of the host thread.  Each one finds the queue the clause of    *)
(* QueueInv for its place describes, adds at most one command, and leaves   *)
(* the clause of the place it goes to.                                      *)
LEMMA FirstRunStep == QueueInv /\ first_run => QueueInv'
<1> SUFFICES ASSUME QueueInv, first_run PROVE QueueInv'
  OBVIOUS
<1> USE DEF QueueInv, first_run, hostVars, gpuVars
<1>1. queue = <<>> /\ Synced
  BY DEF Drained
<1>2. queue' = <<"kernel">> /\ AtHead("kernel")'
  BY <1>1, QueueFacts DEF Enqueue, AtHead
<1>3. TypeOK'
  BY <1>2, QueueFacts DEF TypeOK
<1>4. todo' = Pixels
  BY <1>1 DEF UnderWay, KernelAtHead, AtHead
<1>5. UnderWay'
  BY <1>2, <1>4 DEF UnderWay, KernelAtHead
<1>6. QED
  BY <1>1, <1>2, <1>3, <1>5 DEF Drained, Refilling, Filling, Running, Dumping,
                               OnScreen, Synced

LEMMA FirstDumpStep == QueueInv /\ first_dump => QueueInv'
<1> SUFFICES ASSUME QueueInv, first_dump PROVE QueueInv'
  OBVIOUS
<1> USE DEF QueueInv, first_dump, hostVars, gpuVars
<1>1. queue = <<>> /\ Synced /\ Rendered
  BY QueueFacts DEF Running, Complete
<1>2. queue' = <<"read">> /\ ~AtHead("kernel")'
  BY <1>1, QueueFacts DEF Enqueue, AtHead
<1>3. TypeOK'
  BY <1>2, QueueFacts DEF TypeOK
<1>4. UnderWay'
  BY <1>1, <1>2 DEF UnderWay, KernelAtHead, AtHead
<1>5. QED
  BY <1>1, <1>2, <1>3, <1>4 DEF Drained, Refilling, Filling, Running, Dumping,
                               OnScreen, Synced, Rendered

LEMMA MouseHookStep ==
  ASSUME NEW o \in Objects, QueueInv, mouse_hook(o)
  PROVE  QueueInv'
<1> USE DEF QueueInv, mouse_hook, gpuVars
<1>1. queue = <<>> /\ Synced
  BY DEF Drained
<1>2. queue' = <<"write figures">> /\ ~AtHead("kernel")'
  BY <1>1, QueueFacts DEF Enqueue, AtHead
<1>3. figures' \in [Objects -> Geometry]
  BY DEF TypeOK
<1>4. TypeOK'
  BY <1>2, <1>3, QueueFacts DEF TypeOK
<1>5. UnderWay'
  BY <1>1, <1>2 DEF UnderWay, KernelAtHead, AtHead
<1>6. dev'.camera = camera'
  BY <1>1, ColourFacts DEF TypeOK, Synced
<1>7. QED
  BY <1>2, <1>4, <1>5, <1>6 DEF Drained, Refilling, Filling, Running, Dumping,
                               OnScreen

LEMMA RefilledStep == QueueInv /\ refilled => QueueInv'
<1> SUFFICES ASSUME QueueInv, refilled PROVE QueueInv'
  OBVIOUS
<1> USE DEF QueueInv, refilled, hostVars, gpuVars
<1>1. queue = <<>> /\ Synced
  BY QueueFacts DEF Refilling, RefillReturns, Complete
<1>2. TypeOK'
  BY DEF TypeOK
<1>3. UnderWay'
  BY DEF UnderWay, KernelAtHead, AtHead
<1>4. QED
  BY <1>1, <1>2, <1>3 DEF Drained, Refilling, Filling, Running, Dumping,
                         OnScreen, Synced

LEMMA FramehookStep == QueueInv /\ framehook => QueueInv'
<1> SUFFICES ASSUME QueueInv, framehook PROVE QueueInv'
  OBVIOUS
<1> USE DEF QueueInv, framehook, gpuVars
<1>1. queue = <<>> /\ Synced
  BY DEF Drained
<1>2. queue' = <<"write cameras">> /\ ~AtHead("kernel")'
  BY <1>1, QueueFacts DEF Enqueue, AtHead
<1>3. TypeOK'
  BY <1>2, QueueFacts DEF TypeOK
<1>4. UnderWay'
  BY <1>1, <1>2 DEF UnderWay, KernelAtHead, AtHead
<1>5. dev'.figures = figures'
  BY <1>1, ColourFacts DEF TypeOK, Synced
<1>6. QED
  BY <1>2, <1>3, <1>4, <1>5 DEF Drained, Refilling, Filling, Running, Dumping,
                               OnScreen

LEMMA RunStep == QueueInv /\ run => QueueInv'
<1> SUFFICES ASSUME QueueInv, run PROVE QueueInv'
  OBVIOUS
<1> USE DEF QueueInv, run, hostVars, gpuVars
<1>1. queue = <<>> /\ Synced
  BY QueueFacts DEF Filling, FillReturns, Complete
<1>2. queue' = <<"kernel">> /\ AtHead("kernel")'
  BY <1>1, QueueFacts DEF Enqueue, AtHead
<1>3. TypeOK'
  BY <1>2, QueueFacts DEF TypeOK
<1>4. todo' = Pixels
  BY <1>1 DEF UnderWay, KernelAtHead, AtHead
<1>5. UnderWay'
  BY <1>2, <1>4 DEF UnderWay, KernelAtHead
<1>6. QED
  BY <1>1, <1>2, <1>3, <1>5 DEF Drained, Refilling, Filling, Running, Dumping,
                               OnScreen, Synced

LEMMA DumpStep == QueueInv /\ dump => QueueInv'
<1> SUFFICES ASSUME QueueInv, dump PROVE QueueInv'
  OBVIOUS
<1> USE DEF QueueInv, dump, hostVars, gpuVars
<1>1. Synced /\ (queue = <<"kernel">> \/ (queue = <<>> /\ Rendered))
  BY DEF Running
<1>2. CASE queue = <<"kernel">>
  <2>1. queue' = <<"kernel", "read">>
    BY <1>2, ReadBehindKernel, Zenon DEF Enqueue
  <2>2. AtHead("kernel")' /\ AtHead("kernel")
    BY <1>2, <2>1, QueueFacts DEF AtHead
  <2>3. TypeOK'
    BY <2>1, QueueFacts DEF TypeOK
  <2>4. UnderWay'
    BY <2>2 DEF UnderWay, KernelAtHead
  <2>5. QED
    BY <1>1, <2>1, <2>3, <2>4 DEF Drained, Refilling, Filling, Running, Dumping,
                                 OnScreen, Synced
<1>3. CASE queue = <<>> /\ Rendered
  <2>1. queue' = <<"read">> /\ ~AtHead("kernel")' /\ ~AtHead("kernel")
    BY <1>3, QueueFacts DEF Enqueue, AtHead
  <2>2. TypeOK'
    BY <2>1, QueueFacts DEF TypeOK
  <2>3. UnderWay'
    BY <2>1 DEF UnderWay, KernelAtHead
  <2>4. QED
    BY <1>1, <1>3, <2>1, <2>2, <2>3 DEF Drained, Refilling, Filling, Running,
                                       Dumping, OnScreen, Synced, Rendered
<1>4. QED
  BY <1>1, <1>2, <1>3

(* When the read has returned, img is the whole frame. *)
LEMMA FrameRead ==
  ASSUME QueueInv, put_image
  PROVE  /\ queue = <<>> /\ Synced
         /\ img = [p \in Pixels |-> Rendering(camera, figures)]
         /\ Rendering(camera, figures) \in Colour
<1>1. queue = <<>> /\ Synced /\ Rendered /\ img = canvas
  BY QueueFacts DEF QueueInv, put_image, Dumping, DumpReturns, Complete
<1>2. img = [p \in Pixels |-> Rendering(camera, figures)]
  BY <1>1 DEF Rendered, QueueInv, TypeOK
<1>3. QED
  BY <1>1, <1>2, ColourFacts DEF QueueInv, TypeOK

LEMMA PutImageStep == QueueInv /\ put_image => QueueInv'
<1> SUFFICES ASSUME QueueInv, put_image PROVE QueueInv'
  OBVIOUS
<1>1. /\ queue = <<>> /\ Synced
      /\ img = [p \in Pixels |-> Rendering(camera, figures)]
      /\ Rendering(camera, figures) \in Colour
  BY FrameRead
<1> USE DEF QueueInv, put_image, hostVars, gpuVars
<1>2. TypeOK'
  BY DEF TypeOK
<1>3. UnderWay'
  BY DEF UnderWay, KernelAtHead, AtHead
<1>4. shown' # Blank /\ \E c \in Colour : shown' = [p \in Pixels |-> c]
  BY <1>1, PictureAssumption DEF TypeOK
<1>5. QED
  BY <1>1, <1>2, <1>3, <1>4 DEF Drained, Refilling, Filling, Running, Dumping,
                               OnScreen, Synced

LEMMA CollapseStep == QueueInv /\ collapse => QueueInv'
<1> SUFFICES ASSUME QueueInv, collapse PROVE QueueInv'
  OBVIOUS
<1> USE DEF QueueInv, collapse, hostVars, gpuVars
<1>1. TypeOK'
  BY DEF TypeOK
<1>2. UnderWay'
  BY DEF UnderWay, KernelAtHead, AtHead
<1>3. QED
  BY <1>1, <1>2 DEF Drained, Refilling, Filling, Running, Dumping, OnScreen,
                   Synced

-----------------------------------------------------------------------------
(* The GPU.  The command at the head of the queue tells where the host is.  *)
LEMMA HeadTellsPlace ==
  ASSUME QueueInv
  PROVE  /\ AtHead("write cameras") => pc = "fill" /\ queue = <<"write cameras">>
         /\ AtHead("write figures") => pc = "refill" /\ queue = <<"write figures">>
         /\ AtHead("read") => pc = "dump" /\ queue = <<"read">>
         /\ AtHead("kernel") =>
              /\ Synced
              /\ \/ pc \in {"first run", "run"} /\ queue = <<"kernel">>
                 \/ pc = "dump" /\ queue = <<"kernel", "read">>
<1>1. CASE pc \in {"start", "event loop", "exit"}
  BY <1>1 DEF QueueInv, Drained, AtHead
<1>2. CASE pc = "refill"
  BY <1>2, QueueFacts DEF QueueInv, Refilling, AtHead
<1>3. CASE pc = "fill"
  BY <1>3, QueueFacts DEF QueueInv, Filling, AtHead
<1>4. CASE pc \in {"first run", "run"}
  BY <1>4, QueueFacts DEF QueueInv, Running, AtHead
<1>5. CASE pc = "dump"
  BY <1>5, QueueFacts DEF QueueInv, Dumping, AtHead
<1>6. QED
  BY <1>1, <1>2, <1>3, <1>4, <1>5 DEF QueueInv, TypeOK

LEMMA WriteCamerasStep == QueueInv /\ write_cameras => QueueInv'
<1> SUFFICES ASSUME QueueInv, write_cameras PROVE QueueInv'
  OBVIOUS
<1> USE DEF QueueInv, write_cameras, hostVars
<1>1. pc = "fill" /\ queue = <<"write cameras">>
  BY HeadTellsPlace
<1>2. queue' = <<>> /\ ~AtHead("kernel")' /\ ~AtHead("kernel")
  BY <1>1, QueueFacts DEF AtHead
<1>3. dev' \in Colour /\ dev'.camera = camera /\ dev'.figures = figures
  BY <1>1 DEF TypeOK, Colour, Filling
<1>4. Synced'
  <2>1. camera \in Camera /\ figures \in [Objects -> Geometry]
    BY DEF TypeOK
  <2>2. dev' = Rendering(camera, figures)
    BY <1>3, <2>1, ColourDetermined
  <2>3. QED
    BY <2>2 DEF Synced
<1>5. TypeOK'
  BY <1>2, <1>3, QueueFacts DEF TypeOK
<1>6. UnderWay'
  BY <1>2 DEF UnderWay, KernelAtHead
<1>7. QED
  BY <1>1, <1>2, <1>3, <1>4, <1>5, <1>6 DEF Drained, Refilling, Filling,
                                           Running, Dumping, OnScreen

LEMMA WriteFiguresStep == QueueInv /\ write_figures => QueueInv'
<1> SUFFICES ASSUME QueueInv, write_figures PROVE QueueInv'
  OBVIOUS
<1> USE DEF QueueInv, write_figures, hostVars
<1>1. pc = "refill" /\ queue = <<"write figures">>
  BY HeadTellsPlace
<1>2. queue' = <<>> /\ ~AtHead("kernel")' /\ ~AtHead("kernel")
  BY <1>1, QueueFacts DEF AtHead
<1>3. dev' \in Colour /\ dev'.camera = camera /\ dev'.figures = figures
  BY <1>1 DEF TypeOK, Colour, Refilling
<1>4. Synced'
  <2>1. camera \in Camera /\ figures \in [Objects -> Geometry]
    BY DEF TypeOK
  <2>2. dev' = Rendering(camera, figures)
    BY <1>3, <2>1, ColourDetermined
  <2>3. QED
    BY <2>2 DEF Synced
<1>5. TypeOK'
  BY <1>2, <1>3, QueueFacts DEF TypeOK
<1>6. UnderWay'
  BY <1>2 DEF UnderWay, KernelAtHead
<1>7. QED
  BY <1>1, <1>2, <1>3, <1>4, <1>5, <1>6 DEF Drained, Refilling, Filling,
                                           Running, Dumping, OnScreen

LEMMA TracerKernelStep ==
  ASSUME NEW p \in Pixels, QueueInv, tracer_kernel(p)
  PROVE  QueueInv'
<1> USE DEF QueueInv, tracer_kernel, hostVars
<1>1. /\ Synced
      /\ \/ pc \in {"first run", "run"} /\ queue = <<"kernel">>
         \/ pc = "dump" /\ queue = <<"kernel", "read">>
  BY HeadTellsPlace
<1>2. AtHead("kernel") /\ AtHead("kernel")'
  BY DEF AtHead
<1>3. TypeOK'
  BY DEF TypeOK
<1>4. ASSUME NEW r \in Pixels, r \notin todo'
      PROVE  canvas'[r] = Rendering(camera, figures)
  <2>1. CASE r = p
    BY <1>1, <2>1 DEF TypeOK, Synced
  <2>2. CASE r # p
    BY <1>2, <1>4, <2>2 DEF TypeOK, UnderWay, KernelAtHead, Ended
  <2>3. QED
    BY <2>1, <2>2
<1>5. UnderWay'
  BY <1>2, <1>4 DEF UnderWay, KernelAtHead
<1>6. QED
  BY <1>1, <1>3, <1>5, QueueFacts DEF Drained, Refilling, Filling, Running,
                                     Dumping, OnScreen, Synced

LEMMA KernelCompleteStep == QueueInv /\ kernel_complete => QueueInv'
<1> SUFFICES ASSUME QueueInv, kernel_complete PROVE QueueInv'
  OBVIOUS
<1> USE DEF QueueInv, kernel_complete, hostVars
<1>1. /\ Synced
      /\ \/ pc \in {"first run", "run"} /\ queue = <<"kernel">>
         \/ pc = "dump" /\ queue = <<"kernel", "read">>
  BY HeadTellsPlace
<1>2. \/ pc \in {"first run", "run"} /\ queue' = <<>>
      \/ pc = "dump" /\ queue' = <<"read">>
  BY <1>1, QueueFacts
<1>3. ~AtHead("kernel")'
  BY <1>2, QueueFacts DEF AtHead
<1>4. Rendered
  BY DEF UnderWay, KernelAtHead, Rendered
<1>5. TypeOK'
  BY <1>2, QueueFacts DEF TypeOK
<1>6. UnderWay'
  BY <1>3 DEF UnderWay, KernelAtHead
<1>7. QED
  BY <1>1, <1>2, <1>4, <1>5, <1>6 DEF Drained, Refilling, Filling, Running,
                                     Dumping, OnScreen, Synced, Rendered

LEMMA ReadCanvasStep == QueueInv /\ read_canvas => QueueInv'
<1> SUFFICES ASSUME QueueInv, read_canvas PROVE QueueInv'
  OBVIOUS
<1> USE DEF QueueInv, read_canvas, hostVars
<1>1. pc = "dump" /\ queue = <<"read">>
  BY HeadTellsPlace
<1>2. Synced /\ Rendered
  BY <1>1, QueueFacts DEF Dumping
<1>3. queue' = <<>> /\ ~AtHead("kernel")' /\ ~AtHead("kernel")
  BY <1>1, QueueFacts DEF AtHead
<1>4. TypeOK'
  BY <1>3, QueueFacts DEF TypeOK
<1>5. UnderWay'
  BY <1>3 DEF UnderWay, KernelAtHead
<1>6. QED
  BY <1>1, <1>2, <1>3, <1>4, <1>5 DEF Drained, Refilling, Filling, Running,
                                     Dumping, OnScreen, Synced, Rendered

LEMMA StutterStep == QueueInv /\ UNCHANGED vars => QueueInv'
<1> SUFFICES ASSUME QueueInv, UNCHANGED vars PROVE QueueInv'
  OBVIOUS
<1> USE DEF vars
<1>1. TypeOK'
  BY DEF QueueInv, TypeOK
<1>2. UnderWay'
  BY DEF QueueInv, UnderWay, KernelAtHead, AtHead
<1>3. QED
  BY <1>1, <1>2 DEF QueueInv, Drained, Refilling, Filling, Running, Dumping,
                   OnScreen, Synced, Rendered

LEMMA QueueNext == QueueInv /\ [Next]_vars => QueueInv'
<1> SUFFICES ASSUME QueueInv, [Next]_vars PROVE QueueInv'
  OBVIOUS
<1>1. CASE Host
  BY <1>1, FirstRunStep, FirstDumpStep, RefilledStep, RunStep, DumpStep,
     PutImageStep DEF Host
<1>2. CASE User
  BY <1>2, MouseHookStep, FramehookStep, CollapseStep DEF User
<1>3. CASE Gpu
  BY <1>3, WriteCamerasStep, WriteFiguresStep, TracerKernelStep,
     KernelCompleteStep, ReadCanvasStep DEF Gpu
<1>4. CASE UNCHANGED vars
  BY <1>4, StutterStep
<1>5. QED
  BY <1>1, <1>2, <1>3, <1>4 DEF Next

LEMMA QueueInvariant == Spec => []QueueInv
<1>1. QED
  BY QueueInit, QueueNext, PTL DEF Spec

-----------------------------------------------------------------------------
(* The type invariant of the frame call by call. *)
THEOREM QueueTypes == Spec => []TypeOK
<1>1. QueueInv => TypeOK
  BY DEF QueueInv
<1>2. QED
  BY <1>1, QueueInvariant, PTL

(* Between two hooks the GPU is idle and has the host's camera and figures: *)
(* the blocking calls leave nothing behind when a hook returns.             *)
THEOREM GpuIdleBetweenHooks == Spec => []IdleBetweenHooks
<1>1. QueueInv => IdleBetweenHooks
  BY DEF QueueInv, Drained, IdleBetweenHooks, Synced
<1>2. QED
  BY <1>1, QueueInvariant, PTL

(* framehook never shows a picture with a pixel of another frame, however   *)
(* many pixels there are and in whatever order the kernel renders them.     *)
THEOREM PicturesAreWhole == Spec => PictureIsWhole
<1>1. QueueInv /\ [Next]_vars =>
        [ shown' # shown =>
            \A p \in Pixels : shown'[p] = Rendering(camera, figures) ]_vars
  <2> SUFFICES ASSUME QueueInv, [Next]_vars, shown' # shown
               PROVE  \A p \in Pixels : shown'[p] = Rendering(camera, figures)
    OBVIOUS
  <2>1. put_image
    BY DEF Next, Host, User, Gpu, vars, hostVars, gpuVars, first_run, first_dump,
           refilled, run, dump, mouse_hook, framehook, collapse, write_cameras,
           write_figures, tracer_kernel, kernel_complete, read_canvas
  <2>2. shown' = [p \in Pixels |-> Rendering(camera, figures)]
    BY <2>1, FrameRead DEF put_image
  <2>3. QED
    BY <2>2
<1>2. QED
  BY <1>1, QueueInvariant, PTL DEF Spec, PictureIsWhole

(* No hook changes the figures or the camera while a command that reads     *)
(* them by pointer is pending: both change in the event loop only, and      *)
(* there the queue is empty.                                                *)
THEOREM NothingChangesUnderCommand == Spec => NoChangeUnderCommand
<1> DEFINE Untouched ==
      /\ figures' # figures =>
           "write figures" \notin {queue[i] : i \in DOMAIN queue}
      /\ camera' # camera =>
           "write cameras" \notin {queue[i] : i \in DOMAIN queue}
<1>1. QueueInv /\ [Next]_vars => [Untouched]_vars
  <2> SUFFICES ASSUME QueueInv, [Next]_vars PROVE Untouched
    OBVIOUS
  <2>1. CASE pc = "event loop"
    <3>1. queue = <<>>
      BY <2>1 DEF QueueInv, Drained
    <3>2. QED
      BY <3>1
  <2>2. CASE pc # "event loop"
    BY <2>2 DEF Next, Host, User, Gpu, vars, hostVars, first_run, first_dump,
                refilled, run, dump, put_image, mouse_hook, framehook, collapse,
                write_cameras, write_figures, tracer_kernel, kernel_complete,
                read_canvas
  <2>3. QED
    BY <2>1, <2>2
<1>2. QED
  BY <1>1, QueueInvariant, PTL DEF Spec, NoChangeUnderCommand

-----------------------------------------------------------------------------
(* What the viewer shows: the one colour of a whole picture. *)
LEMMA PictureOfFrame ==
  ASSUME NEW c \in Colour, shown # Blank, shown = [p \in Pixels |-> c]
  PROVE  picture = c
<1> DEFINE q == CHOOSE p \in Pixels : TRUE
<1>1. q \in Pixels
  BY PictureAssumption
<1>2. \A p \in Pixels : shown[p] = c
  OBVIOUS
<1> HIDE DEF q
<1>3. shown[q] = c
  BY <1>1, <1>2
<1>4. QED
  BY <1>2, <1>3 DEF picture, q

LEMMA PictureWhileBlank ==
  ASSUME shown = Blank
  PROVE  picture = Rendering(camera, figures)
BY DEF picture

(* The picture changes with put_image only: before the first one no hook    *)
(* has moved the camera or a figure.                                        *)
LEMMA PictureKept ==
  ASSUME QueueInv, shown' = shown,
         pc = "event loop" \/ UNCHANGED hostVars
  PROVE  picture' = picture
<1>1. CASE shown = Blank
  <2>1. UNCHANGED hostVars
    BY <1>1 DEF QueueInv, OnScreen
  <2>2. QED
    BY <1>1, <2>1 DEF picture, hostVars
<1>2. CASE shown # Blank
  <2>1. PICK c \in Colour : shown = [p \in Pixels |-> c]
    BY <1>2 DEF QueueInv, OnScreen
  <2>2. picture = c
    BY <1>2, <2>1, PictureOfFrame
  <2>3. shown' # Blank /\ \A p \in Pixels : shown'[p] = c
    BY <1>2, <2>1
  <2>4. (CHOOSE p \in Pixels : TRUE) \in Pixels
    BY PictureAssumption
  <2>5. picture' = c
    BY <2>3, <2>4 DEF picture
  <2>6. QED
    BY <2>2, <2>5
<1>3. QED
  BY <1>1, <1>2

LEMMA PictureStep ==
  QueueInv /\ [Next]_vars => [V!Next]_(V!viewerVars)
<1> SUFFICES ASSUME QueueInv, [Next]_vars
             PROVE  V!Next \/ UNCHANGED V!viewerVars
  OBVIOUS
<1>1. CASE put_image
  <2>1. /\ shown' = [p \in Pixels |-> Rendering(camera, figures)]
        /\ Rendering(camera, figures) \in Colour
        /\ shown' # Blank
    BY <1>1, FrameRead, PictureAssumption DEF put_image, QueueInv, TypeOK
  <2>2. picture' = Rendering(camera, figures)
    <3>1. ASSUME NEW p \in Pixels
          PROVE  shown'[p] = Rendering(camera, figures)
      BY <2>1
    <3>2. (CHOOSE p \in Pixels : TRUE) \in Pixels
      BY PictureAssumption
    <3>3. QED
      BY <2>1, <3>1, <3>2 DEF picture
  <2>3. V!Refresh
    <3>1. picture'.camera \in Camera /\ picture'.figures = figures
      BY <2>2, ColourFacts DEF QueueInv, TypeOK
    <3>2. pc # "exit" /\ pc' # "exit" /\ figures' = figures
      BY <1>1 DEF put_image, hostVars
    <3>3. QED
      BY <3>1, <3>2 DEF V!Refresh, V!Rendering
  <2>4. QED
    BY <2>3 DEF V!Next
<1>2. CASE \E o \in Objects : mouse_hook(o)
  <2>1. PICK o \in Objects : mouse_hook(o)
    BY <1>2
  <2>2. picture' = picture
    BY <2>1, PictureKept DEF mouse_hook
  <2>3. V!Edit(o)
    BY <2>1, <2>2 DEF mouse_hook, V!Edit
  <2>4. QED
    BY <2>3 DEF V!Next
<1>3. CASE collapse
  <2>1. picture' = picture
    BY <1>3, PictureKept DEF collapse
  <2>2. V!Exit
    BY <1>3, <2>1 DEF collapse, hostVars, V!Exit
  <2>3. QED
    BY <2>2 DEF V!Next
<1>4. CASE framehook
  <2>1. picture' = picture
    BY <1>4, PictureKept DEF framehook
  <2>2. QED
    BY <1>4, <2>1 DEF framehook, V!viewerVars
<1>5. CASE \/ first_run \/ first_dump \/ refilled \/ run \/ dump \/ Gpu
           \/ UNCHANGED vars
  <2>1. shown' = shown /\ UNCHANGED hostVars /\ (pc' = "exit" <=> pc = "exit")
    BY <1>5 DEF vars, hostVars, first_run, first_dump, refilled, run, dump, Gpu,
                write_cameras, write_figures, tracer_kernel, kernel_complete,
                read_canvas
  <2>2. picture' = picture
    BY <2>1, PictureKept
  <2>3. QED
    BY <2>1, <2>2 DEF hostVars, V!viewerVars
<1>6. QED
  BY <1>1, <1>2, <1>3, <1>4, <1>5 DEF Next, Host, User

LEMMA PictureInit == Init => V!Init
<1> SUFFICES ASSUME Init PROVE V!Init
  OBVIOUS
<1>1. picture = Rendering(camera, figures)
  BY PictureWhileBlank DEF Init
<1>2. picture.camera = camera /\ picture.figures = figures
  BY <1>1, ColourFacts DEF Init
<1>3. QED
  BY <1>2 DEF Init, V!Init, V!Rendering

(* The frame on two processors implements the viewer's atomic one. *)
THEOREM FrameImplementsViewer == Spec => ImplementsViewer
<1>1. QED
  BY PictureInit, PictureStep, QueueInvariant, PTL
     DEF Spec, ImplementsViewer, V!Spec

-----------------------------------------------------------------------------
(* Every hook returns: the core of HooksReturn, without the fairness.       *)

(* The calls the hook has still to make, the commands the GPU has still to  *)
(* complete, and the pixels of the one in progress.                         *)
Calls(place) ==
  CASE place \in {"start", "fill"} -> 3
    [] place \in {"first run", "run"} -> 2
    [] place \in {"refill", "dump"} -> 1
    [] OTHER -> 0

Left(place, commands, pixels) ==
  [k \in 1 .. 3 |-> IF k = 1 THEN Calls(place)
                    ELSE IF k = 2 THEN Len(commands) ELSE Cardinality(pixels)]

Smaller == {e \in Nat \X Nat : e[1] < e[2]}
Shorter == LexProductOrdering(Smaller, Nat, 3)

InHook == pc \notin {"event loop", "exit"}

(* A step that takes from what is left.                                     *)
Proceeds == <<Left(pc', queue', todo'), Left(pc, queue, todo)>> \in Shorter

(* Either the host's call returns, or the GPU has a command it can execute. *)
HostAble ==
  \/ pc \in {"start", "run"}
  \/ pc \in {"first run", "refill", "fill", "dump"} /\ queue = <<>>
GpuAble ==
  \/ AtHead("write cameras") \/ AtHead("write figures") \/ AtHead("read")
  \/ AtHead("kernel") /\ (todo = {} \/ \E p \in Pixels : p \in todo)

LEMMA CallsFact == \A place : Calls(place) \in Nat
BY DEF Calls

LEMMA LeftFact ==
  ASSUME NEW place, NEW commands \in Seq(Command), NEW pixels \in SUBSET Pixels
  PROVE  /\ Left(place, commands, pixels) \in [1 .. 3 -> Nat]
         /\ Len(commands) \in Nat
         /\ IsFiniteSet(pixels) /\ Cardinality(pixels) \in Nat
<1>1. Len(commands) \in Nat
  OBVIOUS
<1>2. IsFiniteSet(pixels) /\ Cardinality(pixels) \in Nat
  BY PictureAssumption, FS_Subset, FS_CardinalityType
<1>3. QED
  BY <1>1, <1>2, CallsFact DEF Left

LEMMA LeftShorter ==
  ASSUME TypeOK, TypeOK',
         \/ Calls(pc') < Calls(pc)
         \/ Calls(pc') = Calls(pc) /\ Len(queue') < Len(queue)
         \/ Calls(pc') = Calls(pc) /\ Len(queue') = Len(queue)
            /\ Cardinality(todo') < Cardinality(todo)
  PROVE  Proceeds
<1> DEFINE s == Left(pc', queue', todo')
           r == Left(pc, queue, todo)
           Before(j) == (\A k \in 1 .. j - 1 : s[k] = r[k]) /\ s[j] < r[j]
<1>1. r \in [1 .. 3 -> Nat]
  BY LeftFact DEF TypeOK
<1>2. s \in [1 .. 3 -> Nat]
  BY LeftFact DEF TypeOK
<1>3. /\ s[1] = Calls(pc') /\ s[2] = Len(queue') /\ s[3] = Cardinality(todo')
      /\ r[1] = Calls(pc) /\ r[2] = Len(queue) /\ r[3] = Cardinality(todo)
  BY DEF Left
<1> HIDE DEF s, r
<1>4. \E j \in 1 .. 3 : Before(j)
  <2>1. CASE s[1] < r[1]
    <3>1. Before(1)
      BY <2>1
    <3>2. QED
      BY <3>1
  <2>2. CASE s[1] = r[1] /\ s[2] < r[2]
    <3>1. \A k \in 1 .. 2 - 1 : k = 1
      OBVIOUS
    <3>2. Before(2)
      BY <2>2, <3>1
    <3>3. QED
      BY <3>2
  <2>3. CASE s[1] = r[1] /\ s[2] = r[2] /\ s[3] < r[3]
    <3>1. \A k \in 1 .. 3 - 1 : k = 1 \/ k = 2
      OBVIOUS
    <3>2. Before(3)
      BY <2>3, <3>1
    <3>3. QED
      BY <3>2
  <2>4. QED
    BY <1>3, <2>1, <2>2, <2>3
<1>5. PICK j \in 1 .. 3 : Before(j)
  BY <1>4
<1>6. <<s[j], r[j]>> \in Smaller
  BY <1>1, <1>2, <1>5 DEF Smaller
<1>7. <<s, r>> \in Shorter
  BY <1>1, <1>2, <1>5, <1>6 DEF Shorter, LexProductOrdering
<1>8. QED
  BY <1>7 DEF s, r, Proceeds

LEMMA CommandDone ==
  ASSUME TypeOK, TypeOK', pc' = pc, queue # <<>>, queue' = Tail(queue)
  PROVE  Proceeds
<1>1. Len(queue') < Len(queue)
  <2>1. queue \in Seq(Command)
    BY DEF TypeOK
  <2>2. Len(Tail(queue)) = Len(queue) - 1 /\ Len(queue) \in Nat
    BY <2>1, HeadTailProperties
  <2>3. QED
    BY <2>2
<1>2. QED
  BY <1>1, LeftShorter

LEMMA PixelDone ==
  ASSUME TypeOK, TypeOK', NEW p \in Pixels, tracer_kernel(p)
  PROVE  Proceeds
<1>1. pc' = pc /\ queue' = queue /\ p \in todo /\ todo' = todo \ {p}
  BY DEF tracer_kernel, Ended
<1>2. Cardinality(todo') < Cardinality(todo)
  <2>1. IsFiniteSet(todo) /\ Cardinality(todo) \in Nat
    BY LeftFact DEF TypeOK
  <2>2. Cardinality(todo \ {p}) = Cardinality(todo) - 1
    BY <1>1, <2>1, FS_RemoveElement
  <2>3. QED
    BY <1>1, <2>1, <2>2
<1>3. QED
  BY <1>1, <1>2, LeftShorter

LEMMA CallDone ==
  ASSUME TypeOK, TypeOK', Host
  PROVE  Proceeds
<1>1. /\ Calls("start") = 3 /\ Calls("fill") = 3 /\ Calls("first run") = 2
      /\ Calls("run") = 2 /\ Calls("refill") = 1 /\ Calls("dump") = 1
      /\ Calls("event loop") = 0
  BY DEF Calls
<1>2. \/ pc \in {"start", "fill"} /\ pc' \in {"first run", "run"}
      \/ pc \in {"first run", "run"} /\ pc' = "dump"
      \/ pc \in {"refill", "dump"} /\ pc' = "event loop"
  BY DEF Host, first_run, first_dump, refilled, run, dump, put_image
<1>3. \/ Calls(pc) = 3 /\ Calls(pc') = 2
      \/ Calls(pc) = 2 /\ Calls(pc') = 1
      \/ Calls(pc) = 1 /\ Calls(pc') = 0
  BY <1>1, <1>2
<1>4. Calls(pc') < Calls(pc)
  BY <1>3
<1>5. QED
  BY <1>4, LeftShorter

LEMMA HookStep ==
  ASSUME TypeOK, TypeOK', Next, InHook
  PROVE  Proceeds
<1>1. CASE Host
  BY <1>1, CallDone
<1>2. CASE User
  BY <1>2 DEF User, mouse_hook, framehook, collapse, InHook
<1>3. CASE Gpu
  <2>1. CASE \E p \in Pixels : tracer_kernel(p)
    BY <2>1, PixelDone
  <2>2. CASE write_cameras \/ write_figures \/ kernel_complete \/ read_canvas
    <3>1. pc' = pc /\ queue # <<>> /\ queue' = Tail(queue)
      BY <2>2 DEF write_cameras, write_figures, kernel_complete, read_canvas, AtHead
    <3>2. QED
      BY <3>1, CommandDone
  <2>3. QED
    BY <1>3, <2>1, <2>2 DEF Gpu
<1>4. QED
  BY <1>1, <1>2, <1>3 DEF Next

LEMMA NoOneStuck ==
  ASSUME TypeOK, InHook
  PROVE  HostAble \/ GpuAble
<1>1. CASE queue = <<>>
  BY <1>1 DEF TypeOK, InHook, HostAble
<1>2. CASE queue # <<>>
  <2>1. Head(queue) \in Command
    BY <1>2, HeadTailProperties DEF TypeOK
  <2>2. todo = {} \/ \E p \in Pixels : p \in todo
    BY DEF TypeOK
  <2>3. QED
    BY <1>2, <2>1, <2>2 DEF Command, GpuAble, AtHead
<1>3. QED
  BY <1>1, <1>2

LEMMA OrderIsWellFounded == IsWellFoundedOn(Shorter, [1 .. 3 -> Nat])
<1>1. IsWellFoundedOn(Smaller, Nat)
  BY NatLessThanWellFounded DEF Smaller, OpToRel
<1>2. 3 \in Nat
  OBVIOUS
<1>3. QED
  BY <1>1, <1>2, WFLexProductOrdering DEF Shorter

(* No wait is for ever: as long as a hook is under way, the host's call     *)
(* returns or the GPU has something to do, and every step of either takes   *)
(* from what is left - calls, commands, pixels, in lexicographic order,     *)
(* which has no endless descent.  HooksReturn adds that both do their steps.*)
THEOREM EveryHookReturns ==
  /\ IsWellFoundedOn(Shorter, [1 .. 3 -> Nat])
  /\ Spec => [](/\ Left(pc, queue, todo) \in [1 .. 3 -> Nat]
                /\ InHook => HostAble \/ GpuAble)
  /\ Spec => [][InHook => Proceeds]_vars
<1>1. TypeOK => /\ Left(pc, queue, todo) \in [1 .. 3 -> Nat]
                /\ InHook => HostAble \/ GpuAble
  BY LeftFact, NoOneStuck DEF TypeOK
<1>2. TypeOK /\ TypeOK' /\ [Next]_vars =>
        [InHook => Proceeds]_vars
  BY HookStep
<1>3. QED
  BY <1>1, <1>2, QueueTypes, OrderIsWellFounded, PTL DEF Spec

=============================================================================

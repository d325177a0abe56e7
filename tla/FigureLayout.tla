---------------------------- MODULE FigureLayout ----------------------------
(***************************************************************************)
(* The byte array in which the figures travel to the GPU.  Three pieces of *)
(* code, in three files, have to agree on it without sharing a definition: *)
(*   - init_scene concatenates the seven host vectors and notes the offset *)
(*     of each (src/src/init_scene.cpp);                                   *)
(*   - refill_spheres ... refill_boxes overwrite the region of one vector  *)
(*     through CLarray::fill after every drag;                             *)
(*   - the kernel walks the array with a shift of its own, advancing by    *)
(*     the counts it was given as arguments (src/cl/tracing_base.cl).      *)
(* init_scene and the kernel are loops over the seven types, modelled one  *)
(* iteration per step.  A figure is a value; its bytes are the value and   *)
(* the place of the byte in it.  sizeof agrees between host and device.    *)
(***************************************************************************)
EXTENDS Integers, Sequences

CONSTANTS
  Count,      \* figures of each type: sp_vec.size() ... box_vec.size()
  ItemSize,   \* sizeof(sphere_t) ... sizeof(box_t)
  Value       \* what a figure can be

FigType == {"SPHERE", "PLANE", "TRIANGLE", "CONE", "CYLINDER", "TOR", "BOX"}

ASSUME LayoutAssumption ==
  /\ Count \in [FigType -> Nat]
  /\ ItemSize \in [FigType -> Nat \ {0}]

(* The order of the calls of add_figures_next in init_scene.               *)
(* Mutant: two calls are swapped.                                          *)
HostOrder_Swapped ==
  <<"SPHERE", "PLANE", "TRIANGLE", "CYLINDER", "CONE", "TOR", "BOX">>
HostOrder ==
  <<"SPHERE", "PLANE", "TRIANGLE", "CONE", "CYLINDER", "TOR", "BOX">>

(* The order of set_scene_fig_next in tracer_kernel, which is also that of *)
(* its count parameters.                                                   *)
KernelOrder ==
  <<"SPHERE", "PLANE", "TRIANGLE", "CONE", "CYLINDER", "TOR", "BOX">>

(* The order in which init_kernel passes the sizes of the vectors.  *)
SizeArgs ==
  <<"SPHERE", "PLANE", "TRIANGLE", "CONE", "CYLINDER", "TOR", "BOX">>

VARIABLES
  pc,      \* "add", "upload", "ready", "kernel", or "throw" for an exception
  next,    \* the next call of add_figures_next or set_scene_fig_next
  host,    \* rtx::objects::sp_vec ... box_vec
  offset,  \* sphere_offset ... box_offset, zero until noted
  size,    \* fig_vec.size(), then the buff_size of rtx::scene::figures
  bytes,   \* fig_vec, then the device buffer it was copied into
  shift,   \* the kernel's running shift
  field    \* scene.spheres ... scene.boxes in the kernel, as shifts

vars == <<pc, next, host, offset, size, bytes, shift, field>>

(* The host's figures: figure i of the vector of type t. *)
Figure == UNION {{t} \X (1 .. Count[t]) : t \in FigType}

Bytes(t) == Count[t] * ItemSize[t]

(* Byte b of the vector of type t among the figures figs. *)
HostByte(figs, t, b) ==
  <<figs[<<t, (b \div ItemSize[t]) + 1>>], b % ItemSize[t]>>

TypeOK ==
  /\ pc \in {"add", "upload", "ready", "kernel", "throw"}
  /\ next \in 1 .. 8
  /\ host \in [Figure -> Value]
  /\ offset \in [FigType -> Nat]
  /\ size \in Nat
  /\ DOMAIN bytes = 0 .. size - 1
  /\ shift \in Nat
  /\ field \in [FigType -> Nat]

Init ==
  /\ pc = "add"
  /\ next = 1
  /\ host \in [Figure -> Value]
  /\ offset = [t \in FigType |-> 0]
  /\ size = 0
  /\ bytes = [b \in 0 .. -1 |-> 0]
  /\ shift = 0
  /\ field = [t \in FigType |-> 0]

-----------------------------------------------------------------------------
(* Mutant: the offset is taken after the vector has grown.                 *)
NotedOffset_AfterResize(t) == size + Bytes(t)
NotedOffset(t) == size

(* add_figures_next: grow fig_vec, copy the host vector behind what is     *)
(* there, and note where it starts.                                        *)
add_figures_next ==
  /\ pc = "add"
  /\ LET t == HostOrder[next] IN
       /\ size' = size + Bytes(t)
       /\ bytes' = [b \in 0 .. size' - 1 |->
                      IF b < size THEN bytes[b] ELSE HostByte(host, t, b - size)]
       /\ offset' = [offset EXCEPT ![t] = NotedOffset(t)]
  /\ next' = next + 1
  /\ pc' = IF next = 7 THEN "upload" ELSE pc
  /\ UNCHANGED <<host, shift, field>>

(* CLarray(fig_vec, context, queue): the buffer holds a copy of fig_vec.   *)
(* Without a figure there is no buffer, a null one of size zero.           *)
CreateBuffer ==
  /\ pc = "upload"
  /\ pc' = "ready"
  /\ UNCHANGED <<next, host, offset, size, bytes, shift, field>>

(* Mutant: CLarray::fill writes from the start of the buffer. *)
FillStart_Zero(t) == 0
FillStart(t) == offset[t]

(* A drag changes a figure of type t; refill_* writes the whole host       *)
(* vector to its region, unless CLarray::fill finds that it does not fit.  *)
DragAndRefill(t) ==
  /\ pc = "ready"
  /\ \E i \in 1 .. Count[t], v \in Value : host' = [host EXCEPT ![<<t, i>>] = v]
  /\ IF Bytes(t) + FillStart(t) > size
     THEN /\ pc' = "throw"
          /\ UNCHANGED bytes
     ELSE /\ bytes' = [b \in 0 .. size - 1 |->
                         IF b - FillStart(t) \in 0 .. Bytes(t) - 1
                         THEN HostByte(host', t, b - FillStart(t)) ELSE bytes[b]]
          /\ UNCHANGED pc
  /\ UNCHANGED <<next, offset, size, shift, field>>

(* A work-item of tracer_kernel starts. *)
KernelStart ==
  /\ pc = "ready"
  /\ pc' = "kernel"
  /\ next' = 1
  /\ shift' = 0
  /\ UNCHANGED <<host, offset, size, bytes, field>>

(* set_scene_fig_next: the field points at the shift, which moves on by    *)
(* the count argument of that position.                                    *)
set_scene_fig_next ==
  /\ pc = "kernel"
  /\ next <= 7
  /\ LET t == KernelOrder[next] IN
       /\ field' = [field EXCEPT ![t] = shift]
       /\ shift' = shift + Count[SizeArgs[next]] * ItemSize[t]
  /\ next' = next + 1
  /\ UNCHANGED <<pc, host, offset, size, bytes>>

KernelEnd ==
  /\ pc = "kernel"
  /\ next = 8
  /\ pc' = "ready"
  /\ UNCHANGED <<next, host, offset, size, bytes, shift, field>>

Next ==
  \/ add_figures_next
  \/ CreateBuffer
  \/ \E t \in FigType : DragAndRefill(t)
  \/ KernelStart
  \/ set_scene_fig_next
  \/ KernelEnd

Spec == Init /\ [][Next]_vars

-----------------------------------------------------------------------------
(* Every byte the kernel reads through a field it has set is the byte of   *)
(* the host's figure of that type and index, whatever was dragged before:  *)
(* the kernel's shifts, the offsets of init_scene and the regions the      *)
(* refills write agree, also when some types have no figures.              *)
KernelReadsHost ==
  pc = "kernel" =>
    \A i \in 1 .. next - 1 :
      LET t == KernelOrder[i] IN
      \A b \in 0 .. Bytes(t) - 1 :
        /\ field[t] + b < size
        /\ bytes[field[t] + b] = HostByte(host, t, b)

(* The bounds check of CLarray::fill never rejects a refill: no drag ends  *)
(* the program with an exception, which nothing in the event loop catches. *)
RefillFits == pc # "throw"

=============================================================================

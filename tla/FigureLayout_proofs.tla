------------------------- MODULE FigureLayout_proofs -------------------------
(***************************************************************************)
(* Proofs about the layout of the figures, for every number of figures of  *)
(* every type and every size of a figure.                                  *)
(***************************************************************************)
EXTENDS FigureLayout, TLAPS

-----------------------------------------------------------------------------
(* Facts about the orders and about bytes. *)

LEMMA OrderFacts ==
  /\ \A i \in 1 .. 7 : HostOrder[i] \in FigType
  /\ \A i, j \in 1 .. 7 : HostOrder[i] = HostOrder[j] => i = j
  /\ \A t \in FigType : \E i \in 1 .. 7 : HostOrder[i] = t
  /\ KernelOrder = HostOrder
  /\ SizeArgs = HostOrder
<1>1. \A i \in 1 .. 7 : i \in {1, 2, 3, 4, 5, 6, 7}
  OBVIOUS
<1>2. \A i \in 1 .. 7 : HostOrder[i] \in FigType
  BY <1>1 DEF HostOrder, FigType
<1>3. \A i, j \in 1 .. 7 : HostOrder[i] = HostOrder[j] => i = j
  BY <1>1 DEF HostOrder
<1>4. \A t \in FigType : \E i \in 1 .. 7 : HostOrder[i] = t
  <2>1. /\ HostOrder[1] = "SPHERE" /\ HostOrder[2] = "PLANE"
        /\ HostOrder[3] = "TRIANGLE" /\ HostOrder[4] = "CONE"
        /\ HostOrder[5] = "CYLINDER" /\ HostOrder[6] = "TOR"
        /\ HostOrder[7] = "BOX"
    BY DEF HostOrder
  <2>2. 1 \in 1 .. 7 /\ 2 \in 1 .. 7 /\ 3 \in 1 .. 7 /\ 4 \in 1 .. 7
        /\ 5 \in 1 .. 7 /\ 6 \in 1 .. 7 /\ 7 \in 1 .. 7
    OBVIOUS
  <2>3. QED
    BY <2>1, <2>2, Zenon DEF FigType
<1>5. QED
  BY <1>2, <1>3, <1>4 DEF HostOrder, KernelOrder, SizeArgs

LEMMA ProductFacts ==
  ASSUME NEW c \in Nat, NEW s \in Nat \ {0}
  PROVE  /\ c * s \in Nat
         /\ \A b \in 0 .. c * s - 1 : (b \div s) + 1 \in 1 .. c
<1>1. c * s \in Nat
  OBVIOUS
<1>2. ASSUME NEW b \in 0 .. c * s - 1 PROVE (b \div s) + 1 \in 1 .. c
  <2> DEFINE q == b \div s
  <2>1. q \in Nat /\ s * q <= b
    BY <1>2
  <2>2. ASSUME q >= c PROVE FALSE
    <3>1. s * (q - c) >= 0
      BY <2>1, <2>2
    <3>2. s * (q - c) = s * q - s * c
      BY <2>1
    <3>3. QED
      BY <1>2, <2>1, <3>1, <3>2
  <2>3. QED
    BY <2>1, <2>2
<1>3. QED
  BY <1>1, <1>2

LEMMA BytesFacts ==
  ASSUME NEW t \in FigType
  PROVE  /\ Count[t] \in Nat
         /\ Bytes(t) \in Nat
         /\ \A b \in 0 .. Bytes(t) - 1 : <<t, (b \div ItemSize[t]) + 1>> \in Figure
<1>1. Count[t] \in Nat /\ ItemSize[t] \in Nat \ {0}
  BY LayoutAssumption
<1>2. /\ Bytes(t) \in Nat
      /\ \A b \in 0 .. Bytes(t) - 1 : (b \div ItemSize[t]) + 1 \in 1 .. Count[t]
  BY <1>1, ProductFacts DEF Bytes
<1>3. QED
  BY <1>1, <1>2 DEF Figure

-----------------------------------------------------------------------------
(* The inductive invariant.  The types placed so far lie one behind the    *)
(* other, the last ends at size, and each region holds its host vector;    *)
(* the kernel's shift is where the next type lies.                         *)

placed == IF pc = "add" THEN next - 1 ELSE 7

(* Where the i-th vector starts, and how many bytes it has. *)
Start == [i \in 1 .. 7 |-> offset[HostOrder[i]]]
Length == [i \in 1 .. 7 |-> Bytes(HostOrder[i])]

Chained ==
  /\ placed = 0 => size = 0
  /\ placed > 0 => Start[1] = 0 /\ size = Start[placed] + Length[placed]
  /\ \A i \in 1 .. placed - 1 : Start[i + 1] = Start[i] + Length[i]

Apart ==
  /\ \A i \in 1 .. placed : Start[i] + Length[i] <= size
  /\ \A i, j \in 1 .. placed : i < j => Start[i] + Length[i] <= Start[j]

Filled ==
  \A i \in 1 .. placed : \A b \in 0 .. Length[i] - 1 :
    bytes[Start[i] + b] = HostByte(host, HostOrder[i], b)

InKernel ==
  pc = "kernel" =>
    /\ next = 1 => shift = 0
    /\ next \in 2 .. 7 => shift = Start[next]
    /\ \A i \in 1 .. next - 1 : field[HostOrder[i]] = Start[i]

LayoutInv ==
  /\ TypeOK
  /\ pc = "add" => next <= 7
  /\ pc # "throw"
  /\ Chained
  /\ Apart
  /\ Filled
  /\ InKernel

(* What a step needs to know of the types already placed. *)
LEMMA PlacedFacts ==
  ASSUME LayoutInv
  PROVE  /\ placed \in 0 .. 7
         /\ size \in Nat
         /\ Start \in [1 .. 7 -> Nat]
         /\ Length \in [1 .. 7 -> Nat]
<1>1. placed \in 0 .. 7 /\ size \in Nat /\ offset \in [FigType -> Nat]
  BY DEF LayoutInv, TypeOK, placed
<1>2. ASSUME NEW i \in 1 .. 7
      PROVE  offset[HostOrder[i]] \in Nat /\ Bytes(HostOrder[i]) \in Nat
  <2>1. HostOrder[i] \in FigType
    BY OrderFacts
  <2>2. QED
    BY <1>1, <2>1, BytesFacts
<1>3. QED
  BY <1>1, <1>2 DEF Start, Length

-----------------------------------------------------------------------------
LEMMA LayoutInit == Init => LayoutInv
<1> SUFFICES ASSUME Init PROVE LayoutInv
  OBVIOUS
<1>1. TypeOK
  BY DEF Init, TypeOK
<1>2. placed = 0
  BY DEF Init, placed
<1>3. QED
  BY <1>1, <1>2 DEF Init, LayoutInv, Chained, Apart, Filled, InKernel

LEMMA AddKeepsLayout ==
  ASSUME LayoutInv, add_figures_next
  PROVE  LayoutInv'
<1> DEFINE n == next
           t == HostOrder[n]
<1>0. /\ n \in 1 .. 7 /\ placed = n - 1 /\ placed' = n
      /\ t \in FigType
      /\ size \in Nat
      /\ Start \in [1 .. 7 -> Nat] /\ Length \in [1 .. 7 -> Nat]
  <2>1. n \in 1 .. 7
    BY DEF LayoutInv, TypeOK, add_figures_next
  <2>2. placed = n - 1 /\ placed' = n
    BY <2>1 DEF add_figures_next, placed
  <2>3. QED
    BY <2>1, <2>2, OrderFacts, PlacedFacts
<1>1. /\ size' = size + Length[n]
      /\ Start' = [Start EXCEPT ![n] = size]
      /\ UNCHANGED host
  <2>1. /\ offset' = [offset EXCEPT ![t] = size] /\ size' = size + Bytes(t)
        /\ offset \in [FigType -> Nat]
    BY DEF add_figures_next, NotedOffset, LayoutInv, TypeOK
  <2>2. ASSUME NEW i \in 1 .. 7 PROVE Start'[i] = IF i = n THEN size ELSE Start[i]
    <3>1. HostOrder[i] \in FigType /\ (HostOrder[i] = t <=> i = n)
      BY <1>0, OrderFacts
    <3>2. QED
      BY <2>1, <3>1 DEF Start
  <2>3. Length[n] = Bytes(t)
    BY <1>0 DEF Length
  <2>4. QED
    BY <1>0, <2>1, <2>2, <2>3 DEF add_figures_next, Start
<1>2. bytes' = [b \in 0 .. size' - 1 |->
                  IF b < size THEN bytes[b] ELSE HostByte(host, t, b - size)]
  BY DEF add_figures_next
<1>a. next' = n + 1 /\ pc' = (IF n = 7 THEN "upload" ELSE "add")
  BY DEF add_figures_next
<1>3. TypeOK'
  <2>1. offset' \in [FigType -> Nat]
    BY <1>0 DEF add_figures_next, NotedOffset, LayoutInv, TypeOK
  <2>2. size' \in Nat
    BY <1>0, <1>1
  <2>3. DOMAIN bytes' = 0 .. size' - 1
    BY <1>2
  <2>4. /\ pc' \in {"add", "upload", "ready", "kernel", "throw"}
        /\ next' \in 1 .. 8
    BY <1>0, <1>a
  <2>5. UNCHANGED <<host, shift, field>> /\ TypeOK
    BY DEF add_figures_next, LayoutInv
  <2>6. QED
    BY <2>1, <2>2, <2>3, <2>4, <2>5 DEF TypeOK
<1>4. Chained'
  <2>0. /\ placed = 0 => size = 0
        /\ placed > 0 => Start[1] = 0 /\ size = Start[placed] + Length[placed]
        /\ \A i \in 1 .. placed - 1 : Start[i + 1] = Start[i] + Length[i]
    BY DEF LayoutInv, Chained
  <2>1. Start'[1] = 0 /\ size' = Start'[n] + Length[n]
    BY <1>0, <1>1, <2>0
  <2>2. ASSUME NEW i \in 1 .. n - 1 PROVE Start'[i + 1] = Start'[i] + Length[i]
    <3>1. CASE i + 1 = n
      BY <1>0, <1>1, <2>0, <3>1
    <3>2. CASE i + 1 < n
      BY <1>0, <1>1, <2>0, <2>2, <3>2
    <3>3. QED
      BY <1>0, <2>2, <3>1, <3>2
  <2>3. QED
    BY <1>0, <2>1, <2>2 DEF Chained
<1>5. Apart'
  <2>0. /\ \A i \in 1 .. placed : Start[i] + Length[i] <= size
        /\ \A i, j \in 1 .. placed : i < j => Start[i] + Length[i] <= Start[j]
    BY DEF LayoutInv, Apart
  <2>1. ASSUME NEW i \in 1 .. n PROVE Start'[i] + Length[i] <= size'
    BY <1>0, <1>1, <2>0
  <2>2. ASSUME NEW i \in 1 .. n, NEW j \in 1 .. n, i < j
        PROVE  Start'[i] + Length[i] <= Start'[j]
    BY <1>0, <1>1, <2>0, <2>2
  <2>3. QED
    BY <1>0, <2>1, <2>2 DEF Apart
<1>6. Filled'
  <2>1. ASSUME NEW i \in 1 .. n, NEW b \in 0 .. Length[i] - 1
        PROVE  bytes'[Start'[i] + b] = HostByte(host, HostOrder[i], b)
    <3>1. CASE i = n
      <4>1. Start'[n] + b \in 0 .. size' - 1 /\ ~(size + b < size) /\ (size + b) - size = b
        BY <1>0, <1>1, <2>1, <3>1
      <4>2. QED
        BY <1>0, <1>1, <1>2, <3>1, <4>1
    <3>2. CASE i < n
      <4>1. Start[i] + Length[i] <= size
        BY <1>0, <3>2 DEF LayoutInv, Apart
      <4>2. Start'[i] = Start[i] /\ Start[i] + b \in 0 .. size' - 1 /\ Start[i] + b < size
        BY <1>0, <1>1, <3>2, <4>1
      <4>3. bytes[Start[i] + b] = HostByte(host, HostOrder[i], b)
        BY <1>0, <3>2 DEF LayoutInv, Filled
      <4>4. QED
        BY <1>2, <4>2, <4>3
    <3>3. QED
      BY <1>0, <2>1, <3>1, <3>2
  <2>2. QED
    BY <1>0, <1>1, <2>1 DEF Filled
<1>7. /\ pc' = "add" => next' <= 7
      /\ pc' # "throw" /\ pc' # "kernel"
  BY <1>0, <1>a
<1>8. QED
  BY <1>3, <1>4, <1>5, <1>6, <1>7 DEF LayoutInv, InKernel

(* Steps that leave the array, the offsets and the figures alone keep what *)
(* the invariant says of them.                                             *)
LEMMA RegionsKept ==
  ASSUME LayoutInv, placed' = placed, UNCHANGED <<host, offset, size, bytes>>
  PROVE  Chained' /\ Apart' /\ Filled' /\ Start' = Start
<1>1. Start' = Start
  BY DEF Start
<1>2. Chained'
  BY <1>1 DEF LayoutInv, Chained
<1>3. Apart'
  BY <1>1 DEF LayoutInv, Apart
<1>4. Filled'
  BY <1>1 DEF LayoutInv, Filled
<1>5. QED
  BY <1>1, <1>2, <1>3, <1>4

LEMMA CreateKeepsLayout ==
  ASSUME LayoutInv, CreateBuffer
  PROVE  LayoutInv'
<1>1. placed' = placed
  BY DEF CreateBuffer, placed
<1>2. Chained' /\ Apart' /\ Filled'
  BY <1>1, RegionsKept DEF CreateBuffer
<1>3. TypeOK'
  BY DEF CreateBuffer, LayoutInv, TypeOK
<1>4. QED
  BY <1>2, <1>3 DEF CreateBuffer, LayoutInv, InKernel

LEMMA KernelStartKeepsLayout ==
  ASSUME LayoutInv, KernelStart
  PROVE  LayoutInv'
<1>1. placed' = placed
  BY DEF KernelStart, placed
<1>2. Chained' /\ Apart' /\ Filled'
  BY <1>1, RegionsKept DEF KernelStart
<1>3. TypeOK'
  BY DEF KernelStart, LayoutInv, TypeOK
<1>4. pc' = "kernel" /\ next' = 1 /\ shift' = 0
  BY DEF KernelStart
<1>5. InKernel'
  BY <1>4 DEF InKernel
<1>6. QED
  BY <1>2, <1>3, <1>4, <1>5 DEF LayoutInv

LEMMA KernelEndKeepsLayout ==
  ASSUME LayoutInv, KernelEnd
  PROVE  LayoutInv'
<1>1. placed' = placed
  BY DEF KernelEnd, placed
<1>2. Chained' /\ Apart' /\ Filled'
  BY <1>1, RegionsKept DEF KernelEnd
<1>3. TypeOK'
  BY DEF KernelEnd, LayoutInv, TypeOK
<1>4. QED
  BY <1>2, <1>3 DEF KernelEnd, LayoutInv, InKernel

(* The kernel's shift and the host's offsets advance by the same bytes, so *)
(* the shift is where the next vector starts.                              *)
LEMMA SetSceneKeepsLayout ==
  ASSUME LayoutInv, set_scene_fig_next
  PROVE  LayoutInv'
<1> DEFINE n == next
           t == HostOrder[n]
<1>0. /\ n \in 1 .. 7
      /\ t \in FigType
      /\ placed = 7 /\ placed' = placed
      /\ Start \in [1 .. 7 -> Nat] /\ Length \in [1 .. 7 -> Nat]
      /\ pc = "kernel" /\ shift \in Nat /\ field \in [FigType -> Nat]
  <2>1. n \in 1 .. 7 /\ pc = "kernel" /\ shift \in Nat /\ field \in [FigType -> Nat]
    BY DEF LayoutInv, TypeOK, set_scene_fig_next
  <2>2. placed = 7 /\ placed' = placed
    BY <2>1 DEF set_scene_fig_next, placed
  <2>3. QED
    BY <2>1, <2>2, OrderFacts, PlacedFacts
<1>1. Chained' /\ Apart' /\ Filled' /\ Start' = Start
  BY <1>0, RegionsKept DEF set_scene_fig_next
<1>2. /\ field' = [field EXCEPT ![t] = shift]
      /\ shift' = shift + Length[n]
      /\ next' = n + 1
      /\ pc' = pc
  <2>1. KernelOrder[n] = t /\ SizeArgs[n] = t
    BY OrderFacts
  <2>2. Length[n] = Count[t] * ItemSize[t]
    BY <1>0 DEF Length, Bytes
  <2>3. QED
    BY <2>1, <2>2 DEF set_scene_fig_next
<1>3. TypeOK'
  <2>1. field' \in [FigType -> Nat] /\ shift' \in Nat /\ next' \in 1 .. 8
    BY <1>0, <1>2
  <2>2. TypeOK /\ UNCHANGED <<pc, host, offset, size, bytes>>
    BY DEF LayoutInv, set_scene_fig_next
  <2>3. QED
    BY <2>1, <2>2 DEF TypeOK
<1>4. shift = Start[n]
  BY <1>0 DEF LayoutInv, InKernel, Chained
<1>5. InKernel'
  <2>1. next' \in 2 .. 7 => shift' = Start'[next']
    BY <1>0, <1>1, <1>2, <1>4 DEF LayoutInv, Chained
  <2>2. ASSUME NEW i \in 1 .. n PROVE field'[HostOrder[i]] = Start'[i]
    <3>1. HostOrder[i] \in FigType /\ (HostOrder[i] = t <=> i = n)
      BY <1>0, OrderFacts
    <3>2. i # n => field[HostOrder[i]] = Start[i]
      BY <1>0 DEF LayoutInv, InKernel
    <3>3. QED
      BY <1>0, <1>1, <1>2, <1>4, <3>1, <3>2
  <2>3. next' # 1 /\ next' - 1 = n
    BY <1>0, <1>2
  <2>4. QED
    BY <2>1, <2>2, <2>3 DEF InKernel
<1>6. QED
  BY <1>0, <1>1, <1>2, <1>3, <1>5 DEF LayoutInv

(* A refill fits, and the region it writes meets no other.  *)
LEMMA RefillKeepsLayout ==
  ASSUME LayoutInv, NEW t \in FigType, DragAndRefill(t)
  PROVE  LayoutInv'
<1>0. PICK k \in 1 .. 7 : HostOrder[k] = t
  BY OrderFacts
<1>1. /\ placed = 7 /\ pc = "ready" /\ size \in Nat
      /\ Start \in [1 .. 7 -> Nat] /\ Length \in [1 .. 7 -> Nat]
      /\ host \in [Figure -> Value]
      /\ Start[k] = offset[t] /\ Length[k] = Bytes(t)
  BY <1>0, PlacedFacts DEF DragAndRefill, placed, LayoutInv, TypeOK, Start, Length
<1>2. PICK i \in 1 .. Count[t], v \in Value : host' = [host EXCEPT ![<<t, i>>] = v]
  BY DEF DragAndRefill
<1>3. Start[k] + Length[k] <= size
  BY <1>1 DEF LayoutInv, Apart
<1>4. ~(Bytes(t) + FillStart(t) > size)
  BY <1>1, <1>3 DEF FillStart
<1>5. /\ bytes' = [b \in 0 .. size - 1 |->
                     IF b - Start[k] \in 0 .. Length[k] - 1
                     THEN HostByte(host', t, b - Start[k]) ELSE bytes[b]]
      /\ pc' = pc
      /\ UNCHANGED <<next, offset, size, shift, field>>
  BY <1>1, <1>4 DEF DragAndRefill, FillStart
<1>6. placed' = placed /\ Start' = Start
  BY <1>5 DEF placed, Start
<1>7. TypeOK'
  <2>1. DOMAIN bytes' = 0 .. size' - 1
    BY <1>5
  <2>2. host' \in [Figure -> Value]
    BY <1>1, <1>2
  <2>3. TypeOK
    BY DEF LayoutInv
  <2>4. QED
    BY <1>5, <2>1, <2>2, <2>3 DEF TypeOK
<1>8. Chained' /\ Apart'
  BY <1>5, <1>6 DEF LayoutInv, Chained, Apart
<1>9. Filled'
  <2>1. ASSUME NEW j \in 1 .. 7, NEW b \in 0 .. Length[j] - 1
        PROVE  bytes'[Start[j] + b] = HostByte(host', HostOrder[j], b)
    <3>1. Start[j] + Length[j] <= size /\ Start[j] + b \in 0 .. size - 1
      BY <1>1 DEF LayoutInv, Apart
    <3>2. CASE j = k
      <4>1. (Start[k] + b) - Start[k] = b /\ b \in 0 .. Length[k] - 1
        BY <1>1, <3>2
      <4>2. QED
        BY <1>0, <1>5, <3>1, <3>2, <4>1
    <3>3. CASE j # k
      <4>1. Start[j] + Length[j] <= Start[k] \/ Start[k] + Length[k] <= Start[j]
        BY <1>1, <3>3 DEF LayoutInv, Apart
      <4>2. ~((Start[j] + b) - Start[k] \in 0 .. Length[k] - 1)
        BY <1>1, <4>1
      <4>3. bytes'[Start[j] + b] = bytes[Start[j] + b]
        BY <1>5, <3>1, <4>2
      <4>4. bytes[Start[j] + b] = HostByte(host, HostOrder[j], b)
        BY <1>1 DEF LayoutInv, Filled
      <4>5. HostOrder[j] \in FigType /\ HostOrder[j] # t /\ b \in 0 .. Bytes(HostOrder[j]) - 1
        BY <1>0, <3>3, OrderFacts DEF Length
      <4>6. HostByte(host', HostOrder[j], b) = HostByte(host, HostOrder[j], b)
        <5>1. ASSUME NEW f \in Figure, f[1] # t PROVE host'[f] = host[f]
          BY <1>1, <1>2, <5>1
        <5>2. <<HostOrder[j], (b \div ItemSize[HostOrder[j]]) + 1>> \in Figure
          BY <4>5, BytesFacts
        <5>3. host'[<<HostOrder[j], (b \div ItemSize[HostOrder[j]]) + 1>>]
                = host[<<HostOrder[j], (b \div ItemSize[HostOrder[j]]) + 1>>]
          BY <4>5, <5>1, <5>2
        <5>4. QED
          BY <5>3 DEF HostByte
      <4>7. QED
        BY <4>3, <4>4, <4>6
    <3>4. QED
      BY <3>2, <3>3
  <2>2. QED
    BY <1>1, <1>6, <2>1 DEF Filled
<1>10. QED
  BY <1>1, <1>5, <1>7, <1>8, <1>9 DEF LayoutInv, InKernel

LEMMA LayoutNext == LayoutInv /\ [Next]_vars => LayoutInv'
<1> SUFFICES ASSUME LayoutInv, [Next]_vars PROVE LayoutInv'
  OBVIOUS
<1>1. CASE UNCHANGED vars
  <2>1. placed' = placed /\ Chained' /\ Apart' /\ Filled'
    BY <1>1, RegionsKept DEF vars, placed
  <2>2. TypeOK' /\ InKernel'
    BY <1>1 DEF vars, LayoutInv, TypeOK, InKernel, Start
  <2>3. QED
    BY <1>1, <2>1, <2>2 DEF vars, LayoutInv
<1>2. CASE Next
  BY <1>2, AddKeepsLayout, CreateKeepsLayout, RefillKeepsLayout,
     KernelStartKeepsLayout, SetSceneKeepsLayout, KernelEndKeepsLayout DEF Next
<1>3. QED
  BY <1>1, <1>2

LEMMA LayoutAlways == Spec => []LayoutInv
  BY LayoutInit, LayoutNext, PTL DEF Spec

-----------------------------------------------------------------------------
(* Type correctness of the layout, for every count and size of figures.  *)
THEOREM LayoutTypes == Spec => []TypeOK
<1>1. LayoutInv => TypeOK
  BY DEF LayoutInv
<1>2. QED
  BY <1>1, LayoutAlways, PTL

(* Whatever was dragged, the kernel reads the host's figures: init_scene's *)
(* offsets, the refills and the kernel's shifts agree for every scene.     *)
THEOREM KernelAlwaysReadsHost == Spec => []KernelReadsHost
<1>1. ASSUME LayoutInv PROVE KernelReadsHost
  <2>1. SUFFICES ASSUME pc = "kernel",
                        NEW i \in 1 .. next - 1,
                        NEW b \in 0 .. Bytes(KernelOrder[i]) - 1
                 PROVE  /\ field[KernelOrder[i]] + b < size
                        /\ bytes[field[KernelOrder[i]] + b]
                             = HostByte(host, KernelOrder[i], b)
    BY DEF KernelReadsHost
  <2>2. /\ next \in 1 .. 8 /\ placed = 7 /\ i \in 1 .. 7 /\ size \in Nat
        /\ Start \in [1 .. 7 -> Nat] /\ Length \in [1 .. 7 -> Nat]
    <3>1. next \in 1 .. 8
      BY <1>1 DEF LayoutInv, TypeOK
    <3>2. placed = 7
      BY <2>1 DEF placed
    <3>3. i \in 1 .. 7
      BY <2>1, <3>1
    <3>4. QED
      BY <1>1, <3>1, <3>2, <3>3, PlacedFacts
  <2>3. KernelOrder[i] = HostOrder[i] /\ b \in 0 .. Length[i] - 1
    BY <2>1, <2>2, OrderFacts DEF Length
  <2>4. field[HostOrder[i]] = Start[i]
    BY <1>1, <2>1 DEF LayoutInv, InKernel
  <2>5. Start[i] + b < size
    BY <1>1, <2>2, <2>3 DEF LayoutInv, Apart
  <2>6. bytes[Start[i] + b] = HostByte(host, HostOrder[i], b)
    BY <1>1, <2>2, <2>3 DEF LayoutInv, Filled
  <2>7. QED
    BY <2>3, <2>4, <2>5, <2>6
<1>2. QED
  BY <1>1, LayoutAlways, PTL

(* No refill is ever out of the bounds CLarray::fill checks.  *)
THEOREM RefillsAlwaysFit == Spec => []RefillFits
<1>1. LayoutInv => RefillFits
  BY DEF LayoutInv, RefillFits
<1>2. QED
  BY <1>1, LayoutAlways, PTL

=============================================================================

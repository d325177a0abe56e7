--------------------------- MODULE Marcher_proofs ---------------------------
(***************************************************************************)
(* In a scene without unions, whatever its figures, scene_dsf returns the  *)
(* least distance or a hit, and a ray ends on an object that is there.     *)
(* With unions, however the work-items race, pointers stay in their union, *)
(* and every ray comes closer to its end with every step.                  *)
(***************************************************************************)
EXTENDS Marcher, FiniteSetTheorems, WellFoundedInduction, TLAPS

Past(r, k, j) == k < r.list \/ (k = r.list /\ j < r.i)

(* A work-item's own memory.  No step towards a union is ever taken.        *)
Item ==
  [pc : {"scene", "shadow", "hit", "done"}, point : Points, iter : Nat,
   list : 1 .. Len(Lists) + 1, i : Nat,
   closest_t : Int, closest_obj : Figures \cup {Garbage, NULLPTR},
   obj_type : DOMAIN Lists \cup {Garbage}, read : Int, probes : Nat,
   result : Figures \cup {Garbage, NULLPTR}, place : Points]

(* The loop variable stays within the list, and is spent after the last.    *)
InLoop(r) ==
  IF r.list \in DOMAIN Lists THEN r.i \in 1 .. Len(Lists[r.list]) + 1 ELSE r.i = 0

(* The distance is that of the object, of the type recorded with it.        *)
Nearest(r, d) ==
  r.pc = "scene" =>
    \/ r.closest_t = INFINITY
    \/ /\ r.closest_obj \in Figures
       /\ r.closest_t = d[r.closest_obj][r.point]
       /\ r.obj_type \in DOMAIN Lists
       /\ \E j \in DOMAIN Lists[r.obj_type] : Lists[r.obj_type][j] = r.closest_obj

(* Nothing the loops have passed is nearer, as long as nothing is hit.      *)
Least(r, d) ==
  r.pc = "scene" /\ r.closest_t >= HIT_DISTANCE =>
    \A k \in DOMAIN Lists : \A j \in DOMAIN Lists[k] :
      Past(r, k, j) => r.closest_t <= d[Lists[k][j]][r.point]

(* A result is found once, and is what HitIsReal says of it.                *)
Real(r, d) ==
  /\ r.pc = "scene" => r.result = NULLPTR
  /\ r.result # NULLPTR =>
      /\ r.result \in Figures
      /\ d[r.result][r.place] < HIT_DISTANCE
      /\ r.obj_type \in DOMAIN Lists
      /\ \E j \in DOMAIN Lists[r.obj_type] : Lists[r.obj_type][j] = r.result

ItemOK(r, d) ==
  r \in Item /\ InLoop(r) /\ Nearest(r, d) /\ Least(r, d) /\ Real(r, d)

MarchInv ==
  /\ dist \in [Figures -> [Points -> Distances]]
  /\ item \in [WorkItems -> Item]
  /\ \A w \in WorkItems : ItemOK(item[w], dist)

-----------------------------------------------------------------------------
LEMMA ListsFacts ==
  ASSUME NEW k \in DOMAIN Lists
  PROVE  /\ Lists[k] \in Seq(Figures) /\ Len(Lists[k]) \in Nat
         /\ DOMAIN Lists[k] = 1 .. Len(Lists[k])
         /\ k \in 1 .. Len(Lists) /\ Len(Lists) \in Nat
         /\ \A j \in DOMAIN Lists[k] : Lists[k][j] \in Figures
<1>1. Lists \in Seq(Seq(Figures))
  BY MarcherAssumption
<1>2. k \in 1 .. Len(Lists) /\ Len(Lists) \in Nat
  BY <1>1
<1>3. Lists[k] \in Seq(Figures)
  BY <1>1, <1>2
<1>4. QED
  BY <1>2, <1>3

LEMMA LenLists == Len(Lists) \in Nat /\ DOMAIN Lists = 1 .. Len(Lists)
<1>1. Lists \in Seq(Seq(Figures))
  BY MarcherAssumption
<1>2. QED
  BY <1>1

(* A figure of a scene without unions takes the branch of the free ones,    *)
(* and there is no entry to fold.                                           *)
LEMMA NoUnions ==
  ASSUME UnionNums = {}
  PROVE  /\ \A f \in Figures : UnionNum[f] = -1
         /\ dsf_buffer_size = 0
         /\ \A p : Terms(p) = {dist[f][p] : f \in Figures}
<1>1. \A f \in Figures : UnionNum[f] = -1
  BY DEF UnionNums
<1>2. dsf_buffer_size = 0
  BY FS_EmptySet DEF dsf_buffer_size
<1>3. Free = Figures
  BY <1>1 DEF Free
<1>4. QED
  BY <1>1, <1>2, <1>3 DEF Terms

LEMMA StartOK ==
  ASSUME NEW p \in Points, NEW d, NEW n \in Nat
  PROVE  ItemOK([Start(p) EXCEPT !.iter = n], d) /\ ItemOK(Start(p), d)
<1> DEFINE r == [Start(p) EXCEPT !.iter = n]
           s == Start(p)
<1>1. s \in Item /\ r \in Item
  <2>1. 1 \in 1 .. Len(Lists) + 1
    BY LenLists
  <2>2. INFINITY \in Int /\ Probes \in Nat
    BY MarcherAssumption
  <2>3. s \in Item
    BY <2>1, <2>2 DEF Start, Item
  <2>4. r = [s EXCEPT !.iter = n]
    OBVIOUS
  <2> HIDE DEF s, r
  <2>5. r \in Item
    BY <2>3, <2>4 DEF Item
  <2>6. QED
    BY <2>3, <2>5
<1>2. ASSUME NEW k \in DOMAIN Lists, NEW j \in DOMAIN Lists[k]
      PROVE  ~Past(r, k, j) /\ ~Past(s, k, j)
  BY ListsFacts DEF Past, Start
<1>3. InLoop(r) /\ InLoop(s)
  <2>1. 1 \in DOMAIN Lists
    BY LenLists, MarcherAssumption
  <2>2. QED
    BY <2>1, ListsFacts DEF InLoop, Start
<1>4. QED
  BY <1>1, <1>2, <1>3 DEF ItemOK, Nearest, Least, Real, Start

(* A work-item that has become r leaves the others as they are.             *)
LEMMA BecomesOK ==
  ASSUME MarchInv, NEW w \in WorkItems, NEW r, ItemOK(r, dist), Becomes(w, r)
  PROVE  MarchInv'
<1>1. item' = [item EXCEPT ![w] = r] /\ dist' = dist
  BY DEF Becomes
<1>2. r \in Item
  BY DEF ItemOK
<1>3. item' \in [WorkItems -> Item]
  BY <1>1, <1>2 DEF MarchInv
<1>4. ASSUME NEW v \in WorkItems
      PROVE  ItemOK(item'[v], dist)
  <2>1. CASE v = w
    BY <1>1, <2>1 DEF MarchInv
  <2>2. CASE v # w
    BY <1>1, <2>2 DEF MarchInv
  <2>3. QED
    BY <2>1, <2>2
<1>5. \A v \in WorkItems : ItemOK(item'[v], dist')
  BY <1>1, <1>4
<1>6. dist' \in [Figures -> [Points -> Distances]]
  BY <1>1 DEF MarchInv
<1>7. QED
  BY <1>3, <1>5, <1>6 DEF MarchInv

(* The figure a loop is at, and its distance.                               *)
LEMMA FigureAt ==
  ASSUME NEW r \in Item, InList(r), MarchInv
  PROVE  /\ r.list \in DOMAIN Lists /\ r.i \in DOMAIN Lists[r.list]
         /\ Fig(r) \in Figures /\ Dist(r) \in Int /\ Dist(r) < INFINITY
         /\ Dist(r) = dist[Fig(r)][r.point] /\ Fig(r) = Lists[r.list][r.i]
<1>1. r.list \in DOMAIN Lists /\ r.i \in DOMAIN Lists[r.list]
  BY DEF InList
<1>2. Fig(r) \in Figures
  BY <1>1, ListsFacts DEF Fig
<1>3. r.point \in Points
  BY DEF Item
<1>4. Dist(r) \in Distances
  BY <1>2, <1>3 DEF Dist, MarchInv
<1>5. QED
  BY <1>1, <1>2, <1>4, MarcherAssumption DEF Dist, Fig

(* The end of a loop's body keeps everything, once the figure at hand is no *)
(* nearer than the distance kept.                                           *)
LEMMA NextFigureOK ==
  ASSUME MarchInv, NEW r \in Item, InList(r), InLoop(r), Nearest(r, dist),
         Least(r, dist), Real(r, dist), r.closest_t <= Dist(r)
  PROVE  ItemOK(NextFigure(r), dist)
<1> DEFINE L == Len(Lists[r.list])
           s == NextFigure(r)
<1>1. /\ r.list \in DOMAIN Lists /\ r.i \in 1 .. L /\ L \in Nat
      /\ DOMAIN Lists[r.list] = 1 .. L
  BY FigureAt, ListsFacts
<1>2. CASE r.closest_t < HIT_DISTANCE
  <2>1. s = [r EXCEPT !.i = L + 1]
    BY <1>2 DEF NextFigure
  <2>2. s \in Item /\ InLoop(s)
    BY <1>1, <2>1 DEF Item, InLoop
  <2>3. Least(s, dist)
    BY <1>2, <2>1, MarcherAssumption DEF Least, Item
  <2>4. Nearest(s, dist) /\ Real(s, dist)
    BY <2>1 DEF Nearest, Real, Item
  <2>5. QED
    BY <2>2, <2>3, <2>4 DEF ItemOK
<1>3. CASE ~(r.closest_t < HIT_DISTANCE)
  <2>1. s = [r EXCEPT !.i = r.i + 1]
    BY <1>3 DEF NextFigure
  <2>2. s \in Item /\ InLoop(s)
    BY <1>1, <2>1 DEF Item, InLoop
  <2>3. ASSUME r.pc = "scene", NEW k \in DOMAIN Lists, NEW j \in DOMAIN Lists[k],
               Past(s, k, j)
        PROVE  r.closest_t <= dist[Lists[k][j]][r.point]
    <3>1. Past(r, k, j) \/ (k = r.list /\ j = r.i)
      BY <1>1, <2>1, <2>3, ListsFacts DEF Past, Item
    <3>2. CASE Past(r, k, j)
      BY <1>3, <2>3, <3>2, MarcherAssumption DEF Least, Item
    <3>3. CASE k = r.list /\ j = r.i
      BY <3>3, FigureAt
    <3>4. QED
      BY <3>1, <3>2, <3>3
  <2>4. Least(s, dist)
    BY <2>1, <2>3 DEF Least, Item
  <2>5. Nearest(s, dist) /\ Real(s, dist)
    BY <2>1 DEF Nearest, Real, Item
  <2>6. QED
    BY <2>2, <2>4, <2>5 DEF ItemOK
<1>4. QED
  BY <1>2, <1>3

LEMMA UpdateClosestStep ==
  ASSUME MarchInv, NEW w \in WorkItems, UpdateClosest(w)
  PROVE  MarchInv'
<1> DEFINE r == item[w]
           s == Closer(r)
<1>1. r \in Item /\ ItemOK(r, dist) /\ InList(r) /\ r.pc = "scene"
  BY DEF MarchInv, UpdateClosest
<1>2. /\ r.list \in DOMAIN Lists /\ r.i \in DOMAIN Lists[r.list]
      /\ Fig(r) \in Figures /\ Dist(r) \in Int /\ Dist(r) < INFINITY
      /\ Dist(r) = dist[Fig(r)][r.point] /\ Fig(r) = Lists[r.list][r.i]
  BY <1>1, FigureAt
<1>3. CASE Dist(r) < r.closest_t
  <2>1. s = [r EXCEPT !.closest_t = Dist(r), !.closest_obj = Fig(r),
                      !.obj_type = r.list]
    BY <1>3 DEF Closer
  <2> HIDE DEF s
  <2>2. s \in Item
    BY <1>1, <1>2, <2>1 DEF Item
  <2>3. /\ s.pc = "scene" /\ s.list = r.list /\ s.i = r.i /\ s.point = r.point
        /\ s.closest_t = Dist(r) /\ s.closest_obj = Fig(r)
        /\ s.obj_type = r.list /\ s.result = r.result /\ s.place = r.place
    BY <1>1, <2>1 DEF Item
  <2>4. InList(s) /\ InLoop(s) /\ Dist(s) = Dist(r)
    BY <1>1, <2>3 DEF InList, InLoop, Dist, Fig, ItemOK
  <2>5. Nearest(s, dist)
    BY <1>2, <2>3 DEF Nearest
  <2>6. Real(s, dist)
    BY <1>1, <2>3 DEF Real, ItemOK
  <2>7. Least(s, dist)
    <3> SUFFICES ASSUME s.closest_t >= HIT_DISTANCE, NEW k \in DOMAIN Lists,
                        NEW j \in DOMAIN Lists[k], Past(s, k, j)
                 PROVE  s.closest_t <= dist[Lists[k][j]][s.point]
      BY DEF Least
    <3>0. r.closest_t \in Int /\ HIT_DISTANCE \in Int
      BY <1>1, MarcherAssumption DEF Item
    <3>1. r.closest_t >= HIT_DISTANCE /\ Past(r, k, j)
      <4>1. r.closest_t >= HIT_DISTANCE
        BY <1>2, <1>3, <2>3, <3>0
      <4>2. Past(r, k, j)
        BY <2>3 DEF Past
      <4>3. QED
        BY <4>1, <4>2
    <3>2. r.closest_t <= dist[Lists[k][j]][r.point]
      BY <1>1, <3>1 DEF ItemOK, Least
    <3>3. dist[Lists[k][j]][r.point] \in Int
      <4>1. Lists[k][j] \in Figures /\ r.point \in Points
        BY <1>1, ListsFacts DEF Item
      <4>2. dist[Lists[k][j]][r.point] \in Distances
        BY <4>1 DEF MarchInv
      <4>3. QED
        BY <4>2, MarcherAssumption
    <3>4. QED
      BY <1>1, <1>2, <1>3, <2>3, <3>2, <3>3 DEF Item
  <2>8. s.closest_t <= Dist(s)
    BY <1>2, <2>3, <2>4
  <2>9. ItemOK(NextFigure(s), dist)
    BY <2>2, <2>4, <2>5, <2>6, <2>7, <2>8, NextFigureOK
  <2>10. QED
    BY <2>9, BecomesOK DEF UpdateClosest, s
<1>4. CASE ~(Dist(r) < r.closest_t)
  <2>1. s = r
    BY <1>4 DEF Closer
  <2>2. r.closest_t <= Dist(r)
    BY <1>1, <1>2, <1>4 DEF Item
  <2>3. ItemOK(NextFigure(s), dist)
    BY <1>1, <2>1, <2>2, NextFigureOK DEF ItemOK
  <2>4. QED
    BY <2>3, BecomesOK DEF UpdateClosest
<1>5. QED
  BY <1>3, <1>4

LEMMA NextListStep ==
  ASSUME MarchInv, NEW w \in WorkItems, NextList(w)
  PROVE  MarchInv'
<1> DEFINE r == item[w]
           s == [r EXCEPT !.list = r.list + 1,
                          !.i = IF r.list = Len(Lists) THEN 0 ELSE 1]
<1>1. /\ r \in Item /\ ItemOK(r, dist) /\ r.list \in DOMAIN Lists
      /\ r.i \notin DOMAIN Lists[r.list]
  BY DEF MarchInv, NextList
<1>2. /\ DOMAIN Lists = 1 .. Len(Lists) /\ Len(Lists) \in Nat
      /\ DOMAIN Lists[r.list] = 1 .. Len(Lists[r.list])
      /\ Len(Lists[r.list]) \in Nat
  BY <1>1, LenLists, ListsFacts
<1>3. r.i = Len(Lists[r.list]) + 1
  BY <1>1, <1>2 DEF ItemOK, InLoop
<1>4. /\ s.pc = r.pc /\ s.point = r.point /\ s.closest_t = r.closest_t
      /\ s.closest_obj = r.closest_obj /\ s.obj_type = r.obj_type
      /\ s.result = r.result /\ s.place = r.place
      /\ s.list = r.list + 1 /\ s.i = IF r.list = Len(Lists) THEN 0 ELSE 1
  BY <1>1 DEF Item
<1>5. s \in Item
  <2>1. r.list + 1 \in 1 .. Len(Lists) + 1
    BY <1>1, <1>2
  <2>2. (IF r.list = Len(Lists) THEN 0 ELSE 1) \in Nat
    OBVIOUS
  <2>3. QED
    BY <1>1, <2>1, <2>2 DEF Item
<1>6. Becomes(w, s)
  BY DEF NextList
<1> HIDE DEF s
<1>7. InLoop(s)
  <2>1. CASE r.list = Len(Lists)
    BY <1>2, <1>4, <2>1 DEF InLoop
  <2>2. CASE r.list # Len(Lists)
    <3>1. r.list + 1 \in DOMAIN Lists
      BY <1>1, <1>2, <2>2
    <3>2. QED
      BY <1>4, <2>2, <3>1, ListsFacts DEF InLoop
  <2>3. QED
    BY <2>1, <2>2
<1>8. Nearest(s, dist) /\ Real(s, dist)
  BY <1>1, <1>4 DEF ItemOK, Nearest, Real
<1>9. Least(s, dist)
  <2> SUFFICES ASSUME s.pc = "scene", s.closest_t >= HIT_DISTANCE,
                      NEW k \in DOMAIN Lists, NEW j \in DOMAIN Lists[k], Past(s, k, j)
               PROVE  s.closest_t <= dist[Lists[k][j]][s.point]
    BY DEF Least
  <2>1. j \in 1 .. Len(Lists[k]) /\ k \in 1 .. Len(Lists) /\ Len(Lists[k]) \in Nat
    BY ListsFacts
  <2>2. ~(k = s.list /\ j < s.i)
    BY <1>1, <1>2, <1>4, <2>1
  <2>3. k < s.list
    BY <2>2 DEF Past
  <2>4. Past(r, k, j)
    BY <1>1, <1>2, <1>3, <1>4, <2>1, <2>3 DEF Past
  <2>5. QED
    BY <1>1, <1>4, <2>4 DEF ItemOK, Least
<1>10. ItemOK(s, dist)
  BY <1>5, <1>7, <1>8, <1>9 DEF ItemOK
<1>11. QED
  BY <1>6, <1>10, BecomesOK

(* Without unions no work-item reaches the buffer. *)
LEMMA NoUnionStep ==
  ASSUME MarchInv, UnionNums = {}, NEW w \in WorkItems
  PROVE  /\ ~ReadUnion(w) /\ ~StoreVal(w) /\ ~StorePtr(w)
         /\ ~FoldUnion(w) /\ ~FoldPtr(w) /\ ~StoreShadow(w)
<1>1. item[w] \in Item
  BY DEF MarchInv
<1>2. InList(item[w]) => Fig(item[w]) \in Figures
  BY <1>1, FigureAt
<1>3. ~ReadUnion(w)
  BY <1>2, NoUnions DEF ReadUnion
<1>4. ~FoldUnion(w)
  BY <1>1, NoUnions DEF FoldUnion, InUnions, Item
<1>5. QED
  BY <1>1, <1>3, <1>4 DEF StoreVal, StorePtr, FoldPtr, StoreShadow, Item

(* After its loops a work-item has passed every figure. *)
LEMMA AllPassed ==
  ASSUME MarchInv, NEW w \in WorkItems, item[w].list = Len(Lists) + 1,
         item[w].pc = "scene", item[w].closest_t >= HIT_DISTANCE
  PROVE  \A f \in Figures : item[w].closest_t <= dist[f][item[w].point]
<1> DEFINE r == item[w]
<1>1. ItemOK(r, dist)
  BY DEF MarchInv
<1>2. SUFFICES ASSUME NEW f \in Figures
               PROVE  r.closest_t <= dist[f][r.point]
  OBVIOUS
<1>3. PICK k \in DOMAIN Lists : \E j \in DOMAIN Lists[k] : Lists[k][j] = f
  BY <1>2 DEF Figures
<1>4. PICK j \in DOMAIN Lists[k] : Lists[k][j] = f
  BY <1>3
<1>5. Past(r, k, j)
  BY LenLists DEF Past
<1>6. QED
  BY <1>1, <1>4, <1>5 DEF ItemOK, Least

LEMMA HitStep ==
  ASSUME MarchInv, NEW w \in WorkItems, Hit(w)
  PROVE  MarchInv'
<1> DEFINE r == item[w]
           s == [r EXCEPT !.result = r.closest_obj, !.place = r.point,
                          !.pc = IF r.closest_obj = NULLPTR THEN "done" ELSE "hit"]
<1>1. r \in Item /\ ItemOK(r, dist) /\ r.pc = "scene" /\ r.closest_t < HIT_DISTANCE
  BY DEF MarchInv, Hit, Returned
<1>2. /\ s.pc \in {"done", "hit"} /\ s.point = r.point /\ s.list = r.list
      /\ s.i = r.i /\ s.obj_type = r.obj_type
      /\ s.result = r.closest_obj /\ s.place = r.point
  BY <1>1 DEF Item
<1>3. s \in Item
  BY <1>1 DEF Item
<1>4. Becomes(w, s)
  BY DEF Hit
<1> HIDE DEF s
<1>5. r.closest_t # INFINITY
  BY <1>1, MarcherAssumption DEF Item
<1>6. Real(s, dist)
  BY <1>1, <1>2, <1>5 DEF ItemOK, Nearest, Real
<1>7. InLoop(s) /\ Nearest(s, dist) /\ Least(s, dist)
  BY <1>1, <1>2 DEF ItemOK, InLoop, Nearest, Least
<1>8. QED
  BY <1>3, <1>4, <1>6, <1>7, BecomesOK DEF ItemOK

(* What happens outside scene_dsf leaves what was found alone.              *)
LEMMA OutsideOK ==
  ASSUME MarchInv, NEW r \in Item, ItemOK(r, dist), NEW s \in Item, InLoop(s),
         s.pc # "scene",
         s.result = r.result, s.place = r.place, s.obj_type = r.obj_type
  PROVE  ItemOK(s, dist)
BY DEF ItemOK, Nearest, Least, Real

LEMMA MissStep ==
  ASSUME MarchInv, NEW w \in WorkItems, Miss(w)
  PROVE  MarchInv'
<1> DEFINE r == item[w]
           s == [r EXCEPT !.pc = "done"]
<1>1. r \in Item /\ ItemOK(r, dist) /\ Becomes(w, s)
  BY DEF MarchInv, Miss
<1>2. /\ s \in Item /\ s.pc = "done" /\ s.result = r.result /\ s.place = r.place
      /\ s.obj_type = r.obj_type /\ s.list = r.list /\ s.i = r.i
  BY <1>1 DEF Item
<1> HIDE DEF s
<1>3. InLoop(s)
  BY <1>1, <1>2 DEF ItemOK, InLoop
<1>4. QED
  BY <1>1, <1>2, <1>3, OutsideOK, BecomesOK

LEMMA MarchStep ==
  ASSUME MarchInv, NEW w \in WorkItems, March(w)
  PROVE  MarchInv'
<1> DEFINE r == item[w]
           s == [r EXCEPT !.pc = "done"]
<1>1. r \in Item /\ ItemOK(r, dist) /\ Counted(r) \in Nat
  BY DEF MarchInv, Counted, Item
<1>2. CASE Counted(r) < RTX_RECURSION_DEPTH
  <2>1. PICK p \in Points : Becomes(w, [Start(p) EXCEPT !.iter = Counted(r)])
    BY <1>2 DEF March
  <2>2. ItemOK([Start(p) EXCEPT !.iter = Counted(r)], dist)
    BY <1>1, StartOK
  <2>3. QED
    BY <2>1, <2>2, BecomesOK
<1>3. CASE ~(Counted(r) < RTX_RECURSION_DEPTH)
  <2>1. Becomes(w, s)
    BY <1>3 DEF March
  <2>2. /\ s \in Item /\ s.pc = "done" /\ s.result = r.result
        /\ s.place = r.place /\ s.obj_type = r.obj_type
        /\ s.list = r.list /\ s.i = r.i
    BY <1>1 DEF Item
  <2> HIDE DEF s
  <2>3. InLoop(s)
    BY <1>1, <2>2 DEF ItemOK, InLoop
  <2>4. QED
    BY <1>1, <2>1, <2>2, <2>3, OutsideOK, BecomesOK
<1>4. QED
  BY <1>2, <1>3

LEMMA ProbeStep ==
  ASSUME MarchInv, NEW w \in WorkItems, Probe(w)
  PROVE  MarchInv'
<1> DEFINE r == item[w]
           s == [r EXCEPT !.pc = "done"]
           t(p) == [r EXCEPT !.pc = "shadow", !.point = p, !.list = 1, !.i = 1,
                             !.closest_t = INFINITY, !.probes = r.probes - 1]
<1>1. r \in Item /\ ItemOK(r, dist)
  BY DEF MarchInv
<1>2. CASE r.probes = 0
  <2>1. Becomes(w, s)
    BY <1>2 DEF Probe
  <2>2. /\ s \in Item /\ s.pc = "done" /\ s.result = r.result
        /\ s.place = r.place /\ s.obj_type = r.obj_type
        /\ s.list = r.list /\ s.i = r.i
    BY <1>1 DEF Item
  <2> HIDE DEF s
  <2>3. InLoop(s)
    BY <1>1, <2>2 DEF ItemOK, InLoop
  <2>4. QED
    BY <1>1, <2>1, <2>2, <2>3, OutsideOK, BecomesOK
<1>3. CASE r.probes # 0
  <2>1. PICK p \in Points : Becomes(w, t(p))
    BY <1>3 DEF Probe
  <2>2. 1 \in DOMAIN Lists /\ 1 \in 1 .. Len(Lists) + 1 /\ INFINITY \in Int
    BY LenLists, MarcherAssumption
  <2>3. r.probes - 1 \in Nat
    BY <1>1, <1>3 DEF Item
  <2>4. /\ t(p) \in Item /\ t(p).pc = "shadow" /\ t(p).result = r.result
        /\ t(p).place = r.place /\ t(p).obj_type = r.obj_type
        /\ t(p).list = 1 /\ t(p).i = 1
    BY <1>1, <2>2, <2>3 DEF Item
  <2> HIDE DEF t
  <2>5. InLoop(t(p))
    BY <2>2, <2>4, ListsFacts DEF InLoop
  <2>6. QED
    BY <1>1, <2>1, <2>4, <2>5, OutsideOK, BecomesOK
<1>4. QED
  BY <1>2, <1>3

LEMMA UpdateShadowStep ==
  ASSUME MarchInv, UnionNums = {}, NEW w \in WorkItems, UpdateShadow(w)
  PROVE  MarchInv'
<1> DEFINE r == item[w]
           s == [r EXCEPT !.closest_t = IF Dist(r) < @ THEN Dist(r) ELSE @]
<1>1. r \in Item /\ ItemOK(r, dist) /\ InList(r) /\ r.pc = "shadow"
  BY DEF MarchInv, UpdateShadow
<1>2. Fig(r) \in Figures /\ Dist(r) \in Int
  BY <1>1, FigureAt
<1>3. Becomes(w, NextFigure(s))
  BY <1>2, NoUnions DEF UpdateShadow
<1>4. /\ s \in Item /\ s.pc = "shadow" /\ s.result = r.result
      /\ s.place = r.place /\ s.obj_type = r.obj_type /\ s.point = r.point
      /\ s.list = r.list /\ s.i = r.i /\ s.closest_t <= Dist(r)
  BY <1>1, <1>2 DEF Item
<1> HIDE DEF s
<1>5. InLoop(s) /\ InList(s) /\ Dist(s) = Dist(r)
  BY <1>1, <1>4 DEF ItemOK, InLoop, InList, Dist, Fig
<1>6. ItemOK(s, dist)
  BY <1>1, <1>4, <1>5, OutsideOK
<1>7. ItemOK(NextFigure(s), dist)
  BY <1>4, <1>5, <1>6, NextFigureOK DEF ItemOK
<1>8. QED
  BY <1>3, <1>7, BecomesOK

LEMMA ShadowEndStep ==
  ASSUME MarchInv, NEW w \in WorkItems, ShadowEnd(w)
  PROVE  MarchInv'
<1> DEFINE r == item[w]
           s == [r EXCEPT !.pc = "hit"]
<1>1. r \in Item /\ ItemOK(r, dist) /\ Becomes(w, s)
  BY DEF MarchInv, ShadowEnd
<1>2. /\ s \in Item /\ s.pc = "hit" /\ s.result = r.result /\ s.place = r.place
      /\ s.obj_type = r.obj_type /\ s.list = r.list /\ s.i = r.i
  BY <1>1 DEF Item
<1> HIDE DEF s
<1>3. InLoop(s)
  BY <1>1, <1>2 DEF ItemOK, InLoop
<1>4. QED
  BY <1>1, <1>2, <1>3, OutsideOK, BecomesOK

(* Every work-item starts at the camera, in the first frame and in any.     *)
LEMMA AllStart ==
  ASSUME NEW start \in [WorkItems -> Points], NEW d
  PROVE  /\ [w \in WorkItems |-> Start(start[w])] \in [WorkItems -> Item]
         /\ \A w \in WorkItems :
              ItemOK([v \in WorkItems |-> Start(start[v])][w], d)
<1>1. ASSUME NEW w \in WorkItems
      PROVE  ItemOK(Start(start[w]), d) /\ Start(start[w]) \in Item
  <2>1. ItemOK(Start(start[w]), d)
    BY StartOK, 0 \in Nat
  <2>2. QED
    BY <2>1 DEF ItemOK
<1>2. QED
  BY <1>1

LEMMA MarchInit == Init => MarchInv
<1> SUFFICES ASSUME Init PROVE MarchInv
  OBVIOUS
<1>1. PICK start \in [WorkItems -> Points] :
        item = [w \in WorkItems |-> Start(start[w])]
  BY DEF Init
<1>2. dist \in [Figures -> [Points -> Distances]]
  BY DEF Init
<1>3. QED
  BY <1>1, <1>2, AllStart DEF MarchInv

LEMMA NextFrameStep == MarchInv /\ NextFrame => MarchInv'
<1> SUFFICES ASSUME MarchInv, NextFrame PROVE MarchInv'
  OBVIOUS
<1>1. PICK start \in [WorkItems -> Points] :
        item' = [w \in WorkItems |-> Start(start[w])]
  BY DEF NextFrame
<1>2. dist' = dist
  BY DEF NextFrame
<1>3. item' \in [WorkItems -> Item] /\ \A w \in WorkItems : ItemOK(item'[w], dist')
  BY <1>1, AllStart
<1>4. QED
  BY <1>2, <1>3 DEF MarchInv

LEMMA MarchNext ==
  UnionNums = {} /\ MarchInv /\ [Next]_vars => MarchInv'
<1> SUFFICES ASSUME UnionNums = {}, MarchInv, [Next]_vars PROVE MarchInv'
  OBVIOUS
<1>1. ASSUME NEW w \in WorkItems, Work(w) PROVE MarchInv'
  <2>1. /\ ~ReadUnion(w) /\ ~StoreVal(w) /\ ~StorePtr(w)
        /\ ~FoldUnion(w) /\ ~FoldPtr(w) /\ ~StoreShadow(w)
    BY NoUnionStep
  <2>2. \/ UpdateClosest(w) \/ NextList(w) \/ Hit(w) \/ Miss(w) \/ March(w)
        \/ Probe(w) \/ UpdateShadow(w) \/ ShadowEnd(w)
    BY <1>1, <2>1 DEF Work
  <2>3. QED
    BY <2>2, UpdateClosestStep, NextListStep, HitStep, MissStep, MarchStep,
       ProbeStep, UpdateShadowStep, ShadowEndStep
<1>2. CASE NextFrame
  BY <1>2, NextFrameStep
<1>3. CASE UNCHANGED vars
  BY <1>3 DEF vars, MarchInv
<1>4. QED
  BY <1>1, <1>2, <1>3 DEF Next

LEMMA MarchInvariant ==
  ASSUME UnionNums = {}
  PROVE  Spec => []MarchInv
<1>1. MarchInv /\ [Next]_vars => MarchInv'
  BY MarchNext
<1>2. QED
  BY <1>1, MarchInit, PTL DEF Spec

-----------------------------------------------------------------------------
(* scene_dsf computes the minimum its comment promises, in every scene      *)
(* without unions: the breaks of its loops never hide a nearer figure from  *)
(* a ray that goes on.                                                      *)
THEOREM SceneDsfIsMinimum ==
  ASSUME UnionNums = {}
  PROVE  Spec => []DistanceIsMin
<1>1. ASSUME MarchInv PROVE DistanceIsMin
  <2> SUFFICES ASSUME NEW w \in WorkItems, Returned(item[w])
               PROVE  LET t == item[w].closest_t IN
                      /\ t \in Terms(item[w].point) \cup {INFINITY}
                      /\ t >= HIT_DISTANCE =>
                           \A s \in Terms(item[w].point) : t <= s
    BY DEF DistanceIsMin
  <2>1. ItemOK(item[w], dist) /\ item[w].pc = "scene"
        /\ item[w].list = Len(Lists) + 1
    BY <1>1 DEF MarchInv, Returned
  <2>2. Terms(item[w].point) = {dist[f][item[w].point] : f \in Figures}
    BY NoUnions
  <2>3. item[w].closest_t \in Terms(item[w].point) \cup {INFINITY}
    BY <2>1, <2>2 DEF ItemOK, Nearest
  <2>4. item[w].closest_t >= HIT_DISTANCE =>
          \A s \in Terms(item[w].point) : item[w].closest_t <= s
    BY <1>1, <2>1, <2>2, AllPassed
  <2>5. QED
    BY <2>3, <2>4
<1>2. QED
  BY <1>1, MarchInvariant, PTL

(* Without unions a ray that ends on an object ends where that object is,   *)
(* and names its type: what object_at_pos hands to the hooks can be cast.   *)
THEOREM RaysEndOnObjects == Spec => []HitIsReal
<1>1. CASE UnionNums = {}
  <2>1. MarchInv => HitIsReal
    BY DEF MarchInv, ItemOK, Real, HitIsReal
  <2>2. QED
    BY <1>1, <2>1, MarchInvariant, PTL
<1>2. CASE UnionNums # {}
  <2>1. HitIsReal
    BY <1>2 DEF HitIsReal
  <2>2. QED
    BY <2>1, PTL
<1>3. QED
  BY <1>1, <1>2

-----------------------------------------------------------------------------
(* With unions: what races over the buffer can and cannot do.               *)

Entries == UnionNums \cup 0 .. dsf_buffer_size - 1
Pointers == Figures \cup {NULLPTR, Garbage}

RacingItem ==
  [pc : {"scene", "store val", "store ptr", "fold ptr", "shadow", "store shadow",
         "hit", "done"},
   point : Points, iter : Int, list : Int, i : Nat,
   closest_t : Int, closest_obj : Pointers, obj_type : DOMAIN Lists \cup {Garbage},
   read : Int, probes : Int, result : Pointers, place : Points]

(* Between reading an entry and writing it a work-item stays at its figure; *)
(* a distance is never kept without an object but for one step, in which    *)
(* the object is to be read from an entry that exists.                      *)
RaceOK(r) ==
  /\ r \in RacingItem
  /\ r.pc \in {"store val", "store ptr", "store shadow"} => InList(r)
  /\ r.pc \in {"scene", "store val", "store ptr"} =>
       r.closest_t = INFINITY \/ r.closest_obj # Garbage
  /\ r.pc = "fold ptr" => r.i \in 0 .. dsf_buffer_size - 1
  /\ r.result # Garbage

EntriesOK(b) ==
  /\ b \in [Entries -> [val : Int, ptr : Pointers]]
  /\ \A u \in 0 .. dsf_buffer_size - 1 : b[u].ptr \in Members(u) \cup {NULLPTR}

RaceInv ==
  /\ dist \in [Figures -> [Points -> Distances]]
  /\ item \in [WorkItems -> RacingItem]
  /\ \A w \in WorkItems : RaceOK(item[w])
  /\ EntriesOK(buffer)

LEMMA BufferIsFinite == dsf_buffer_size \in Nat
<1> DEFINE S(k) == {Lists[k][i] : i \in DOMAIN Lists[k]}
           All == {S(k) : k \in DOMAIN Lists}
<1>1. ASSUME NEW k \in DOMAIN Lists PROVE IsFiniteSet(S(k))
  <2>1. Lists[k] \in Surjection(DOMAIN Lists[k], S(k))
    <3>1. Lists[k] \in [DOMAIN Lists[k] -> S(k)]
      BY ListsFacts
    <3>2. QED
      BY <3>1 DEF Surjection
  <2>2. IsFiniteSet(DOMAIN Lists[k])
    BY ListsFacts, FS_Interval
  <2>3. QED
    BY <2>1, <2>2, FS_Surjection
<1>2. IsFiniteSet(All)
  <2>1. [k \in DOMAIN Lists |-> S(k)] \in Surjection(DOMAIN Lists, All)
    BY DEF Surjection
  <2>2. IsFiniteSet(DOMAIN Lists)
    BY LenLists, FS_Interval
  <2> HIDE DEF All
  <2>3. QED
    BY <2>1, <2>2, FS_Surjection
<1>3. IsFiniteSet(Figures)
  <2>1. \A T \in All : IsFiniteSet(T)
    BY <1>1
  <2>2. Figures = UNION All
    BY DEF Figures
  <2> HIDE DEF All
  <2>3. QED
    BY <1>2, <2>1, <2>2, FS_UNION
<1>4. IsFiniteSet({UnionNum[f] : f \in Figures})
  <2>1. UnionNum \in [Figures -> {UnionNum[f] : f \in Figures}]
    BY MarcherAssumption
  <2>2. UnionNum \in Surjection(Figures, {UnionNum[f] : f \in Figures})
    BY <2>1 DEF Surjection
  <2>3. QED
    BY <1>3, <2>2, FS_Surjection
<1>5. IsFiniteSet(UnionNums)
  BY <1>4, FS_Subset DEF UnionNums
<1>6. QED
  BY <1>5, FS_CardinalityType DEF dsf_buffer_size

LEMMA StartRaces ==
  ASSUME NEW p \in Points, NEW n \in Int
  PROVE  RaceOK([Start(p) EXCEPT !.iter = n]) /\ RaceOK(Start(p))
<1> DEFINE s == Start(p)
           r == [s EXCEPT !.iter = n]
<1>1. INFINITY \in Int /\ Probes \in Int /\ NULLPTR # Garbage
  BY MarcherAssumption
<1>2. s \in RacingItem
  BY <1>1 DEF Start, RacingItem, Pointers
<1>3. s.pc = "scene" /\ s.closest_t = INFINITY /\ s.result # Garbage
  BY <1>1 DEF Start
<1> HIDE DEF s
<1>4. /\ r \in RacingItem /\ r.pc = s.pc /\ r.closest_t = s.closest_t
      /\ r.result = s.result
  BY <1>2 DEF RacingItem
<1> HIDE DEF r
<1>5. RaceOK(s) /\ RaceOK(r)
  BY <1>2, <1>3, <1>4 DEF RaceOK
<1>6. QED
  BY <1>5 DEF r, s

LEMMA AllRace ==
  ASSUME NEW start \in [WorkItems -> Points]
  PROVE  /\ [w \in WorkItems |-> Start(start[w])] \in [WorkItems -> RacingItem]
         /\ \A w \in WorkItems : RaceOK([v \in WorkItems |-> Start(start[v])][w])
<1>1. ASSUME NEW w \in WorkItems PROVE RaceOK(Start(start[w]))
  BY StartRaces, 0 \in Int
<1>2. \A w \in WorkItems : Start(start[w]) \in RacingItem
  BY <1>1 DEF RaceOK
<1>3. QED
  BY <1>1, <1>2

LEMMA BecomesRaces ==
  ASSUME RaceInv, NEW w \in WorkItems, NEW r, RaceOK(r), Becomes(w, r),
         EntriesOK(buffer')
  PROVE  RaceInv'
<1>1. item' = [item EXCEPT ![w] = r] /\ dist' = dist
  BY DEF Becomes
<1>2. item' \in [WorkItems -> RacingItem]
  BY <1>1 DEF RaceInv, RaceOK
<1>3. ASSUME NEW v \in WorkItems PROVE RaceOK(item'[v])
  <2>1. CASE v = w
    BY <1>1, <2>1 DEF RaceInv
  <2>2. CASE v # w
    BY <1>1, <2>2 DEF RaceInv
  <2>3. QED
    BY <2>1, <2>2
<1>4. EntriesOK(buffer)'
  BY DEF EntriesOK
<1>5. QED
  BY <1>1, <1>2, <1>3, <1>4 DEF RaceInv, RaceOK

LEMMA RacingFigure ==
  ASSUME RaceInv, NEW r \in RacingItem, InList(r)
  PROVE  Fig(r) \in Figures /\ Dist(r) \in Int /\ Dist(r) < INFINITY
<1>1. Fig(r) \in Figures
  BY ListsFacts DEF InList, Fig
<1>2. Dist(r) \in Distances
  BY <1>1 DEF RaceInv, RacingItem, Dist
<1>3. QED
  BY <1>1, <1>2, MarcherAssumption

(* The end of a loop's body changes nothing but where the loop is.          *)
LEMMA NextFigureRaces ==
  ASSUME NEW r, RaceOK(r), InList(r), r.pc \in {"scene", "shadow"}
  PROVE  RaceOK(NextFigure(r))
<1>1. r \in RacingItem
  BY DEF RaceOK
<1>2. Len(Lists[r.list]) + 1 \in Nat /\ r.i + 1 \in Nat
  <2>1. r.list \in DOMAIN Lists /\ r.i \in Nat
    BY <1>1 DEF InList, RacingItem
  <2>2. Len(Lists[r.list]) \in Nat
    BY <2>1, ListsFacts
  <2>3. QED
    BY <2>1, <2>2
<1>3. PICK n \in Nat : NextFigure(r) = [r EXCEPT !.i = n]
  BY <1>2 DEF NextFigure
<1> DEFINE s == [r EXCEPT !.i = n]
<1>4. /\ s \in RacingItem /\ s.pc = r.pc /\ s.closest_t = r.closest_t
      /\ s.closest_obj = r.closest_obj /\ s.result = r.result
  BY <1>1 DEF RacingItem
<1> HIDE DEF s
<1>5. RaceOK(s)
  BY <1>4 DEF RaceOK
<1>6. QED
  BY <1>3, <1>5 DEF s

(* An entry that is written: its pointer is a member of the union, or as it *)
(* was.                                                                     *)
LEMMA StorePtrStep ==
  ASSUME RaceInv, NEW w \in WorkItems, StorePtr(w)
  PROVE  RaceInv'
<1> DEFINE r == item[w]
           f == Fig(r)
           s == [r EXCEPT !.pc = "scene"]
<1>1. /\ RaceOK(r) /\ r \in RacingItem /\ r.pc = "store ptr" /\ InList(r)
  BY DEF RaceInv, StorePtr, RaceOK
<1>2. f \in Figures
  BY <1>1, RacingFigure
<1>3. buffer' = [buffer EXCEPT ![UnionNum[f]].ptr = f]
  BY DEF StorePtr
<1>4. EntriesOK(buffer')
  <2>1. buffer' \in [Entries -> [val : Int, ptr : Pointers]]
    BY <1>2, <1>3 DEF RaceInv, EntriesOK, Pointers
  <2>2. ASSUME NEW u \in 0 .. dsf_buffer_size - 1
        PROVE  buffer'[u].ptr \in Members(u) \cup {NULLPTR}
    <3>1. u \in Entries
      BY DEF Entries
    <3>2. CASE u = UnionNum[f]
      <4>1. f \in Members(u)
        BY <1>2, <3>2 DEF Members
      <4>2. buffer'[u].ptr = f
        BY <1>3, <3>1, <3>2 DEF RaceInv, EntriesOK
      <4>3. QED
        BY <4>1, <4>2
    <3>3. CASE u # UnionNum[f]
      <4>1. buffer'[u] = buffer[u]
        BY <1>3, <3>1, <3>3 DEF RaceInv, EntriesOK
      <4>2. QED
        BY <4>1 DEF RaceInv, EntriesOK
    <3>4. QED
      BY <3>2, <3>3
  <2>3. QED
    BY <2>1, <2>2 DEF EntriesOK
<1>5. /\ s \in RacingItem /\ s.pc = "scene" /\ s.list = r.list /\ s.i = r.i
      /\ s.closest_t = r.closest_t /\ s.closest_obj = r.closest_obj
      /\ s.result = r.result
  BY <1>1 DEF RacingItem
<1>6. Becomes(w, NextFigure(s))
  BY DEF StorePtr
<1> HIDE DEF s
<1>7. RaceOK(s) /\ InList(s)
  BY <1>1, <1>5 DEF RaceOK, InList
<1>8. QED
  BY <1>4, <1>5, <1>6, <1>7, NextFigureRaces, BecomesRaces

(* A new distance in an entry leaves the pointers.                          *)
LEMMA StoreDistance ==
  ASSUME RaceInv, NEW n, NEW t \in Int, buffer' = [buffer EXCEPT ![n].val = t]
  PROVE  EntriesOK(buffer')
<1>1. buffer' \in [Entries -> [val : Int, ptr : Pointers]]
  BY DEF RaceInv, EntriesOK
<1>2. ASSUME NEW u \in 0 .. dsf_buffer_size - 1
      PROVE  buffer'[u].ptr = buffer[u].ptr
  BY DEF RaceInv, EntriesOK, Entries
<1>3. QED
  BY <1>1, <1>2 DEF RaceInv, EntriesOK

LEMMA StoreValStep ==
  ASSUME RaceInv, NEW w \in WorkItems, StoreVal(w)
  PROVE  RaceInv'
<1> DEFINE r == item[w]
           s == [r EXCEPT !.pc = "store ptr"]
<1>1. RaceOK(r) /\ r \in RacingItem /\ r.pc = "store val" /\ InList(r)
  BY DEF RaceInv, StoreVal, RaceOK
<1>2. EntriesOK(buffer')
  BY <1>1, RacingFigure, StoreDistance DEF StoreVal
<1>3. /\ s \in RacingItem /\ s.pc = "store ptr" /\ s.list = r.list /\ s.i = r.i
      /\ s.closest_t = r.closest_t /\ s.closest_obj = r.closest_obj
      /\ s.result = r.result
  BY <1>1 DEF RacingItem
<1>4. Becomes(w, s)
  BY DEF StoreVal
<1> HIDE DEF s
<1>5. RaceOK(s)
  BY <1>1, <1>3 DEF RaceOK, InList
<1>6. QED
  BY <1>2, <1>4, <1>5, BecomesRaces

LEMMA StoreShadowStep ==
  ASSUME RaceInv, NEW w \in WorkItems, StoreShadow(w)
  PROVE  RaceInv'
<1> DEFINE r == item[w]
           s == [r EXCEPT !.pc = "shadow"]
<1>1. RaceOK(r) /\ r \in RacingItem /\ r.pc = "store shadow" /\ InList(r)
  BY DEF RaceInv, StoreShadow, RaceOK
<1>2. EntriesOK(buffer')
  <2>1. (IF Dist(r) > r.read THEN Dist(r) ELSE r.read) \in Int
    BY <1>1, RacingFigure DEF RacingItem
  <2>2. QED
    BY <2>1, StoreDistance DEF StoreShadow
<1>3. /\ s \in RacingItem /\ s.pc = "shadow" /\ s.list = r.list /\ s.i = r.i
      /\ s.result = r.result
  BY <1>1 DEF RacingItem
<1>4. Becomes(w, NextFigure(s))
  BY DEF StoreShadow
<1> HIDE DEF s
<1>5. RaceOK(s) /\ InList(s)
  BY <1>1, <1>3 DEF RaceOK, InList
<1>6. QED
  BY <1>2, <1>3, <1>4, <1>5, NextFigureRaces, BecomesRaces

(* The steps that only read the buffer. *)
LEMMA ReadsOnly ==
  ASSUME RaceInv, UNCHANGED buffer
  PROVE  EntriesOK(buffer')
BY DEF RaceInv, EntriesOK

LEMMA UpdateClosestRaces ==
  ASSUME RaceInv, NEW w \in WorkItems, UpdateClosest(w)
  PROVE  RaceInv'
<1> DEFINE r == item[w]
           s == Closer(r)
<1>1. /\ RaceOK(r) /\ r \in RacingItem /\ r.pc = "scene" /\ InList(r)
      /\ Becomes(w, NextFigure(s)) /\ EntriesOK(buffer')
  BY ReadsOnly DEF RaceInv, UpdateClosest, RaceOK
<1>2. Fig(r) \in Figures /\ Dist(r) \in Int
  BY <1>1, RacingFigure
<1>3. RaceOK(s) /\ InList(s) /\ s.pc = "scene"
  <2>1. CASE Dist(r) < r.closest_t
    <3>1. s = [r EXCEPT !.closest_t = Dist(r), !.closest_obj = Fig(r),
                        !.obj_type = r.list]
      BY <2>1 DEF Closer
    <3> HIDE DEF s
    <3>2. /\ s \in RacingItem /\ s.pc = "scene" /\ s.list = r.list /\ s.i = r.i
          /\ s.closest_obj = Fig(r) /\ s.result = r.result
      BY <1>1, <1>2, <3>1 DEF RacingItem, Pointers, InList
    <3>3. Fig(r) # Garbage
      BY <1>2, MarcherAssumption
    <3>4. QED
      BY <1>1, <3>2, <3>3 DEF RaceOK, InList
  <2>2. CASE ~(Dist(r) < r.closest_t)
    BY <1>1, <2>2 DEF Closer
  <2>3. QED
    BY <2>1, <2>2
<1> HIDE DEF s
<1>4. QED
  BY <1>1, <1>3, NextFigureRaces, BecomesRaces

LEMMA ReadUnionStep ==
  ASSUME RaceInv, NEW w \in WorkItems, ReadUnion(w)
  PROVE  RaceInv'
<1> DEFINE r == item[w]
           s == [r EXCEPT !.pc = "store val"]
<1>1. /\ RaceOK(r) /\ r \in RacingItem /\ r.pc = "scene" /\ InList(r)
      /\ EntriesOK(buffer') /\ (Becomes(w, s) \/ Becomes(w, NextFigure(r)))
  BY ReadsOnly DEF RaceInv, ReadUnion, RaceOK
<1>2. /\ s \in RacingItem /\ s.pc = "store val" /\ s.list = r.list /\ s.i = r.i
      /\ s.closest_t = r.closest_t /\ s.closest_obj = r.closest_obj
      /\ s.result = r.result
  BY <1>1 DEF RacingItem
<1> HIDE DEF s
<1>3. RaceOK(s)
  BY <1>1, <1>2 DEF RaceOK, InList
<1>4. RaceOK(NextFigure(r))
  BY <1>1, NextFigureRaces
<1>5. QED
  BY <1>1, <1>3, <1>4, BecomesRaces

LEMMA NextListRaces ==
  ASSUME RaceInv, NEW w \in WorkItems, NextList(w)
  PROVE  RaceInv'
<1> DEFINE r == item[w]
           s == [r EXCEPT !.list = r.list + 1,
                          !.i = IF r.list = Len(Lists) THEN 0 ELSE 1]
<1>1. /\ RaceOK(r) /\ r \in RacingItem /\ r.pc \in {"scene", "shadow"}
      /\ Becomes(w, s) /\ EntriesOK(buffer')
  BY ReadsOnly DEF RaceInv, NextList, RaceOK
<1>2. /\ s \in RacingItem /\ s.pc = r.pc /\ s.closest_t = r.closest_t
      /\ s.closest_obj = r.closest_obj /\ s.result = r.result
  <2>1. r.list \in Int
    BY <1>1 DEF RacingItem
  <2>2. r.list + 1 \in Int /\ (IF r.list = Len(Lists) THEN 0 ELSE 1) \in Nat
    BY <2>1
  <2>3. QED
    BY <1>1, <2>2 DEF RacingItem
<1> HIDE DEF s
<1>3. RaceOK(s)
  BY <1>1, <1>2 DEF RaceOK
<1>4. QED
  BY <1>1, <1>3, BecomesRaces

LEMMA FoldUnionStep ==
  ASSUME RaceInv, NEW w \in WorkItems, FoldUnion(w)
  PROVE  RaceInv'
<1> DEFINE r == item[w]
           s == [r EXCEPT !.closest_t = buffer[r.i].val, !.pc = "fold ptr"]
           n == [r EXCEPT !.i = r.i + 1]
<1>1. /\ RaceOK(r) /\ r \in RacingItem /\ r.pc = "scene"
      /\ (Becomes(w, s) \/ Becomes(w, n)) /\ EntriesOK(buffer')
  BY ReadsOnly DEF RaceInv, FoldUnion, RaceOK
<1>0. r.i \in Nat /\ r.i + 1 \in Nat
  <2>1. r.i \in Nat
    BY <1>1 DEF RacingItem
  <2>2. QED
    BY <2>1
<1>2. r.i \in 0 .. dsf_buffer_size - 1
  BY <1>0, BufferIsFinite DEF FoldUnion, InUnions
<1>3. buffer[r.i].val \in Int
  BY <1>2 DEF RaceInv, EntriesOK, Entries
<1>4. /\ s \in RacingItem /\ s.pc = "fold ptr" /\ s.i = r.i /\ s.result = r.result
  BY <1>1, <1>3 DEF RacingItem
<1>5. /\ n \in RacingItem /\ n.pc = "scene" /\ n.closest_t = r.closest_t
      /\ n.closest_obj = r.closest_obj /\ n.result = r.result
  BY <1>0, <1>1 DEF RacingItem
<1> HIDE DEF s, n
<1>6. RaceOK(s) /\ RaceOK(n)
  BY <1>1, <1>2, <1>4, <1>5 DEF RaceOK
<1>7. QED
  BY <1>1, <1>6, BecomesRaces

(* The pointer of an entry that exists is set, whoever has written it last. *)
LEMMA FoldPtrStep ==
  ASSUME RaceInv, NEW w \in WorkItems, FoldPtr(w)
  PROVE  RaceInv'
<1> DEFINE r == item[w]
           s == [r EXCEPT !.closest_obj = Found(r), !.i = r.i + 1, !.pc = "scene"]
<1>1. /\ RaceOK(r) /\ r \in RacingItem /\ r.i \in 0 .. dsf_buffer_size - 1
      /\ Becomes(w, s) /\ EntriesOK(buffer')
  BY ReadsOnly DEF RaceInv, FoldPtr, RaceOK
<1>2. Found(r) \in Pointers /\ Found(r) # Garbage
  <2>1. Found(r) \in Members(r.i) \cup {NULLPTR}
    BY <1>1 DEF Found, RaceInv, EntriesOK
  <2>2. QED
    BY <2>1, MarcherAssumption DEF Members, Pointers
<1>3. /\ s \in RacingItem /\ s.pc = "scene" /\ s.closest_obj = Found(r)
      /\ s.result = r.result
  <2>1. r.i \in Nat
    BY <1>1 DEF RacingItem
  <2>2. r.i + 1 \in Nat
    BY <2>1
  <2>3. QED
    BY <1>1, <1>2, <2>2 DEF RacingItem
<1> HIDE DEF s
<1>4. RaceOK(s)
  BY <1>1, <1>2, <1>3 DEF RaceOK
<1>5. QED
  BY <1>1, <1>4, BecomesRaces

LEMMA HitRaces ==
  ASSUME RaceInv, NEW w \in WorkItems, Hit(w)
  PROVE  RaceInv'
<1> DEFINE r == item[w]
           s == [r EXCEPT !.result = r.closest_obj, !.place = r.point,
                          !.pc = IF r.closest_obj = NULLPTR THEN "done" ELSE "hit"]
<1>1. /\ RaceOK(r) /\ r \in RacingItem /\ r.pc = "scene"
      /\ r.closest_t < HIT_DISTANCE /\ Becomes(w, s) /\ EntriesOK(buffer')
  BY ReadsOnly DEF RaceInv, Hit, Returned, RaceOK
<1>2. r.closest_obj # Garbage
  <2>1. r.closest_t \in Int
    BY <1>1 DEF RacingItem
  <2>2. r.closest_t # INFINITY
    BY <1>1, <2>1, MarcherAssumption
  <2>3. QED
    BY <1>1, <2>2 DEF RaceOK
<1>3. s \in RacingItem /\ s.pc \in {"done", "hit"} /\ s.result = r.closest_obj
  BY <1>1 DEF RacingItem
<1> HIDE DEF s
<1>4. RaceOK(s)
  BY <1>2, <1>3 DEF RaceOK
<1>5. QED
  BY <1>1, <1>4, BecomesRaces

(* A work-item that is in none of these steps keeps its result.             *)
LEMMA RestRaces ==
  ASSUME RaceInv, NEW w \in WorkItems, NEW s \in RacingItem, Becomes(w, s),
         UNCHANGED buffer, s.pc \in {"shadow", "hit", "done"},
         s.result = item[w].result
  PROVE  RaceInv'
<1>1. RaceOK(s)
  BY DEF RaceInv, RaceOK
<1>2. QED
  BY <1>1, ReadsOnly, BecomesRaces

LEMMA DoneRaces ==
  ASSUME RaceInv, NEW w \in WorkItems, NEW p \in {"hit", "done"},
         Becomes(w, [item[w] EXCEPT !.pc = p]), UNCHANGED buffer
  PROVE  RaceInv'
<1> DEFINE s == [item[w] EXCEPT !.pc = p]
<1>1. s \in RacingItem /\ s.pc = p /\ s.result = item[w].result
  BY DEF RaceInv, RacingItem
<1>2. QED
  BY <1>1, RestRaces

LEMMA MarchRaces ==
  ASSUME RaceInv, NEW w \in WorkItems, March(w)
  PROVE  RaceInv'
<1>1. CASE Counted(item[w]) < RTX_RECURSION_DEPTH
  <2>1. PICK p \in Points : Becomes(w, [Start(p) EXCEPT !.iter = Counted(item[w])])
    BY <1>1 DEF March
  <2>2. Counted(item[w]) \in Int
    <3>1. item[w].iter \in Int
      BY DEF RaceInv, RacingItem
    <3>2. QED
      BY <3>1 DEF Counted
  <2>3. EntriesOK(buffer')
    BY ReadsOnly DEF March
  <2>4. QED
    BY <2>1, <2>2, <2>3, StartRaces, BecomesRaces
<1>2. CASE ~(Counted(item[w]) < RTX_RECURSION_DEPTH)
  BY <1>2, DoneRaces DEF March
<1>3. QED
  BY <1>1, <1>2

LEMMA ProbeRaces ==
  ASSUME RaceInv, NEW w \in WorkItems, Probe(w)
  PROVE  RaceInv'
<1> DEFINE r == item[w]
           t(p) == [r EXCEPT !.pc = "shadow", !.point = p, !.list = 1, !.i = 1,
                             !.closest_t = INFINITY, !.probes = r.probes - 1]
<1>0. 1 \in Int /\ 1 \in Nat
  OBVIOUS
<1>1. CASE r.probes = 0
  BY <1>1, DoneRaces DEF Probe
<1>2. CASE r.probes # 0
  <2>1. PICK p \in Points : Becomes(w, t(p))
    BY <1>2 DEF Probe
  <2>2. t(p) \in RacingItem /\ t(p).pc = "shadow" /\ t(p).result = r.result
    <3>1. r \in RacingItem /\ INFINITY \in Int /\ p \in Points
      BY <2>1, MarcherAssumption DEF RaceInv
    <3>2. r.probes - 1 \in Int
      <4>1. r.probes \in Int
        BY <3>1 DEF RacingItem
      <4>2. QED
        BY <4>1
    <3>3. QED
      BY <1>0, <3>1, <3>2 DEF RacingItem
  <2> HIDE DEF t
  <2>3. QED
    BY <2>1, <2>2, RestRaces DEF Probe
<1>3. QED
  BY <1>1, <1>2

LEMMA UpdateShadowRaces ==
  ASSUME RaceInv, NEW w \in WorkItems, UpdateShadow(w)
  PROVE  RaceInv'
<1> DEFINE r == item[w]
           s == [r EXCEPT !.closest_t = IF Dist(r) < @ THEN Dist(r) ELSE @]
           n == [r EXCEPT !.pc = "store shadow", !.read = buffer[UnionNum[Fig(r)]].val]
<1>1. /\ RaceOK(r) /\ r \in RacingItem /\ r.pc = "shadow" /\ InList(r)
      /\ EntriesOK(buffer')
  BY ReadsOnly DEF RaceInv, UpdateShadow, RaceOK
<1>2. Fig(r) \in Figures /\ Dist(r) \in Int
  BY <1>1, RacingFigure
<1>3. CASE UnionNum[Fig(r)] = -1
  <2>1. Becomes(w, NextFigure(s))
    BY <1>3 DEF UpdateShadow
  <2>2. /\ s \in RacingItem /\ s.pc = "shadow" /\ s.list = r.list /\ s.i = r.i
        /\ s.result = r.result
    BY <1>1, <1>2 DEF RacingItem
  <2> HIDE DEF s
  <2>3. RaceOK(s) /\ InList(s)
    BY <1>1, <2>2 DEF RaceOK, InList
  <2>4. QED
    BY <1>1, <2>1, <2>2, <2>3, NextFigureRaces, BecomesRaces
<1>4. CASE UnionNum[Fig(r)] # -1
  <2>1. Becomes(w, n)
    BY <1>4 DEF UpdateShadow
  <2>2. UnionNum[Fig(r)] \in Entries
    BY <1>2, <1>4 DEF Entries, UnionNums
  <2>3. buffer[UnionNum[Fig(r)]].val \in Int
    BY <2>2 DEF RaceInv, EntriesOK
  <2>4. /\ n \in RacingItem /\ n.pc = "store shadow" /\ n.list = r.list /\ n.i = r.i
        /\ n.result = r.result
    BY <1>1, <2>3 DEF RacingItem
  <2> HIDE DEF n
  <2>5. RaceOK(n)
    BY <1>1, <2>4 DEF RaceOK, InList
  <2>6. QED
    BY <1>1, <2>1, <2>5, BecomesRaces
<1>5. QED
  BY <1>3, <1>4

LEMMA RaceInit == Init => RaceInv
<1> SUFFICES ASSUME Init PROVE RaceInv
  OBVIOUS
<1>1. PICK start \in [WorkItems -> Points] :
        item = [w \in WorkItems |-> Start(start[w])]
  BY DEF Init
<1>2. PICK outside \in [val : {0, INFINITY}, ptr : {NULLPTR, Garbage}] :
        buffer = [u \in Entries |->
                   IF u < dsf_buffer_size THEN [val |-> 0, ptr |-> NULLPTR]
                   ELSE outside]
  BY DEF Init, Entries
<1>3. EntriesOK(buffer)
  <2>1. INFINITY \in Int /\ dsf_buffer_size \in Nat
    BY MarcherAssumption, BufferIsFinite
  <2>2. /\ outside \in [val : Int, ptr : Pointers]
        /\ [val |-> 0, ptr |-> NULLPTR] \in [val : Int, ptr : Pointers]
    BY <2>1 DEF Pointers
  <2>3. \A u \in 0 .. dsf_buffer_size - 1 : u \in Entries /\ u < dsf_buffer_size
    BY <2>1 DEF Entries
  <2>4. QED
    BY <1>2, <2>2, <2>3 DEF EntriesOK
<1>4. dist \in [Figures -> [Points -> Distances]]
  BY DEF Init
<1>5. QED
  BY <1>1, <1>3, <1>4, AllRace DEF RaceInv

LEMMA RaceNext == RaceInv /\ [Next]_vars => RaceInv'
<1> SUFFICES ASSUME RaceInv, [Next]_vars PROVE RaceInv'
  OBVIOUS
<1>1. ASSUME NEW w \in WorkItems, Work(w) PROVE RaceInv'
  <2>1. CASE Miss(w)
    BY <2>1, DoneRaces DEF Miss
  <2>2. CASE ShadowEnd(w)
    BY <2>2, DoneRaces DEF ShadowEnd
  <2>3. QED
    BY <1>1, <2>1, <2>2, UpdateClosestRaces, ReadUnionStep, StoreValStep, StorePtrStep,
       NextListRaces, FoldUnionStep, FoldPtrStep, HitRaces, MarchRaces, ProbeRaces,
       UpdateShadowRaces, StoreShadowStep DEF Work
<1>2. CASE NextFrame
  <2>1. PICK start \in [WorkItems -> Points] :
          item' = [w \in WorkItems |-> Start(start[w])]
    BY <1>2 DEF NextFrame
  <2>2. dist' = dist /\ buffer' = buffer
    BY <1>2 DEF NextFrame
  <2>3. QED
    BY <2>1, <2>2, AllRace DEF RaceInv, EntriesOK
<1>3. CASE UNCHANGED vars
  BY <1>3 DEF vars, RaceInv, RaceOK, EntriesOK, InList
<1>4. QED
  BY <1>1, <1>2, <1>3 DEF Next

(* With any unions and any number of work-items that race over the buffer:  *)
(* the entries the last loop of scene_dsf reads point to members of their   *)
(* unions, and no ray ends on a pointer nothing has set.                    *)
THEOREM RacesKeepPointers == Spec => []PointersAreSet
<1>1. RaceInv => PointersAreSet
  BY DEF RaceInv, EntriesOK, RaceOK, PointersAreSet
<1>2. QED
  BY <1>1, RaceInit, RaceNext, PTL DEF Spec

-----------------------------------------------------------------------------
(* Every work-item ends: the core of MarchEnds, without the fairness.       *)

InScene(r) == r.pc \in {"scene", "store val", "store ptr", "fold ptr"}

(* What is left of a ray: the search, then a probe after the other.         *)
Phase(r) ==
  IF InScene(r) THEN 2 * Probes + 3
  ELSE IF r.pc \in {"shadow", "store shadow"} THEN 2 * r.probes + 2
  ELSE IF r.pc = "hit" THEN 2 * r.probes + 1 ELSE 0

(* Where the loop the work-item is in ends, and what is left of its body.   *)
End(r) == IF r.list \in DOMAIN Lists THEN Len(Lists[r.list]) + 1 ELSE dsf_buffer_size
Access(r) == IF r.pc \in {"scene", "shadow"} THEN 2
             ELSE IF r.pc = "store val" THEN 1 ELSE 0

Left(r) ==
  [k \in 1 .. 5 |-> IF k = 1 THEN RTX_RECURSION_DEPTH - r.iter
                    ELSE IF k = 2 THEN Phase(r)
                    ELSE IF k = 3 THEN Len(Lists) + 1 - r.list
                    ELSE IF k = 4 THEN End(r) - r.i ELSE Access(r)]

Smaller == {e \in Nat \X Nat : e[1] < e[2]}
Shorter == LexProductOrdering(Smaller, Nat, 5)

PaceOK(r) ==
  /\ r.iter \in 0 .. RTX_RECURSION_DEPTH - 1
  /\ r.probes \in 0 .. Probes /\ (InScene(r) => r.probes = Probes)
  /\ r.list \in 1 .. Len(Lists) + 1 /\ r.i <= End(r)
  /\ r.pc = "fold ptr" => InUnions(r)

(* Closer to the end, by the first number that differs.                     *)
Down(s, r) ==
  \/ s.iter > r.iter
  \/ s.iter = r.iter /\ Phase(s) < Phase(r)
  \/ s.iter = r.iter /\ Phase(s) = Phase(r) /\ s.list > r.list
  \/ s.iter = r.iter /\ Phase(s) = Phase(r) /\ s.list = r.list /\ s.i > r.i
  \/ s.iter = r.iter /\ Phase(s) = Phase(r) /\ s.list = r.list /\ s.i = r.i
     /\ Access(s) < Access(r)

LEMMA PaceFacts ==
  /\ RTX_RECURSION_DEPTH \in Nat /\ RTX_RECURSION_DEPTH > 0 /\ Probes \in Nat
  /\ Len(Lists) \in Nat /\ Len(Lists) > 0 /\ DOMAIN Lists = 1 .. Len(Lists)
BY MarcherAssumption, LenLists

LEMMA EndFact ==
  ASSUME NEW r \in RacingItem
  PROVE  End(r) \in Nat
BY ListsFacts, BufferIsFinite DEF End

LEMMA LeftFact ==
  ASSUME NEW r \in RacingItem, PaceOK(r)
  PROVE  /\ Left(r) \in [1 .. 5 -> Nat] /\ Phase(r) \in Nat /\ Access(r) \in Nat
         /\ r.iter \in Int /\ r.list \in Int /\ r.i \in Int /\ End(r) \in Int
<1>1. /\ r.iter \in 0 .. RTX_RECURSION_DEPTH - 1 /\ r.probes \in Nat
      /\ r.list \in 1 .. Len(Lists) + 1 /\ r.i <= End(r) /\ r.i \in Nat
  <2>1. r.i \in Nat
    BY DEF RacingItem
  <2>2. 0 .. Probes \subseteq Nat
    BY PaceFacts
  <2>3. QED
    BY <2>1, <2>2 DEF PaceOK
<1>2. Phase(r) \in Nat
  <2>1. /\ 2 * Probes + 3 \in Nat /\ 2 * r.probes + 2 \in Nat
        /\ 2 * r.probes + 1 \in Nat
    BY <1>1, PaceFacts
  <2>2. QED
    BY <2>1 DEF Phase
<1>3. Access(r) \in Nat
  BY DEF Access
<1>4. /\ RTX_RECURSION_DEPTH - r.iter \in Nat /\ Len(Lists) + 1 - r.list \in Nat
      /\ End(r) - r.i \in Nat
  BY <1>1, PaceFacts, EndFact
<1>5. QED
  BY <1>1, <1>2, <1>3, <1>4, EndFact DEF Left

LEMMA DownIsShorter ==
  ASSUME NEW r \in RacingItem, NEW s \in RacingItem, PaceOK(r), PaceOK(s), Down(s, r)
  PROVE  <<Left(s), Left(r)>> \in Shorter
<1>1. Left(s) \in [1 .. 5 -> Nat] /\ Left(r) \in [1 .. 5 -> Nat]
  BY LeftFact
<1>2. /\ RTX_RECURSION_DEPTH \in Int /\ Len(Lists) \in Int
      /\ r.iter \in Int /\ r.list \in Int /\ r.i \in Int /\ End(r) \in Int
      /\ s.iter \in Int /\ s.list \in Int /\ s.i \in Int /\ End(s) \in Int
  BY LeftFact, PaceFacts
<1>3. \A q : /\ Left(q)[1] = RTX_RECURSION_DEPTH - q.iter /\ Left(q)[2] = Phase(q)
             /\ Left(q)[3] = Len(Lists) + 1 - q.list /\ Left(q)[4] = End(q) - q.i
             /\ Left(q)[5] = Access(q)
  BY DEF Left
<1>4. s.list = r.list => End(s) = End(r)
  BY DEF End
<1> DEFINE Before(j) == /\ \A k \in 1 .. j - 1 : Left(s)[k] = Left(r)[k]
                        /\ Left(s)[j] < Left(r)[j]
<1>5. \E j \in 1 .. 5 : Before(j)
  <2>1. CASE s.iter > r.iter
    <3>1. Before(1)
      BY <1>2, <1>3, <2>1
    <3>2. QED
      BY <3>1
  <2>2. CASE s.iter = r.iter /\ Phase(s) < Phase(r)
    <3>1. Before(2)
      <4>1. \A k \in 1 .. 2 - 1 : k = 1
        OBVIOUS
      <4>2. QED
        BY <1>2, <1>3, <2>2, <4>1
    <3>2. QED
      BY <3>1
  <2>3. CASE s.iter = r.iter /\ Phase(s) = Phase(r) /\ s.list > r.list
    <3>1. Before(3)
      <4>1. \A k \in 1 .. 3 - 1 : k = 1 \/ k = 2
        OBVIOUS
      <4>2. \A k \in 1 .. 3 - 1 : Left(s)[k] = Left(r)[k]
        BY <1>3, <2>3, <4>1
      <4>3. Left(s)[3] < Left(r)[3]
        BY <1>2, <1>3, <2>3
      <4>4. QED
        BY <4>2, <4>3
    <3>2. QED
      BY <3>1
  <2>4. CASE s.iter = r.iter /\ Phase(s) = Phase(r) /\ s.list = r.list /\ s.i > r.i
    <3>1. Before(4)
      <4>1. \A k \in 1 .. 4 - 1 : k = 1 \/ k = 2 \/ k = 3
        OBVIOUS
      <4>2. QED
        BY <1>2, <1>3, <1>4, <2>4, <4>1
    <3>2. QED
      BY <3>1
  <2>5. CASE s.iter = r.iter /\ Phase(s) = Phase(r) /\ s.list = r.list /\ s.i = r.i
             /\ Access(s) < Access(r)
    <3>1. Before(5)
      <4>1. \A k \in 1 .. 5 - 1 : k = 1 \/ k = 2 \/ k = 3 \/ k = 4
        OBVIOUS
      <4>2. QED
        BY <1>2, <1>3, <1>4, <2>5, <4>1
    <3>2. QED
      BY <3>1
  <2>6. QED
    BY <2>1, <2>2, <2>3, <2>4, <2>5 DEF Down
<1>6. PICK j \in 1 .. 5 : Before(j)
  BY <1>5
<1>7. <<Left(s)[j], Left(r)[j]>> \in Smaller
  BY <1>1, <1>6 DEF Smaller
<1>8. QED
  BY <1>1, <1>6, <1>7 DEF Shorter, LexProductOrdering

LEMMA WholeNumbers ==
  /\ \A a \in Nat, b \in Nat : a < b => a + 1 \in Nat /\ a + 1 > a /\ a + 1 <= b /\ b > a
  /\ \A a \in Nat : a <= a /\ a + 1 \notin 1 .. a
  /\ \A a \in Nat : \A b \in 1 .. a : b \in Nat /\ a + 1 \in Nat /\ b < a + 1
OBVIOUS

(* The end of a loop's body, of a figure of the list.                       *)
LEMMA FigureDone ==
  ASSUME NEW r \in RacingItem, PaceOK(r), InList(r), NEW q \in RacingItem,
         r.pc \in {"scene", "shadow", "store ptr", "store shadow"},
         q.pc = IF InScene(r) THEN "scene" ELSE "shadow",
         q.iter = r.iter, q.probes = r.probes, q.list = r.list, q.i = r.i,
         NEW s \in RacingItem, s = NextFigure(q)
  PROVE  PaceOK(s) /\ Down(s, r)
<1>1. PICK k \in Nat, m \in Nat :
        k = r.i /\ m = Len(Lists[r.list]) + 1 /\ r.list \in DOMAIN Lists /\ k < m
  <2>1. r.list \in DOMAIN Lists /\ r.i \in DOMAIN Lists[r.list]
    BY DEF InList
  <2>2. /\ DOMAIN Lists[r.list] = 1 .. Len(Lists[r.list])
        /\ Len(Lists[r.list]) \in Nat
    BY <2>1, ListsFacts
  <2> DEFINE k == r.i
             l == Len(Lists[r.list])
  <2>3. k \in 1 .. l /\ l \in Nat
    BY <2>1, <2>2
  <2> HIDE DEF k, l
  <2>4. k \in Nat /\ l + 1 \in Nat /\ k < l + 1
    BY <2>3, WholeNumbers
  <2>5. QED
    BY <2>1, <2>4 DEF k, l
<1>2. PICK n \in Nat : s = [q EXCEPT !.i = n] /\ n > k /\ n <= m
  <2>1. CASE q.closest_t < HIT_DISTANCE
    <3>1. s = [q EXCEPT !.i = m]
      BY <1>1, <2>1 DEF NextFigure
    <3>2. m > k /\ m <= m
      BY <1>1, WholeNumbers
    <3>3. QED
      BY <3>1, <3>2
  <2>2. CASE ~(q.closest_t < HIT_DISTANCE)
    <3>1. s = [q EXCEPT !.i = k + 1]
      BY <1>1, <2>2 DEF NextFigure
    <3>2. k < m
      BY <1>1
    <3>3. k + 1 \in Nat /\ k + 1 > k /\ k + 1 <= m
      BY <3>2, WholeNumbers
    <3>4. QED
      BY <3>1, <3>3
  <2>3. QED
    BY <2>1, <2>2
<1>3. /\ s.pc = q.pc /\ s.iter = r.iter /\ s.probes = r.probes /\ s.list = r.list /\ s.i = n
  BY <1>2 DEF RacingItem
<1>4. Phase(s) = Phase(r) /\ (InScene(s) <=> InScene(r))
  BY <1>3 DEF Phase, InScene
<1>5. End(s) = m
  BY <1>1, <1>3 DEF End
<1>6. PaceOK(s)
  BY <1>2, <1>3, <1>4, <1>5 DEF PaceOK, InScene
<1>7. Down(s, r)
  BY <1>1, <1>2, <1>3, <1>4 DEF Down
<1>8. QED
  BY <1>6, <1>7

(* A work-item that takes a step has less left than before.                 *)
Progresses(w) == PaceOK(item'[w]) /\ Down(item'[w], item[w])

LEMMA Takes ==
  ASSUME RaceInv, NEW w \in WorkItems, NEW s, Becomes(w, s)
  PROVE  item'[w] = s /\ \A v \in WorkItems : v # w => item'[v] = item[v]
BY DEF RaceInv, Becomes

LEMMA FigureDoneStep ==
  ASSUME RaceInv, RaceInv', NEW w \in WorkItems, PaceOK(item[w]), InList(item[w]),
         item[w].pc \in {"scene", "shadow", "store ptr", "store shadow"},
         NEW q \in RacingItem, Becomes(w, NextFigure(q)),
         q.pc = IF InScene(item[w]) THEN "scene" ELSE "shadow",
         q.iter = item[w].iter, q.probes = item[w].probes, q.list = item[w].list,
         q.i = item[w].i
  PROVE  Progresses(w)
<1>1. item[w] \in RacingItem /\ item'[w] \in RacingItem
  BY DEF RaceInv
<1>2. item'[w] = NextFigure(q)
  BY Takes
<1>3. QED
  BY <1>1, <1>2, FigureDone DEF Progresses

LEMMA UpdateClosestEnds ==
  ASSUME RaceInv, RaceInv', NEW w \in WorkItems, PaceOK(item[w]), UpdateClosest(w)
  PROVE  Progresses(w)
<1> DEFINE r == item[w]
           s == Closer(r)
<1>1. /\ r \in RacingItem /\ r.pc = "scene" /\ InList(r) /\ Becomes(w, NextFigure(s))
  BY DEF RaceInv, UpdateClosest
<1>2. Fig(r) \in Figures /\ Dist(r) \in Int
  BY <1>1, RacingFigure
<1>3. /\ s \in RacingItem /\ s.pc = r.pc /\ s.iter = r.iter /\ s.probes = r.probes
      /\ s.list = r.list /\ s.i = r.i
  BY <1>1, <1>2 DEF Closer, RacingItem, Pointers, InList
<1>4. InScene(r)
  BY <1>1 DEF InScene
<1> HIDE DEF s
<1>5. QED
  BY <1>1, <1>3, <1>4, FigureDoneStep

LEMMA ReadUnionEnds ==
  ASSUME RaceInv, RaceInv', NEW w \in WorkItems, PaceOK(item[w]), ReadUnion(w)
  PROVE  Progresses(w)
<1> DEFINE r == item[w]
           s == [r EXCEPT !.pc = "store val"]
<1>1. /\ r \in RacingItem /\ r.pc = "scene" /\ InList(r)
      /\ Becomes(w, s) \/ Becomes(w, NextFigure(r))
  BY DEF RaceInv, ReadUnion
<1>2. InScene(r)
  BY <1>1 DEF InScene
<1>3. CASE Becomes(w, NextFigure(r))
  BY <1>1, <1>2, <1>3, FigureDoneStep
<1>4. CASE Becomes(w, s)
  <2>1. /\ s.pc = "store val" /\ s.iter = r.iter /\ s.probes = r.probes
        /\ s.list = r.list /\ s.i = r.i
    BY <1>1 DEF RacingItem
  <2>2. item'[w] = s
    BY <1>4, Takes
  <2> HIDE DEF s
  <2>3. PaceOK(s)
    BY <1>2, <2>1 DEF PaceOK, InScene, End
  <2>4. Down(s, r)
    <3>1. Phase(s) = Phase(r) /\ Access(s) = 1 /\ Access(r) = 2
      BY <1>1, <2>1 DEF Phase, InScene, Access
    <3>2. Access(s) < Access(r)
      BY <3>1
    <3>3. QED
      BY <2>1, <3>1, <3>2 DEF Down
  <2>5. QED
    BY <2>2, <2>3, <2>4 DEF Progresses
<1>5. QED
  BY <1>1, <1>3, <1>4

LEMMA StoreValEnds ==
  ASSUME RaceInv, RaceInv', NEW w \in WorkItems, PaceOK(item[w]), StoreVal(w)
  PROVE  Progresses(w)
<1> DEFINE r == item[w]
           s == [r EXCEPT !.pc = "store ptr"]
<1>1. r \in RacingItem /\ r.pc = "store val" /\ Becomes(w, s)
  BY DEF RaceInv, StoreVal
<1>2. /\ s.pc = "store ptr" /\ s.iter = r.iter /\ s.probes = r.probes
      /\ s.list = r.list /\ s.i = r.i
  BY <1>1 DEF RacingItem
<1>3. item'[w] = s
  BY <1>1, Takes
<1> HIDE DEF s
<1>4. PaceOK(s)
  BY <1>1, <1>2 DEF PaceOK, InScene, End
<1>5. Down(s, r)
  <2>1. Phase(s) = Phase(r) /\ Access(s) = 0 /\ Access(r) = 1
    BY <1>1, <1>2 DEF Phase, InScene, Access
  <2>2. Access(s) < Access(r)
    BY <2>1
  <2>3. QED
    BY <1>2, <2>1, <2>2 DEF Down
<1>6. QED
  BY <1>3, <1>4, <1>5 DEF Progresses

LEMMA StorePtrEnds ==
  ASSUME RaceInv, RaceInv', NEW w \in WorkItems, PaceOK(item[w]), StorePtr(w)
  PROVE  Progresses(w)
<1> DEFINE r == item[w]
           s == [r EXCEPT !.pc = "scene"]
<1>1. /\ r \in RacingItem /\ r.pc = "store ptr" /\ InList(r)
      /\ Becomes(w, NextFigure(s))
  BY DEF RaceInv, RaceOK, StorePtr
<1>2. /\ s \in RacingItem /\ s.pc = "scene" /\ s.iter = r.iter /\ s.probes = r.probes
      /\ s.list = r.list /\ s.i = r.i
  BY <1>1 DEF RacingItem
<1>3. InScene(r)
  BY <1>1 DEF InScene
<1> HIDE DEF s
<1>4. QED
  BY <1>1, <1>2, <1>3, FigureDoneStep

LEMMA StoreShadowEnds ==
  ASSUME RaceInv, RaceInv', NEW w \in WorkItems, PaceOK(item[w]), StoreShadow(w)
  PROVE  Progresses(w)
<1> DEFINE r == item[w]
           s == [r EXCEPT !.pc = "shadow"]
<1>1. /\ r \in RacingItem /\ r.pc = "store shadow" /\ InList(r)
      /\ Becomes(w, NextFigure(s))
  BY DEF RaceInv, RaceOK, StoreShadow
<1>2. /\ s \in RacingItem /\ s.pc = "shadow" /\ s.iter = r.iter /\ s.probes = r.probes
      /\ s.list = r.list /\ s.i = r.i
  BY <1>1 DEF RacingItem
<1>3. ~InScene(r)
  BY <1>1 DEF InScene
<1> HIDE DEF s
<1>4. QED
  BY <1>1, <1>2, <1>3, FigureDoneStep

LEMMA UpdateShadowEnds ==
  ASSUME RaceInv, RaceInv', NEW w \in WorkItems, PaceOK(item[w]), UpdateShadow(w)
  PROVE  Progresses(w)
<1> DEFINE r == item[w]
           q == [r EXCEPT !.closest_t = IF Dist(r) < @ THEN Dist(r) ELSE @]
           s == [r EXCEPT !.pc = "store shadow", !.read = buffer[UnionNum[Fig(r)]].val]
<1>1. /\ r \in RacingItem /\ r.pc = "shadow" /\ InList(r)
      /\ Becomes(w, s) \/ Becomes(w, NextFigure(q))
  BY DEF RaceInv, UpdateShadow
<1>2. ~InScene(r) /\ Dist(r) \in Int
  BY <1>1, RacingFigure DEF InScene
<1>3. CASE Becomes(w, NextFigure(q))
  <2>1. /\ q \in RacingItem /\ q.pc = r.pc /\ q.iter = r.iter /\ q.probes = r.probes
        /\ q.list = r.list /\ q.i = r.i
    BY <1>1, <1>2 DEF RacingItem
  <2> HIDE DEF q
  <2>2. QED
    BY <1>1, <1>2, <1>3, <2>1, FigureDoneStep
<1>4. CASE Becomes(w, s)
  <2>1. /\ s.pc = "store shadow" /\ s.iter = r.iter /\ s.probes = r.probes
        /\ s.list = r.list /\ s.i = r.i
    BY <1>1 DEF RacingItem
  <2>2. item'[w] = s
    BY <1>4, Takes
  <2> HIDE DEF s
  <2>3. PaceOK(s)
    BY <2>1 DEF PaceOK, InScene, End
  <2>4. Down(s, r)
    <3>1. Phase(s) = Phase(r) /\ Access(s) = 0 /\ Access(r) = 2
      BY <1>1, <2>1 DEF Phase, InScene, Access
    <3>2. Access(s) < Access(r)
      BY <3>1
    <3>3. QED
      BY <2>1, <3>1, <3>2 DEF Down
  <2>5. QED
    BY <2>2, <2>3, <2>4 DEF Progresses
<1>5. QED
  BY <1>1, <1>3, <1>4

LEMMA NextListEnds ==
  ASSUME RaceInv, RaceInv', NEW w \in WorkItems, PaceOK(item[w]), NextList(w)
  PROVE  Progresses(w)
<1> DEFINE r == item[w]
           s == [r EXCEPT !.list = r.list + 1,
                          !.i = IF r.list = Len(Lists) THEN 0 ELSE 1]
<1>1. /\ r \in RacingItem /\ r.pc \in {"scene", "shadow"} /\ r.list \in DOMAIN Lists
      /\ Becomes(w, s)
  BY DEF RaceInv, NextList
<1>2. /\ s.pc = r.pc /\ s.iter = r.iter /\ s.probes = r.probes
      /\ s.list = r.list + 1 /\ s.i = IF r.list = Len(Lists) THEN 0 ELSE 1
  BY <1>1 DEF RacingItem
<1>3. item'[w] = s
  BY <1>1, Takes
<1>4. s \in RacingItem
  BY <1>3 DEF RaceInv
<1> HIDE DEF s
<1>5. PICK l \in Nat, n \in Nat : l = r.list /\ n = Len(Lists) /\ l \in 1 .. n
  <2>1. r.list \in 1 .. Len(Lists)
    BY <1>1, ListsFacts
  <2>2. 1 .. Len(Lists) \subseteq Nat /\ Len(Lists) \in Nat
    BY LenLists
  <2>3. QED
    BY <2>1, <2>2
<1>6. l + 1 \in 1 .. n + 1 /\ l + 1 > l
  BY <1>5
<1>7. s.i <= End(s)
  <2>1. CASE l = n
    <3>1. s.list \notin DOMAIN Lists /\ s.i = 0
      BY <1>2, <1>5, <2>1, LenLists
    <3>2. QED
      BY <3>1, BufferIsFinite DEF End
  <2>2. CASE l # n
    <3>1. s.list \in DOMAIN Lists /\ s.i = 1
      BY <1>2, <1>5, <2>2, LenLists
    <3>2. QED
      BY <3>1, ListsFacts DEF End
  <2>3. QED
    BY <2>1, <2>2
<1>8. PaceOK(s)
  BY <1>1, <1>2, <1>5, <1>6, <1>7 DEF PaceOK, InScene
<1>9. Down(s, r)
  BY <1>2, <1>5, <1>6 DEF Down, Phase, InScene
<1>10. QED
  BY <1>3, <1>8, <1>9 DEF Progresses

(* The last loop of scene_dsf goes on to the next entry of the buffer.      *)
LEMMA NextEntryEnds ==
  ASSUME RaceInv, NEW w \in WorkItems, PaceOK(item[w]), InUnions(item[w]),
         item[w].pc \in {"scene", "fold ptr"}, NEW s, Becomes(w, s),
         s.pc = "scene", s.iter = item[w].iter, s.probes = item[w].probes,
         s.list = item[w].list, s.i = item[w].i + 1
  PROVE  Progresses(w)
<1>1. PICK k \in Nat, n \in Nat :
        k = item[w].i /\ n = dsf_buffer_size /\ k < n
  <2>1. item[w].i \in Nat
    BY DEF RaceInv, RacingItem
  <2>2. QED
    BY <2>1, BufferIsFinite DEF InUnions
<1>2. k + 1 \in Nat /\ k + 1 > k /\ k + 1 <= n
  BY <1>1, WholeNumbers
<1>3. item'[w] = s
  BY Takes
<1>4. item[w].list \notin DOMAIN Lists
  BY WholeNumbers, LenLists DEF InUnions
<1>5. End(s) = n
  BY <1>1, <1>4 DEF End
<1>6. InScene(s) /\ InScene(item[w]) /\ Phase(s) = Phase(item[w])
  BY DEF InScene, Phase
<1>7. PaceOK(s)
  BY <1>1, <1>2, <1>5, <1>6 DEF PaceOK, InUnions
<1>8. Down(s, item[w])
  BY <1>1, <1>2, <1>6 DEF Down
<1>9. QED
  BY <1>3, <1>7, <1>8 DEF Progresses

LEMMA FoldUnionEnds ==
  ASSUME RaceInv, NEW w \in WorkItems, PaceOK(item[w]), FoldUnion(w)
  PROVE  Progresses(w)
<1> DEFINE r == item[w]
           s == [r EXCEPT !.closest_t = buffer[r.i].val, !.pc = "fold ptr"]
           n == [r EXCEPT !.i = r.i + 1]
<1>1. /\ r \in RacingItem /\ r.pc = "scene" /\ InUnions(r)
      /\ Becomes(w, s) \/ Becomes(w, n)
  BY DEF RaceInv, FoldUnion
<1>2. CASE Becomes(w, n)
  <2>1. /\ n.pc = "scene" /\ n.iter = r.iter /\ n.probes = r.probes
        /\ n.list = r.list /\ n.i = r.i + 1
    BY <1>1 DEF RacingItem
  <2> HIDE DEF n
  <2>2. QED
    BY <1>1, <1>2, <2>1, NextEntryEnds
<1>3. CASE Becomes(w, s)
  <2>1. /\ s.pc = "fold ptr" /\ s.iter = r.iter /\ s.probes = r.probes
        /\ s.list = r.list /\ s.i = r.i
    BY <1>1 DEF RacingItem
  <2>2. item'[w] = s
    BY <1>3, Takes
  <2> HIDE DEF s
  <2>3. PaceOK(s)
    BY <1>1, <2>1 DEF PaceOK, InScene, End, InUnions
  <2>4. Phase(s) = Phase(r) /\ Access(s) = 0 /\ Access(r) = 2
    BY <1>1, <2>1 DEF Phase, InScene, Access
  <2>5. Access(s) < Access(r)
    BY <2>4
  <2>6. Down(s, r)
    BY <2>1, <2>4, <2>5 DEF Down
  <2>7. QED
    BY <2>2, <2>3, <2>6 DEF Progresses
<1>4. QED
  BY <1>1, <1>2, <1>3

LEMMA FoldPtrEnds ==
  ASSUME RaceInv, NEW w \in WorkItems, PaceOK(item[w]), FoldPtr(w)
  PROVE  Progresses(w)
<1> DEFINE r == item[w]
           s == [r EXCEPT !.closest_obj = Found(r), !.i = r.i + 1, !.pc = "scene"]
<1>1. r \in RacingItem /\ r.pc = "fold ptr" /\ InUnions(r) /\ Becomes(w, s)
  BY DEF RaceInv, FoldPtr, PaceOK
<1>2. /\ s.pc = "scene" /\ s.iter = r.iter /\ s.probes = r.probes
      /\ s.list = r.list /\ s.i = r.i + 1
  BY <1>1 DEF RacingItem
<1> HIDE DEF s
<1>3. QED
  BY <1>1, <1>2, NextEntryEnds

(* scene_dsf or shadow_dsf is over, and with it a phase of the ray.         *)
LEMMA PhaseOver ==
  ASSUME RaceInv, NEW w \in WorkItems, PaceOK(item[w]), NEW s, Becomes(w, s),
         s.iter = item[w].iter, s.probes = item[w].probes, s.list = item[w].list,
         s.i = item[w].i, s.pc \in {"hit", "done"},
         \/ item[w].pc = "scene"
         \/ item[w].pc = "shadow" /\ s.pc = "hit"
         \/ item[w].pc = "hit" /\ s.pc = "done"
  PROVE  Progresses(w)
<1> DEFINE r == item[w]
<1>1. item'[w] = s
  BY Takes
<1>2. PICK p \in Nat : p = r.probes
  <2>1. 0 .. Probes \subseteq Nat
    BY PaceFacts
  <2>2. QED
    BY <2>1 DEF PaceOK
<1>3. InScene(r) => p = Probes
  BY <1>2 DEF PaceOK
<1>4. \/ Phase(r) = 2 * Probes + 3 /\ p = Probes /\ Phase(s) \in {2 * p + 1, 0}
      \/ Phase(r) = 2 * p + 2 /\ Phase(s) = 2 * p + 1
      \/ Phase(r) = 2 * p + 1 /\ Phase(s) = 0
  BY <1>2, <1>3 DEF Phase, InScene
<1>5. Phase(s) < Phase(r)
  BY <1>4, PaceFacts
<1>6. Down(s, r)
  BY <1>5 DEF Down
<1>7. PaceOK(s)
  BY DEF PaceOK, InScene, End
<1>8. QED
  BY <1>1, <1>6, <1>7 DEF Progresses

LEMMA HitEnds ==
  ASSUME RaceInv, NEW w \in WorkItems, PaceOK(item[w]), Hit(w)
  PROVE  Progresses(w)
<1> DEFINE r == item[w]
           s == [r EXCEPT !.result = r.closest_obj, !.place = r.point,
                          !.pc = IF r.closest_obj = NULLPTR THEN "done" ELSE "hit"]
<1>1. r \in RacingItem /\ r.pc = "scene" /\ Becomes(w, s)
  BY DEF RaceInv, Hit, Returned
<1>2. /\ s.pc \in {"hit", "done"} /\ s.iter = r.iter /\ s.probes = r.probes
      /\ s.list = r.list /\ s.i = r.i
  BY <1>1 DEF RacingItem
<1> HIDE DEF s
<1>3. QED
  BY <1>1, <1>2, PhaseOver

(* A work-item whose step only says where it goes on.                       *)
LEMMA GoesOn ==
  ASSUME RaceInv, NEW w \in WorkItems, PaceOK(item[w]), NEW p \in {"hit", "done"},
         Becomes(w, [item[w] EXCEPT !.pc = p]),
         \/ item[w].pc = "scene"
         \/ item[w].pc = "shadow" /\ p = "hit"
         \/ item[w].pc = "hit" /\ p = "done"
  PROVE  Progresses(w)
<1> DEFINE r == item[w]
           s == [r EXCEPT !.pc = p]
<1>1. r \in RacingItem
  BY DEF RaceInv
<1>2. /\ s.pc = p /\ s.iter = r.iter /\ s.probes = r.probes
      /\ s.list = r.list /\ s.i = r.i
  BY <1>1 DEF RacingItem
<1> HIDE DEF s
<1>3. QED
  BY <1>2, PhaseOver DEF s

LEMMA MarchEndsOrGoesOn ==
  ASSUME RaceInv, NEW w \in WorkItems, PaceOK(item[w]), March(w)
  PROVE  Progresses(w)
<1> DEFINE r == item[w]
           s(p) == [Start(p) EXCEPT !.iter = Counted(r)]
<1>1. CASE Counted(r) < RTX_RECURSION_DEPTH
  <2>1. PICK p \in Points : Becomes(w, s(p))
    BY <1>1 DEF March
  <2>2. /\ s(p).pc = "scene" /\ s(p).iter = r.iter + 1 /\ s(p).probes = Probes
        /\ s(p).list = 1 /\ s(p).i = 1
    BY DEF Start, Counted
  <2>3. item'[w] = s(p)
    BY <2>1, Takes
  <2> HIDE DEF s
  <2>4. PICK k \in Nat : k = r.iter
    <3>1. 0 .. RTX_RECURSION_DEPTH - 1 \subseteq Nat
      BY PaceFacts
    <3>2. QED
      BY <3>1 DEF PaceOK
  <2>5. k + 1 \in 0 .. RTX_RECURSION_DEPTH - 1 /\ k + 1 > k
    <3>1. k + 1 < RTX_RECURSION_DEPTH
      BY <1>1, <2>4 DEF Counted
    <3>2. QED
      BY <3>1, PaceFacts
  <2>6. 1 \in 1 .. Len(Lists) + 1 /\ Probes \in 0 .. Probes /\ 1 \in DOMAIN Lists
    BY PaceFacts
  <2>7. 1 <= End(s(p))
    <3>1. Len(Lists[1]) \in Nat
      BY <2>6, ListsFacts
    <3>2. QED
      BY <2>2, <2>6, <3>1 DEF End
  <2>8. PaceOK(s(p))
    BY <2>2, <2>4, <2>5, <2>6, <2>7 DEF PaceOK
  <2>9. Down(s(p), r)
    BY <2>2, <2>4, <2>5 DEF Down
  <2>10. QED
    BY <2>3, <2>8, <2>9 DEF Progresses
<1>2. CASE ~(Counted(r) < RTX_RECURSION_DEPTH)
  <2>1. Becomes(w, [r EXCEPT !.pc = "done"]) /\ r.pc = "scene"
    BY <1>2 DEF March, Returned
  <2>2. QED
    BY <2>1, GoesOn
<1>3. QED
  BY <1>1, <1>2

LEMMA ProbeEnds ==
  ASSUME RaceInv, NEW w \in WorkItems, PaceOK(item[w]), Probe(w)
  PROVE  Progresses(w)
<1> DEFINE r == item[w]
           s(p) == [r EXCEPT !.pc = "shadow", !.point = p, !.list = 1, !.i = 1,
                             !.closest_t = INFINITY, !.probes = r.probes - 1]
<1>1. r \in RacingItem /\ r.pc = "hit"
  BY DEF RaceInv, Probe
<1>2. CASE r.probes = 0
  BY <1>1, <1>2, GoesOn DEF Probe
<1>3. CASE r.probes # 0
  <2>1. PICK p \in Points : Becomes(w, s(p))
    BY <1>3 DEF Probe
  <2>2. /\ s(p).pc = "shadow" /\ s(p).iter = r.iter /\ s(p).probes = r.probes - 1
        /\ s(p).list = 1 /\ s(p).i = 1
    BY <1>1 DEF RacingItem
  <2>3. item'[w] = s(p)
    BY <2>1, Takes
  <2> HIDE DEF s
  <2>4. PICK k \in Nat : k = r.probes /\ k \in 0 .. Probes /\ k # 0
    <3>1. 0 .. Probes \subseteq Nat
      BY PaceFacts
    <3>2. QED
      BY <1>3, <3>1 DEF PaceOK
  <2>5. k - 1 \in 0 .. Probes /\ 2 * (k - 1) + 2 < 2 * k + 1
    BY <2>4, PaceFacts
  <2>6. 1 \in 1 .. Len(Lists) + 1 /\ 1 \in DOMAIN Lists
    BY PaceFacts
  <2>7. 1 <= End(s(p))
    <3>1. Len(Lists[1]) \in Nat
      BY <2>6, ListsFacts
    <3>2. QED
      BY <2>2, <2>6, <3>1 DEF End
  <2>8. PaceOK(s(p))
    BY <2>2, <2>4, <2>5, <2>6, <2>7 DEF PaceOK, InScene
  <2>9. Phase(s(p)) < Phase(r)
    <3>1. Phase(s(p)) = 2 * (k - 1) + 2 /\ Phase(r) = 2 * k + 1
      BY <1>1, <2>2, <2>4 DEF Phase, InScene
    <3>2. QED
      BY <2>5, <3>1
  <2>10. Down(s(p), r)
    BY <2>2, <2>9 DEF Down
  <2>11. QED
    BY <2>3, <2>8, <2>10 DEF Progresses
<1>4. QED
  BY <1>2, <1>3

(* Every step brings a work-item closer to its end.                         *)
LEMMA WorkEnds ==
  ASSUME RaceInv, RaceInv', NEW w \in WorkItems, PaceOK(item[w]), Work(w)
  PROVE  Progresses(w)
<1>1. CASE Miss(w)
  BY <1>1, GoesOn DEF Miss, Returned
<1>2. CASE ShadowEnd(w)
  BY <1>2, GoesOn DEF ShadowEnd
<1>3. QED
  BY <1>1, <1>2, UpdateClosestEnds, ReadUnionEnds, StoreValEnds, StorePtrEnds,
     NextListEnds, FoldUnionEnds, FoldPtrEnds, HitEnds, MarchEndsOrGoesOn, ProbeEnds,
     UpdateShadowEnds, StoreShadowEnds DEF Work

AllPace == \A w \in WorkItems : PaceOK(item[w])

LEMMA StartPace == ASSUME NEW p PROVE PaceOK(Start(p))
<1> DEFINE s == Start(p)
<1>1. s.pc = "scene" /\ s.iter = 0 /\ s.probes = Probes /\ s.list = 1 /\ s.i = 1
  BY DEF Start
<1> HIDE DEF s
<1>2. /\ 0 \in 0 .. RTX_RECURSION_DEPTH - 1 /\ Probes \in 0 .. Probes
      /\ 1 \in 1 .. Len(Lists) + 1 /\ 1 \in DOMAIN Lists
  BY PaceFacts
<1>3. 1 <= End(s)
  <2>1. Len(Lists[1]) \in Nat
    BY <1>2, ListsFacts
  <2>2. QED
    BY <1>1, <1>2, <2>1 DEF End
<1>4. PaceOK(s)
  BY <1>1, <1>2, <1>3 DEF PaceOK
<1>5. QED
  BY <1>4 DEF s

(* While a work-item is not done, the guard of one of its steps holds: no   *)
(* entry of the buffer, and no step of another work-item, is waited for.    *)
Able(r) ==
  \/ r.pc \in {"store val", "store ptr", "fold ptr", "store shadow", "hit"}
  \/ r.pc \in {"scene", "shadow"} /\ r.list \in DOMAIN Lists
  \/ r.pc = "scene" /\ InUnions(r)
  \/ /\ Returned(r)
     /\ \/ r.closest_t < HIT_DISTANCE \/ r.closest_t > MISS_DISTANCE
        \/ r.closest_t \in HIT_DISTANCE .. MISS_DISTANCE
  \/ r.pc = "shadow" /\ r.list = Len(Lists) + 1

LEMMA NeverStuck ==
  ASSUME NEW r \in RacingItem, PaceOK(r), r.pc # "done"
  PROVE  Able(r)
<1>1. r.list \in DOMAIN Lists \/ r.list = Len(Lists) + 1
  <2>1. \A a \in Nat : \A b \in 1 .. a + 1 : b \in 1 .. a \/ b = a + 1
    OBVIOUS
  <2>2. QED
    BY <2>1, LenLists DEF PaceOK
<1>2. \/ r.closest_t < HIT_DISTANCE \/ r.closest_t > MISS_DISTANCE
      \/ r.closest_t \in HIT_DISTANCE .. MISS_DISTANCE
  <2>1. r.closest_t \in Int
    BY DEF RacingItem
  <2>2. QED
    BY <2>1, MarcherAssumption
<1>3. r.pc \in {"scene", "store val", "store ptr", "fold ptr", "shadow",
                "store shadow", "hit"}
  BY DEF RacingItem
<1>4. QED
  BY <1>1, <1>2, <1>3 DEF Able, Returned

LEMMA OrderIsWellFounded == IsWellFoundedOn(Shorter, [1 .. 5 -> Nat])
<1>1. IsWellFoundedOn(Smaller, Nat)
  <2>1. Smaller = OpToRel(<, Nat)
    BY DEF Smaller, OpToRel
  <2>2. QED
    BY <2>1, NatLessThanWellFounded
<1>2. 5 \in Nat
  OBVIOUS
<1>3. QED
  BY <1>1, <1>2, WFLexProductOrdering DEF Shorter

(* Every step of a work-item is a step of no other.                         *)
LEMMA OthersWait ==
  ASSUME RaceInv, NEW w \in WorkItems, Work(w)
  PROVE  \A v \in WorkItems : v # w => item'[v] = item[v]
<1>1. \E s : Becomes(w, s)
  BY DEF Work, UpdateClosest, ReadUnion, StoreVal, StorePtr, NextList, FoldUnion, FoldPtr,
     Hit, Miss, March, Probe, UpdateShadow, StoreShadow, ShadowEnd
<1>2. QED
  BY <1>1, Takes

LEMMA PaceNext ==
  ASSUME RaceInv, RaceInv', AllPace, [Next]_vars
  PROVE  AllPace'
<1>1. ASSUME NEW w \in WorkItems, Work(w) PROVE AllPace'
  <2>1. PaceOK(item'[w])
    BY <1>1, WorkEnds DEF AllPace, Progresses
  <2>2. \A v \in WorkItems : v # w => item'[v] = item[v]
    BY <1>1, OthersWait
  <2>3. \A v \in WorkItems : PaceOK(item'[v])
    BY <2>1, <2>2 DEF AllPace
  <2>4. QED
    BY <2>3 DEF AllPace
<1>2. CASE NextFrame
  <2>1. PICK start : item' = [w \in WorkItems |-> Start(start[w])]
    BY <1>2 DEF NextFrame
  <2>2. \A v \in WorkItems : PaceOK(item'[v])
    BY <2>1, StartPace
  <2>3. QED
    BY <2>2 DEF AllPace
<1>3. CASE UNCHANGED vars
  BY <1>3 DEF vars, AllPace, PaceOK, End, InScene, InUnions
<1>4. QED
  BY <1>1, <1>2, <1>3 DEF Next

LEMMA Pace == Spec => [](RaceInv /\ AllPace)
<1>1. Init => AllPace
  <2>1. Init => \E start : item = [w \in WorkItems |-> Start(start[w])]
    BY DEF Init
  <2>2. QED
    BY <2>1, StartPace DEF AllPace
<1>2. RaceInv /\ AllPace /\ [Next]_vars => (RaceInv /\ AllPace)'
  BY RaceNext, PaceNext
<1>3. QED
  BY <1>1, <1>2, RaceInit, PTL DEF Spec

(* Every ray comes to an end, whatever the scene and however the work-items *)
(* race: five whole numbers are left (iterations, distances to ask for,     *)
(* lists, figures, accesses), in a lexicographic order, which has no        *)
(* endless descent; a step of a work-item lowers its own numbers and leaves *)
(* the others'; and until it is done one of its steps is open.  MarchEnds   *)
(* adds that the GPU takes it.                                              *)
THEOREM EveryRayEnds ==
  /\ IsWellFoundedOn(Shorter, [1 .. 5 -> Nat])
  /\ Spec => [](\A w \in WorkItems : /\ Left(item[w]) \in [1 .. 5 -> Nat]
                                     /\ item[w].pc # "done" => Able(item[w]))
  /\ Spec => [][\A w \in WorkItems : Work(w) =>
                   /\ <<Left(item'[w]), Left(item[w])>> \in Shorter
                   /\ \A v \in WorkItems \ {w} : item'[v] = item[v]]_vars
<1>1. RaceInv /\ AllPace =>
        \A w \in WorkItems : /\ Left(item[w]) \in [1 .. 5 -> Nat]
                             /\ item[w].pc # "done" => Able(item[w])
  BY LeftFact, NeverStuck DEF RaceInv, AllPace
<1>2. ASSUME RaceInv, RaceInv', AllPace, NEW w \in WorkItems, Work(w)
      PROVE  /\ <<Left(item'[w]), Left(item[w])>> \in Shorter
             /\ \A v \in WorkItems \ {w} : item'[v] = item[v]
  <2>1. item[w] \in RacingItem /\ item'[w] \in RacingItem /\ PaceOK(item[w])
    BY <1>2 DEF RaceInv, AllPace
  <2>2. PaceOK(item'[w]) /\ Down(item'[w], item[w])
    BY <1>2, <2>1, WorkEnds DEF Progresses
  <2>3. QED
    BY <1>2, <2>1, <2>2, DownIsShorter, OthersWait
<1>3. (RaceInv /\ AllPace) /\ (RaceInv /\ AllPace)' =>
        [\A w \in WorkItems : Work(w) =>
           /\ <<Left(item'[w]), Left(item[w])>> \in Shorter
           /\ \A v \in WorkItems \ {w} : item'[v] = item[v]]_vars
  BY <1>2
<1>4. QED
  BY <1>1, <1>3, Pace, OrderIsWellFounded, PTL

=============================================================================

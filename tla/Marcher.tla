------------------------------ MODULE Marcher ------------------------------
(***************************************************************************)
(* The ray marcher: each work-item steps along its ray by the distance to  *)
(* the nearest figure (scene_dsf) until that is small, then takes the      *)
(* normal from distances nearby (get_normal, shadow_dsf).  Figures with a  *)
(* union number go through dsf_buffer, one entry per number, in memory     *)
(* that all work-items read and write without synchronisation and that is  *)
(* set once, by init_scene.  Each of these accesses is a step of its own.  *)
(*                                                                         *)
(* Distances are integers; where a ray leads is a free choice of points.   *)
(***************************************************************************)
EXTENDS Integers, Sequences, FiniteSets

CONSTANTS
  WorkItems,     \* the pixels rendered at the same time
  Lists,         \* the figures of each type, in scene_dsf's order of types
  UnionNum,      \* union_num of each figure
  Points,        \* the points that can be asked for a distance
  Distances,     \* what the distance functions can return
  HIT_DISTANCE, MISS_DISTANCE, INFINITY,
  RTX_RECURSION_DEPTH,
  Probes,        \* calls of shadow_dsf in get_normal
  Frames,        \* bound: runs of the kernel
  NULLPTR, Garbage

Figures == UNION {{Lists[k][i] : i \in DOMAIN Lists[k]} : k \in DOMAIN Lists}
Free == {f \in Figures : UnionNum[f] = -1}
UnionNums == {UnionNum[f] : f \in Figures} \ {-1}

ASSUME MarcherAssumption ==
  /\ Lists \in Seq(Seq(Figures)) /\ Len(Lists) > 0
  /\ UnionNum \in [Figures -> {-1} \cup Nat]
  /\ Distances \subseteq Int
  /\ HIT_DISTANCE \in Int /\ MISS_DISTANCE \in Int /\ INFINITY \in Int
  /\ \A t \in Distances : t < INFINITY
  /\ HIT_DISTANCE < MISS_DISTANCE /\ MISS_DISTANCE < INFINITY
  /\ RTX_RECURSION_DEPTH \in Nat \ {0} /\ Probes \in Nat /\ Frames \in Nat
  /\ NULLPTR \notin Figures /\ Garbage \notin Figures /\ Garbage # NULLPTR

VARIABLES
  dist,    \* the scene: the distance of each point from each figure
  buffer,  \* dsf_buffer: val and ptr, and the memory behind its end
  item,    \* the work-items
  frames   \* how often the kernel has been run again

vars == <<dist, buffer, item, frames>>

(* The buffer has an entry for each number the parser has seen.             *)
dsf_buffer_size == Cardinality(UnionNums)

Start(p) ==
  [pc |-> "scene", point |-> p, iter |-> 0, list |-> 1, i |-> 1,
   closest_t |-> INFINITY, closest_obj |-> Garbage, obj_type |-> Garbage,
   read |-> 0, probes |-> Probes, result |-> NULLPTR, place |-> p]

(* An entry behind the end is whatever the memory there held.               *)
Init ==
  /\ dist \in [Figures -> [Points -> Distances]]
  /\ \E outside \in [val : {0, INFINITY}, ptr : {NULLPTR, Garbage}] :
       buffer = [u \in UnionNums \cup 0 .. dsf_buffer_size - 1 |->
                  IF u < dsf_buffer_size THEN [val |-> 0, ptr |-> NULLPTR]
                  ELSE outside]
  /\ \E start \in [WorkItems -> Points] : item = [w \in WorkItems |-> Start(start[w])]
  /\ frames = 0

-----------------------------------------------------------------------------
Becomes(w, r) ==
  /\ item' = [item EXCEPT ![w] = r]
  /\ UNCHANGED <<dist, frames>>

InList(r) == r.list \in DOMAIN Lists /\ r.i \in DOMAIN Lists[r.list]
Fig(r) == Lists[r.list][r.i]
Dist(r) == dist[Fig(r)][r.point]

(* The end of a loop's body: a figure that is hit ends the loop.            *)
(* Mutant: any figure that is found ends the loop.                          *)
NextFigure_BreaksEarly(r) ==
  IF r.closest_t < INFINITY THEN [r EXCEPT !.i = Len(Lists[r.list]) + 1]
  ELSE [r EXCEPT !.i = r.i + 1]
NextFigure(r) ==
  IF r.closest_t < HIT_DISTANCE THEN [r EXCEPT !.i = Len(Lists[r.list]) + 1]
  ELSE [r EXCEPT !.i = r.i + 1]

(* update_closest_t, for a figure that is in no union.                      *)
(* Mutant: the type is not recorded with the object.                        *)
Closer_NoType(r) ==
  IF Dist(r) < r.closest_t
  THEN [r EXCEPT !.closest_t = Dist(r), !.closest_obj = Fig(r)]
  ELSE r
Closer(r) ==
  IF Dist(r) < r.closest_t
  THEN [r EXCEPT !.closest_t = Dist(r), !.closest_obj = Fig(r), !.obj_type = r.list]
  ELSE r

UpdateClosest(w) ==
  LET r == item[w] IN
  /\ r.pc = "scene" /\ InList(r)
  /\ UnionNum[Fig(r)] = -1
  /\ Becomes(w, NextFigure(Closer(r)))
  /\ UNCHANGED buffer

(* update_closest_t, for a figure in a union: val is read, then val and ptr *)
(* are written if this figure is farther.                                   *)
ReadUnion(w) ==
  LET r == item[w] IN
  /\ r.pc = "scene" /\ InList(r)
  /\ UnionNum[Fig(r)] # -1
  /\ Becomes(w, IF Dist(r) > buffer[UnionNum[Fig(r)]].val
                THEN [r EXCEPT !.pc = "store val"] ELSE NextFigure(r))
  /\ UNCHANGED buffer

StoreVal(w) ==
  LET r == item[w] IN
  /\ r.pc = "store val"
  /\ buffer' = [buffer EXCEPT ![UnionNum[Fig(r)]].val = Dist(r)]
  /\ Becomes(w, [r EXCEPT !.pc = "store ptr"])

StorePtr(w) ==
  LET r == item[w] IN
  /\ r.pc = "store ptr"
  /\ buffer' = [buffer EXCEPT ![UnionNum[Fig(r)]].ptr = Fig(r)]
  /\ Becomes(w, NextFigure([r EXCEPT !.pc = "scene"]))

(* The next of the loops, and after them the one over the unions. *)
NextList(w) ==
  LET r == item[w] IN
  /\ r.pc \in {"scene", "shadow"} /\ r.list \in DOMAIN Lists
  /\ r.i \notin DOMAIN Lists[r.list]
  /\ Becomes(w, [r EXCEPT !.list = r.list + 1,
                          !.i = IF r.list = Len(Lists) THEN 0 ELSE 1])
  /\ UNCHANGED buffer

(* From here on i is the entry of the buffer. *)
InUnions(r) == r.list = Len(Lists) + 1 /\ r.i < dsf_buffer_size

FoldUnion(w) ==
  LET r == item[w] IN
  /\ r.pc = "scene" /\ InUnions(r)
  /\ Becomes(w, IF buffer[r.i].val < r.closest_t
                THEN [r EXCEPT !.closest_t = buffer[r.i].val, !.pc = "fold ptr"]
                ELSE [r EXCEPT !.i = r.i + 1])
  /\ UNCHANGED buffer

(* Mutant: a union that is nearer leaves the object as it was. *)
Found_Kept(r) == r.closest_obj
Found(r) == buffer[r.i].ptr

FoldPtr(w) ==
  LET r == item[w] IN
  /\ r.pc = "fold ptr"
  /\ Becomes(w, [r EXCEPT !.closest_obj = Found(r), !.i = r.i + 1,
                          !.pc = "scene"])
  /\ UNCHANGED buffer

-----------------------------------------------------------------------------
(* closest_intersection_rmc, with the distance scene_dsf returned. *)
Returned(r) == r.pc = "scene" /\ r.list = Len(Lists) + 1 /\ ~InUnions(r)

(* An object is shaded, which takes shadow_dsf around the point. *)
Hit(w) ==
  LET r == item[w] IN
  /\ Returned(r) /\ r.closest_t < HIT_DISTANCE
  /\ Becomes(w, [r EXCEPT !.result = r.closest_obj, !.place = r.point,
                          !.pc = IF r.closest_obj = NULLPTR THEN "done" ELSE "hit"])
  /\ UNCHANGED buffer

Miss(w) ==
  LET r == item[w] IN
  /\ Returned(r) /\ r.closest_t > MISS_DISTANCE
  /\ Becomes(w, [r EXCEPT !.pc = "done"])
  /\ UNCHANGED buffer

(* Mutant: the iteration is not counted. *)
Counted_Not(r) == 0
Counted(r) == r.iter + 1

March(w) ==
  LET r == item[w] IN
  /\ Returned(r) /\ r.closest_t \in HIT_DISTANCE .. MISS_DISTANCE
  /\ IF Counted(r) < RTX_RECURSION_DEPTH
     THEN \E p \in Points : Becomes(w, [Start(p) EXCEPT !.iter = Counted(r)])
     ELSE Becomes(w, [r EXCEPT !.pc = "done"])
  /\ UNCHANGED buffer

(* get_normal: shadow_dsf at a point nearby, until all have been asked.     *)
Probe(w) ==
  LET r == item[w] IN
  /\ r.pc = "hit"
  /\ IF r.probes = 0 THEN Becomes(w, [r EXCEPT !.pc = "done"])
     ELSE \E p \in Points :
            Becomes(w, [r EXCEPT !.pc = "shadow", !.point = p, !.list = 1, !.i = 1,
                                 !.closest_t = INFINITY, !.probes = r.probes - 1])
  /\ UNCHANGED buffer

(* update_shadow_t: val becomes the larger of itself and the distance.      *)
UpdateShadow(w) ==
  LET r == item[w] IN
  /\ r.pc = "shadow" /\ InList(r)
  /\ IF UnionNum[Fig(r)] = -1
     THEN Becomes(w, NextFigure([r EXCEPT !.closest_t =
                                   IF Dist(r) < @ THEN Dist(r) ELSE @]))
     ELSE Becomes(w, [r EXCEPT !.pc = "store shadow",
                               !.read = buffer[UnionNum[Fig(r)]].val])
  /\ UNCHANGED buffer

StoreShadow(w) ==
  LET r == item[w] IN
  /\ r.pc = "store shadow"
  /\ buffer' = [buffer EXCEPT ![UnionNum[Fig(r)]].val =
                  IF Dist(r) > r.read THEN Dist(r) ELSE r.read]
  /\ Becomes(w, NextFigure([r EXCEPT !.pc = "shadow"]))

(* The unions only change the distance, and that only the normal. *)
ShadowEnd(w) ==
  LET r == item[w] IN
  /\ r.pc = "shadow" /\ r.list = Len(Lists) + 1
  /\ Becomes(w, [r EXCEPT !.pc = "hit"])
  /\ UNCHANGED buffer

(* framehook runs the kernel again; the buffer keeps what it has. *)
NextFrame ==
  /\ \A w \in WorkItems : item[w].pc = "done"
  /\ frames < Frames
  /\ frames' = frames + 1
  /\ \E start \in [WorkItems -> Points] : item' = [w \in WorkItems |-> Start(start[w])]
  /\ UNCHANGED <<dist, buffer>>

Work(w) ==
  \/ UpdateClosest(w) \/ ReadUnion(w) \/ StoreVal(w) \/ StorePtr(w)
  \/ NextList(w) \/ FoldUnion(w) \/ FoldPtr(w)
  \/ Hit(w) \/ Miss(w) \/ March(w)
  \/ Probe(w) \/ UpdateShadow(w) \/ StoreShadow(w) \/ ShadowEnd(w)

Next == (\E w \in WorkItems : Work(w)) \/ NextFrame

Spec == Init /\ [][Next]_vars

(* The GPU executes every work-item it has started. *)
FairSpec == Spec /\ \A w \in WorkItems : WF_vars(Work(w))

-----------------------------------------------------------------------------
(* "min(a, b, c, max(d, e, f), g, max(h, i))", marcher.cl:54: the terms of  *)
(* the minimum are the free figures, and the farthest of each union.        *)
Members(u) == {f \in Figures : UnionNum[f] = u}

Farthest(u, p) ==
  CHOOSE t \in {dist[f][p] : f \in Members(u)} :
    \A f \in Members(u) : dist[f][p] <= t

Terms(p) == {dist[f][p] : f \in Free} \cup {Farthest(u, p) : u \in UnionNums}

(* What scene_dsf returns is that minimum, though its loops stop at the     *)
(* first figure that is hit: it is always one of the terms, and the least   *)
(* of them unless the ray has arrived anyway.                               *)
DistanceIsMin ==
  \A w \in WorkItems : Returned(item[w]) =>
    LET t == item[w].closest_t IN
    /\ t \in Terms(item[w].point) \cup {INFINITY}
    /\ t >= HIT_DISTANCE => \A s \in Terms(item[w].point) : t <= s

(* A ray ends on an object that is there: closest_intersection_rmc returns  *)
(* a figure that is hit at the point it returns, of the type it returns -   *)
(* object_at_pos casts by that type - in a scene without unions.            *)
HitIsReal ==
  UnionNums = {} =>
    \A w \in WorkItems : item[w].result # NULLPTR =>
      LET r == item[w] IN
      /\ r.result \in Figures
      /\ dist[r.result][r.place] < HIT_DISTANCE
      /\ r.obj_type \in DOMAIN Lists
      /\ \E i \in DOMAIN Lists[r.obj_type] : Lists[r.obj_type][i] = r.result

(* However the work-items race, an entry points to a member of its union,   *)
(* and no ray ends on a pointer that nothing has set.                       *)
PointersAreSet ==
  /\ \A u \in 0 .. dsf_buffer_size - 1 : buffer[u].ptr \in Members(u) \cup {NULLPTR}
  /\ \A w \in WorkItems : item[w].result # Garbage

(* Every ray comes to an end, however the scene misleads it. *)
MarchEnds == \A w \in WorkItems : (item[w].pc # "done") ~> (item[w].pc = "done")

=============================================================================

------------------------------ MODULE RayTracer ------------------------------
(***************************************************************************)
(* The ray tracer: one work-item computes one pixel.  A ray that hits a    *)
(* glossy figure enqueues a reflected ray at 2i and a refracted one at     *)
(* 2i + 1 of five arrays on its stack; rays from RECURSION_DEPTH / 2 on    *)
(* have no children, yet still set their flags, behind the end of          *)
(* ray_enqueued.  What lies there is the compiler's choice: `behind'.      *)
(* Built without RTX_TRANSPARENCY the ray only bounces, and the scalars of *)
(* that variant are element 1 of the arrays here.                          *)
(*                                                                         *)
(* Each figure tested is a step, and the line it is met along is chosen    *)
(* then.  Positions are named by the ray whose hit point they are, 0 being *)
(* the camera; weights are whole numbers, Full for the primary ray.        *)
(***************************************************************************)
EXTENDS Intersections, Sequences

CONSTANTS
  Figures,          \* the scene's figures, in the order of the kernel's loops:
                    \* type, reflective and transparency
  Lights,           \* the types of the scene's lights
  Lines,            \* the lines along which a type of figure can be met
  LightDistances,   \* how far a point light can be
  Builds,           \* flags passed to the compiler of the kernel
  Layouts,          \* what can lie behind ray_enqueued on the stack
  RECURSION_DEPTH,  \* rays 1 .. RECURSION_DEPTH - 1 with RTX_TRANSPARENCY
  BOUNCES,          \* rays without it
  Unit,             \* reflective and transparency are multiples of 1 / Unit,
                    \* and EPS is one such part
  Full,             \* the weight of the primary ray, divisible often enough
  Garbage           \* an element never written, or overwritten

\* sizeof(FLOAT) and sizeof(FLOAT3) in elements of ray_enqueued.
CELLS == [prod |-> 2, dir |-> 8, pos |-> 8, col |-> 8]

Objects == 1 .. Len(Figures)
PointLights == {l \in DOMAIN Lights : Lights[l] = "POINT"}

\* An element of ray_queue_col, by what was added to it: the weight of the figures'
\* colours, how often each light blinded, and whether the sum is infinite or NaN.
ColourSums == [share : Int, glare : [PointLights -> Nat], white : BOOLEAN]

ASSUME RayTracerAssumption ==
  /\ Figures \in Seq([type : {TypeOrder[k] : k \in 1..6},
                      reflective : 0..Unit, transparency : 0..Unit])
  /\ \A i, j \in 1 .. Len(Figures) : i <= j =>
        \E m, n \in 1..6 : /\ m <= n /\ TypeOrder[m] = Figures[i].type
                           /\ TypeOrder[n] = Figures[j].type
  /\ Lights \in Seq({"AMBIENT", "POINT", "DIRECT"})
  /\ \A i \in 1 .. Len(Figures) :
        Lines[Figures[i].type] \subseteq LinesOf(Figures[i].type)
  /\ LightDistances \subseteq {d \in Distance : d > EPS}
  /\ Builds \subseteq [transparency : BOOLEAN, refractive : BOOLEAN, direct : BOOLEAN]
  /\ Layouts \subseteq {"prod", "dir", "pos", "col", "dead"}
  /\ RECURSION_DEPTH \in Nat /\ RECURSION_DEPTH % 2 = 0 /\ RECURSION_DEPTH > 2
  /\ BOUNCES \in Nat \ {0}
  /\ Unit \in Nat /\ Unit > 2 /\ Full \in Nat
  /\ Garbage \notin Int /\ Garbage \notin [from : Nat, nan : BOOLEAN]
  /\ Garbage \notin ColourSums /\ Garbage \notin [ray : Nat, of : Nat]

VARIABLES
  build,        \* the flags, and what lies behind ray_enqueued
  behind,
  pc,           \* what the work-item does next
  current_ray,  \* the ray; without RTX_TRANSPARENCY the bounce
  enqueued,     \* ray_enqueued
  pos, dir,     \* ray_queue_pos, ray_queue_dir
  prod,         \* reflective_prod
  col,          \* ray_queue_col
  search,       \* closest_intersection_rtx
  shadow,       \* compute_lightning_rtx and its shadow_intersection
  lit           \* the lights no figure hides from the point; the angle at which
                \* they meet it is left out

vars == <<build, behind, pc, current_ray, enqueued, pos, dir, prod, col,
          search, shadow, lit>>
arrays == <<enqueued, pos, dir, prod, col>>

Rays == 0 .. RECURSION_DEPTH - 1
Black == [share |-> 0, glare |-> [l \in PointLights |-> 0], white |-> FALSE]

\* nearest is the model's own: the least crossing of the figures tested.
NoSearch == [i |-> 1, closest_t |-> INFINITY, closest_obj |-> 0,
             closest_type |-> Garbage, param |-> Garbage, nearest |-> INFINITY]

\* between is the model's own: a figure tested is crossed before the light.
NoShadow == [light |-> 1, i |-> 1, end |-> 0, between |-> FALSE]

\* What the functions keep is gone when they return; param outlives the ray.
Forget == /\ search' = [NoSearch EXCEPT !.param = search.param]
          /\ shadow' = NoShadow
          /\ lit' = {}

\* The element of the arrays the current ray is kept in.
Slot == IF build.transparency THEN current_ray ELSE 1

Init ==
  /\ build \in Builds
  /\ behind \in Layouts
  /\ pc = "ray"
  /\ current_ray = 1
  /\ enqueued = [k \in Rays |-> IF k = 1 THEN 1 ELSE 0]
  /\ pos = [k \in Rays |-> IF k = 1 THEN 0 ELSE Garbage]
  /\ dir = [k \in Rays |-> IF k = 1 THEN [from |-> 0, nan |-> FALSE] ELSE Garbage]
  /\ prod = [k \in Rays |-> IF k = 1 THEN Full ELSE Garbage]
  /\ col = [k \in Rays |-> IF ~build.transparency /\ k = 1 THEN Black ELSE Garbage]
  /\ search = NoSearch
  /\ shadow = NoShadow
  /\ lit = {}

-----------------------------------------------------------------------------
(* The head of the loop over the rays.                                      *)

\* Mutant: the counter of bounces is tested before it is decremented.
RayLimit == IF build.transparency THEN RECURSION_DEPTH ELSE BOUNCES + 1

BeginRay(enq) ==
  /\ pc = "ray"
  /\ current_ray < RayLimit
  /\ col' = IF build.transparency THEN [col EXCEPT ![current_ray] = Black] ELSE col
  /\ IF build.transparency /\ enq = 0
     THEN current_ray' = current_ray + 1 /\ UNCHANGED pc
     ELSE pc' = "search" /\ UNCHANGED current_ray
  /\ UNCHANGED <<build, behind, enqueued, pos, dir, prod, search, shadow, lit>>

\* Mutant: every ray of the queue is traced, enqueued or not.
NextRay_IgnoresFlag == BeginRay(1)
NextRay == BeginRay(enqueued[current_ray])

-----------------------------------------------------------------------------
(* closest_intersection_rtx: one figure after the other.                    *)

LinesMet(nan, type) == IF nan THEN {NaNLine(type)} ELSE Lines[type]

\* Neither skipped by `t < start || t > end' nor farther than the closest.
\* Mutant: skipped only if it is not closer, which no NaN is.
Closer_TakesNaN(t, closest) == ~Lt(t, EPS) /\ ~Lt(INFINITY, t) /\ ~Lt(closest, t)
Closer(t, closest) == ~Lt(t, EPS) /\ ~Lt(INFINITY, t) /\ Lt(t, closest)

LeastOf(C, x) == IF \E c \in C : c < x
                 THEN CHOOSE c \in C : \A d \in C : c <= d ELSE x

\* A cone stores its normal before t is compared, a torus when it is taken.
\* Mutant: a torus stores it as a cone does.
Param_Always(type, line, taken) == (type = "CONE" /\ WritesConeParam(line)) \/ type = "TOR"
Param(type, line, taken) == \/ type = "CONE" /\ WritesConeParam(line)
                            \/ type = "TOR" /\ taken

TestFigure ==
  /\ pc = "search" /\ search.i \in Objects
  /\ LET type == Figures[search.i].type IN
     \E line \in LinesMet(dir[Slot].nan, type) :
       LET t == Intersect(type, line)
           taken == Closer(t, search.closest_t)
       IN search' =
            [i |-> search.i + 1,
             closest_t |-> IF taken THEN t ELSE search.closest_t,
             closest_obj |-> IF taken THEN search.i ELSE search.closest_obj,
             closest_type |-> IF taken THEN type ELSE search.closest_type,
             param |-> IF Param(type, line, taken)
                       THEN [ray |-> current_ray, of |-> search.i] ELSE search.param,
             nearest |-> LeastOf(Crossings(type, line), search.nearest)]
  /\ UNCHANGED <<build, behind, pc, current_ray, arrays, shadow, lit>>

\* compute_direct_lightning: a point light ahead of the ray, with nothing between
\* it and where the ray ends, blinds.  Of a NaN ray every point light does.
Blinding == IF ~build.direct THEN {{}}
            ELSE IF dir[Slot].nan THEN {PointLights} ELSE SUBSET PointLights

\* Their glare is added whatever the ray weighs.  It is divided by the distance of
\* light and ray: 0 of a ray aimed at the light, NaN of a NaN ray.
Glare(c, lights, aimed) ==
  [c EXCEPT !.glare = [l \in PointLights |-> @[l] + IF l \in lights THEN 1 ELSE 0],
            !.white = @ \/ (lights # {} /\ (dir[Slot].nan \/ aimed))]

Blind == \E lights \in Blinding, aimed \in BOOLEAN :
           col' = [col EXCEPT ![Slot] = Glare(@, lights, aimed)]

Miss ==
  /\ pc = "search" /\ search.i \notin Objects /\ search.closest_obj = 0
  /\ Blind
  /\ IF build.transparency
     THEN pc' = "ray" /\ current_ray' = current_ray + 1
     ELSE pc' = "sum" /\ UNCHANGED current_ray
  /\ Forget
  /\ UNCHANGED <<build, behind, enqueued, pos, dir, prod>>

Hit ==
  /\ pc = "search" /\ search.i \notin Objects /\ search.closest_obj # 0
  /\ Blind
  /\ pos' = [pos EXCEPT ![Slot] = current_ray]
  /\ pc' = "light"
  /\ search' = [search EXCEPT !.closest_t = INFINITY, !.nearest = INFINITY]
  /\ UNCHANGED <<build, behind, current_ray, enqueued, dir, prod, shadow, lit>>

-----------------------------------------------------------------------------
(* compute_lightning_rtx: light after light, and shadow_intersection.       *)

AmbientLight ==
  /\ pc = "light" /\ shadow.light \in DOMAIN Lights
  /\ Lights[shadow.light] = "AMBIENT"
  /\ lit' = lit \cup {shadow.light}
  /\ shadow' = [shadow EXCEPT !.light = @ + 1]
  /\ UNCHANGED <<build, behind, pc, current_ray, arrays, search>>

SeekLight ==
  /\ pc = "light" /\ shadow.light \in DOMAIN Lights
  /\ Lights[shadow.light] # "AMBIENT"
  /\ \E end \in IF Lights[shadow.light] = "POINT" THEN LightDistances ELSE {INFINITY} :
       shadow' = [light |-> shadow.light, i |-> 1, end |-> end, between |-> FALSE]
  /\ pc' = "shadow"
  /\ UNCHANGED <<build, behind, current_ray, arrays, search, lit>>

\* Mutant: a figure behind the light hides it.
Hides_AnyFigure(t, end) == Lt(EPS, t) /\ Lt(t, INFINITY)
Hides(t, end) == Lt(EPS, t) /\ Lt(t, end)

TestShadow ==
  /\ pc = "shadow" /\ shadow.i \in Objects
  /\ LET type == Figures[shadow.i].type IN
     \E line \in Lines[type] :
       LET crossed == shadow.between \/ \E x \in Crossings(type, line) : x < shadow.end
       IN IF Hides(Intersect(type, line), shadow.end)
          THEN /\ pc' = "light"
               /\ shadow' = [light |-> shadow.light + 1, i |-> 1,
                              end |-> shadow.end, between |-> crossed]
          ELSE /\ shadow' = [light |-> shadow.light, i |-> shadow.i + 1,
                              end |-> shadow.end, between |-> crossed]
               /\ UNCHANGED pc
  /\ UNCHANGED <<build, behind, current_ray, arrays, search, lit>>

\* The light is added only if it also meets the surface from in front: `lit' leaves
\* that out, and says only that no figure is in between.
NotHidden ==
  /\ pc = "shadow" /\ shadow.i \notin Objects
  /\ lit' = lit \cup {shadow.light}
  /\ shadow' = [shadow EXCEPT !.light = @ + 1]
  /\ pc' = "light"
  /\ UNCHANGED <<build, behind, current_ray, arrays, search>>

-----------------------------------------------------------------------------
(* The end of the loop's body: the colour, and the rays that follow.        *)

refl == Figures[search.closest_obj].reflective
trans == Figures[search.closest_obj].transparency
ONE == Unit - 1
Part(w, a, b) == (w * a * b) \div (Unit * Unit)

Spreads == ~(current_ray >= RECURSION_DEPTH \div 2 \/ (refl < 1 /\ trans < 1))

\* What the light arriving along each way is worth.
\* Mutant: the figure's own colour is not weakened by its transparency.
OwnShare_KeepsTransparency(w) == Part(w, Unit - refl, Unit)
OwnShare(w) == Part(w, ONE - refl, ONE - trans)
ReflectedShare(w) == Part(w, refl, ONE - trans)
RefractedShare(w) == Part(w, ONE - refl, trans)

\* refract_ray_slow divides by sin_a and takes the root of 1 - sin_b^2.
Refractions == IF build.refractive THEN BOOLEAN ELSE {FALSE}

Enqueues == (IF trans > 1 THEN {2 * current_ray + 1} ELSE {})
            \cup (IF refl > 1 THEN {2 * current_ray} ELSE {})

\* The elements of the array behind ray_enqueued that these flags overwrite.  Behind
\* it lies one of the other arrays or nothing still read ("dead"): the scalars of the
\* loop, current_ray and _color, are taken to be kept in registers.
Damaged(array) ==
  IF behind # array THEN {}
  ELSE {e \in Rays : \E k \in Enqueues \ Rays :
          /\ CELLS[array] * e <= k - RECURSION_DEPTH
          /\ k - RECURSION_DEPTH < CELLS[array] * (e + 1)}

Overwrite(f, array) == [k \in Rays |-> IF k \in Damaged(array) THEN Garbage ELSE f[k]]

Shade ==
  /\ pc = "light" /\ shadow.light \notin DOMAIN Lights
  /\ build.transparency
  /\ LET i == current_ray
         w == prod[i]
     IN IF Spreads
        THEN /\ \E stray \in Refractions :
                  dir' = Overwrite([dir EXCEPT
                           ![2*i] = [from |-> i, nan |-> FALSE],
                           ![2*i + 1] = [from |-> i, nan |-> stray]], "dir")
             /\ prod' = Overwrite([prod EXCEPT ![2*i] = ReflectedShare(w),
                                               ![2*i + 1] = RefractedShare(w)], "prod")
             /\ pos' = Overwrite([pos EXCEPT ![2*i] = pos[i], ![2*i + 1] = pos[i]], "pos")
             /\ col' = Overwrite([col EXCEPT ![i].share = @ + OwnShare(w)], "col")
        ELSE /\ dir' = Overwrite(dir, "dir")
             /\ prod' = Overwrite(prod, "prod")
             /\ pos' = Overwrite(pos, "pos")
             /\ col' = Overwrite([col EXCEPT ![i].share = @ + w], "col")
  /\ enqueued' = [k \in Rays |-> IF k \in Enqueues THEN 1 ELSE enqueued[k]]
  /\ pc' = "ray"
  /\ current_ray' = current_ray + 1
  /\ Forget
  /\ UNCHANGED <<build, behind>>

\* Without RTX_TRANSPARENCY: the last bounce keeps what a mirror would take.
Bounce ==
  /\ pc = "light" /\ shadow.light \notin DOMAIN Lights
  /\ ~build.transparency
  /\ LET w == prod[1] IN
     /\ col' = [col EXCEPT ![1].share =
                  @ + IF current_ray = BOUNCES THEN w ELSE Part(w, Unit - refl, Unit)]
     /\ prod' = [prod EXCEPT ![1] = Part(w, refl, Unit)]
  /\ dir' = [dir EXCEPT ![1] = [from |-> current_ray, nan |-> FALSE]]
  /\ pc' = "ray"
  /\ current_ray' = current_ray + 1
  /\ Forget
  /\ UNCHANGED <<build, behind, enqueued, pos>>

\* The colours are added up, and fmin makes a NaN white.
Sum ==
  /\ \/ pc = "sum"
     \/ pc = "ray" /\ current_ray = RayLimit
  /\ pc' = "done"
  /\ UNCHANGED <<build, behind, current_ray, arrays, search, shadow, lit>>

Returned == pc = "done" /\ UNCHANGED vars

Next == \/ NextRay \/ TestFigure \/ Miss \/ Hit
        \/ AmbientLight \/ SeekLight \/ TestShadow \/ NotHidden
        \/ Shade \/ Bounce \/ Sum \/ Returned

Spec == Init /\ [][Next]_vars
-----------------------------------------------------------------------------
(* Properties.                                                              *)

Begun == {k \in Rays : 1 <= k /\ k <= Slot}
Parent == IF build.transparency THEN current_ray \div 2 ELSE current_ray - 1

Weights == Int \cup {Garbage}
Directions == [from : Nat, nan : BOOLEAN] \cup {Garbage}
Colours == ColourSums \cup {Garbage}
Params == [ray : Nat, of : Objects] \cup {Garbage}
Searches == [i : 1 .. Len(Figures) + 1, closest_t : Int, closest_obj : Objects \cup {0},
             closest_type : {TypeOrder[k] : k \in 1..6} \cup {Garbage},
             param : Params, nearest : Int]
Shadows == [light : Nat \ {0}, i : 1 .. Len(Figures) + 1, end : Int, between : BOOLEAN]

(* The work-item never leaves its arrays nor the lists of the scene.        *)
TypeOK ==
  /\ build \in Builds /\ behind \in Layouts
  /\ pc \in {"ray", "search", "light", "shadow", "sum", "done"}
  /\ current_ray \in 1 .. IF build.transparency THEN RECURSION_DEPTH ELSE BOUNCES + 1
  /\ pc \in {"search", "light", "shadow", "sum"} => Slot \in Rays
  /\ enqueued \in [Rays -> {0, 1}]
  /\ pos \in [Rays -> Nat \cup {Garbage}] /\ dir \in [Rays -> Directions]
  /\ prod \in [Rays -> Weights] /\ col \in [Rays -> Colours]
  /\ search \in Searches /\ shadow \in Shadows
  /\ shadow.light \in 1 .. Len(Lights) + 1
  /\ pc = "shadow" => shadow.light \in DOMAIN Lights
  /\ lit \subseteq DOMAIN Lights

(* A ray that is traced has a position, a direction and a weight, and they  *)
(* are those its parent's hit point gave it: whichever of the arrays lies   *)
(* behind the end of ray_enqueued, the flags written there reach only rays  *)
(* already traced; of what is still read, only the colour of the first rays *)
(* can be lost.                                                             *)
RaysHaveData ==
  /\ pc \in {"search", "light", "shadow"} =>
       /\ Garbage \notin {prod[Slot], dir[Slot], pos[Slot], col[Slot]}
       /\ dir[Slot].from = Parent
       /\ pos[Slot] = IF pc = "search" THEN Parent ELSE current_ray
  /\ \A k \in Begun : k < Slot /\ col[k] = Garbage =>
       behind = "col" /\ CELLS.col * k < RECURSION_DEPTH

(* The search has the nearest crossing of the figures tested so far, and    *)
(* the figure and type that belong to it.                                   *)
NearestIsFound ==
  pc = "search" =>
    /\ search.closest_t = search.nearest
    /\ search.closest_obj = 0 <=> search.nearest = INFINITY
    /\ search.closest_obj # 0 =>
         search.closest_type = Figures[search.closest_obj].type

(* The normal a hit is shaded with was stored for this ray, by the torus    *)
(* that was hit; for a cone, by this cone or by one tested after it.        *)
NormalOfHit ==
  pc \in {"light", "shadow"} =>
    /\ search.closest_type \in {"CONE", "TOR"} =>
         /\ search.param # Garbage
         /\ search.param.ray = current_ray
         /\ Figures[search.param.of].type = search.closest_type
         /\ search.closest_obj <= search.param.of
    /\ search.closest_type = "TOR" => search.param.of = search.closest_obj

(* A light lights a point exactly when no figure is crossed between the two.*)
LitIffVisible ==
  pc = "light" /\ shadow.light > 1 /\ Lights[shadow.light - 1] # "AMBIENT" =>
    (shadow.light - 1 \in lit <=> ~shadow.between)

(* A refracted ray without a direction hits nothing and gives the pixel no  *)
(* colour of a figure; it makes it white exactly if the glare of RTX_DIRECT *)
(* is compiled in and there is a point light.                               *)
StrayRaysAreDark ==
  /\ pc \in {"light", "shadow"} => ~dir[Slot].nan
  /\ \A k \in Begun : dir[k] # Garbage /\ dir[k].nan /\ col[k] # Garbage =>
       /\ col[k].share = 0
       /\ k < Slot /\ enqueued[k] = 1 =>
            (col[k].white <=> build.direct /\ PointLights # {})

\* The weight the figures' colours have in the rays begun, but for what is lost, and
\* its sum over the rays.
Light == [k \in Rays |-> IF k \in Begun /\ col[k] # Garbage THEN col[k].share ELSE 0]
Total(f) == LET sum[k \in Rays] == IF k = 0 THEN 0 ELSE sum[k - 1] + f[k]
            IN  sum[RECURSION_DEPTH - 1]

\* How many rays have added their glare to an element so far, at the most.
Blinded(k) == IF ~build.direct THEN 0
              ELSE IF build.transparency THEN enqueued[k] ELSE current_ray

(* The colours of all figures a pixel shows weigh no more than the primary  *)
(* ray does, and none weighs less than none, unless a figure reflects or     *)
(* lets pass more than ONE.  The glare of RTX_DIRECT is beyond that bound:   *)
(* it is added unweighted, secondary rays' too, but only by rays that were   *)
(* enqueued, and by each once for each point light.                          *)
LightIsAccounted ==
  /\ Total(Light) <= Full
  /\ (\A i \in Objects : Figures[i].reflective <= ONE /\ Figures[i].transparency <= ONE)
       => \A k \in Begun : col[k] # Garbage => col[k].share >= 0
  /\ \A k \in Begun, l \in PointLights :
       col[k] # Garbage => col[k].glare[l] <= Blinded(k)
=============================================================================

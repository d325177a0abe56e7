---------------------------- MODULE Intersections ----------------------------
(***************************************************************************)
(* Where a ray meets each type of figure: the selection of a root that     *)
(* src/cl/tracer.cl and src/cl/algo.h make once the coefficients of the    *)
(* equation are known.  The algebra itself (dot products, square roots) is *)
(* abstracted: a "line" is what it yields for one ray and one figure.      *)
(*                                                                         *)
(*   sphere, cone  real: the discriminant passes; x1, x2: the two roots    *)
(*   cylinder      the same; infinite: the height is INFINITY; in1, in2:   *)
(*                 root x1 (x2), as computed, is within the height         *)
(*   plane         t: the quotient                                         *)
(*   triangle      t: the quotient; inside: its point passes the test      *)
(*   torus         near: the ray meets the bounding sphere; allReal: the   *)
(*                 resolvent cubic has three real roots; cubic: these      *)
(*                 roots; re, im: the four roots of the quartic            *)
(*                                                                         *)
(* Distances along the ray are integers, as only their order matters.      *)
(***************************************************************************)
EXTENDS Integers

CONSTANTS EPS,        \* the least distance at which a crossing counts
          INFINITY,   \* farther than every crossing
          NaN         \* the number that compares with nothing

ASSUME NumbersAssumption ==
    /\ EPS \in Nat \ {0}
    /\ INFINITY \in Int /\ INFINITY > EPS
    /\ NaN \in Int /\ NaN # INFINITY /\ NaN # EPS /\ NaN # 0

\* Comparison of floating point numbers: false as soon as one is NaN.
Lt(a, b) == a # NaN /\ b # NaN /\ a < b

\* fmin and fmax of OpenCL: a NaN is ignored in favour of the other operand.
fmin(a, b) == IF a = NaN THEN b ELSE IF Lt(b, a) THEN b ELSE a
fmax(a, b) == IF a = NaN THEN b ELSE IF Lt(a, b) THEN b ELSE a
fabs(a) == IF Lt(a, 0) THEN -a ELSE a

\* The nearer root, or the farther one when the nearer lies behind.
NearRoot(l) == IF Lt(fmin(l.x1, l.x2), EPS)
               THEN fmax(l.x1, l.x2) ELSE fmin(l.x1, l.x2)

intersect_sphere(l) == IF l.real THEN NearRoot(l) ELSE INFINITY

intersect_plane(l) == l.t

intersect_triangle(l) == IF l.inside THEN l.t ELSE INFINITY

intersect_cone(l) == IF l.real THEN NearRoot(l) ELSE INFINITY

\* The cone's normal is stored for every line that meets it, hit or not.
WritesConeParam(l) == l.real

\* Mutant: the roots are not put in order.
intersect_cylinder_Unordered(l) ==
    IF ~l.real THEN INFINITY
    ELSE IF l.infinite \/ l.in1 THEN l.x1
    ELSE IF l.in2 THEN l.x2 ELSE INFINITY
intersect_cylinder(l) ==
    LET swap == Lt(l.x2, l.x1) /\ Lt(EPS, l.x2)
        x1  == IF swap THEN l.x2 ELSE l.x1
        x2  == IF swap THEN l.x1 ELSE l.x2
        in1 == IF swap THEN l.in2 ELSE l.in1
        in2 == IF swap THEN l.in1 ELSE l.in2
    IN  IF ~l.real THEN INFINITY
        ELSE IF l.infinite \/ in1 THEN x1
        ELSE IF in2 THEN x2 ELSE INFINITY

\* Of three real roots, the two that are largest in absolute value.
cubic_complex_solve(x) ==
    LET a == IF Lt(fabs(x[3]), fabs(x[1])) THEN <<x[3], x[2], x[1]>> ELSE x
        b == IF Lt(fabs(a[2]), fabs(a[1])) THEN <<a[2], a[1], a[3]>> ELSE a
    IN  <<b[2], b[3]>>

\* The four roots are sums of p, q and r = -g / 8pq, where p and q are square
\* roots of two roots of the cubic: they are NaN when one of these two is zero.
Degenerate(l) == l.allReal /\ 0 \in {cubic_complex_solve(l.cubic)[k] : k \in {1, 2}}

QuarticRoot(l, k) ==
    IF Degenerate(l) THEN NaN
    ELSE IF Lt(EPS, fabs(l.im[k])) \/ Lt(l.re[k], EPS) THEN INFINITY
    ELSE l.re[k]

quartic_complex_solve(l) ==
    fmin(fmin(QuarticRoot(l, 1), QuarticRoot(l, 2)),
         fmin(QuarticRoot(l, 3), QuarticRoot(l, 4)))

intersect_torus(l) == IF l.near THEN quartic_complex_solve(l) ELSE INFINITY

\* The types in the order the loops of the kernel take them; a box is skipped.
TypeOrder == <<"SPHERE", "PLANE", "TRIANGLE", "CONE", "CYLINDER", "TOR">>

Intersect(type, l) ==
    CASE type = "SPHERE"   -> intersect_sphere(l)
      [] type = "PLANE"    -> intersect_plane(l)
      [] type = "TRIANGLE" -> intersect_triangle(l)
      [] type = "CONE"     -> intersect_cone(l)
      [] type = "CYLINDER" -> intersect_cylinder(l)
      [] OTHER             -> intersect_torus(l)

-----------------------------------------------------------------------------
(* What geometry allows, and the crossings a line really has.  Lines that   *)
(* touch a surface, and crossings at exactly EPS, are left out.             *)

Distance == {x \in Int : x # NaN /\ x # EPS /\ x < INFINITY}
Ahead(x) == x # NaN /\ EPS < x /\ x < INFINITY

SphereLines == {l \in [real : BOOLEAN, x1 : Distance, x2 : Distance] : l.x2 < l.x1}
PlaneLines == [t : Distance \cup {INFINITY, NaN}]
TriangleLines == [t : Distance \cup {INFINITY, NaN}, inside : BOOLEAN]
ConeLines == [real : BOOLEAN, x1 : Distance, x2 : Distance]
CylinderLines ==
    {l \in [real : BOOLEAN, x1 : Distance, x2 : Distance,
            infinite : BOOLEAN, in1 : BOOLEAN, in2 : BOOLEAN] : l.x2 < l.x1}

\* The points of a torus lie in its bounding sphere, and a line that is not
\* tangent to it gives a cubic with at most one root zero.
TorusLines ==
    {l \in [near : BOOLEAN, allReal : BOOLEAN, cubic : [1..3 -> Int \ {NaN, -NaN}],
            re : [1..4 -> Distance], im : [1..4 -> Nat \ {NaN}]] :
        (\E k \in 1..4 : l.im[k] <= EPS /\ Ahead(l.re[k]))
            => /\ l.near
               /\ \A j, k \in 1..3 : l.cubic[j] = 0 /\ l.cubic[k] = 0 => j = k}

LinesOf(type) ==
    CASE type = "SPHERE"   -> SphereLines
      [] type = "PLANE"    -> PlaneLines
      [] type = "TRIANGLE" -> TriangleLines
      [] type = "CONE"     -> ConeLines
      [] type = "CYLINDER" -> CylinderLines
      [] OTHER             -> TorusLines

\* A ray whose direction is NaN: every coefficient is NaN, and so every
\* comparison of the code with one is false.
NaNLine(type) ==
    CASE type \in {"SPHERE", "CONE"} -> [real |-> TRUE, x1 |-> NaN, x2 |-> NaN]
      [] type = "PLANE"    -> [t |-> NaN]
      [] type = "TRIANGLE" -> [t |-> NaN, inside |-> TRUE]
      [] type = "CYLINDER" -> [real |-> TRUE, x1 |-> NaN, x2 |-> NaN,
                               infinite |-> TRUE, in1 |-> FALSE, in2 |-> FALSE]
      [] OTHER -> [near |-> FALSE, allReal |-> FALSE, cubic |-> [k \in 1..3 |-> NaN],
                   re |-> [k \in 1..4 |-> NaN], im |-> [k \in 1..4 |-> NaN]]

\* The distances at which the line passes through the surface.
Crossings(type, l) ==
    CASE type \in {"SPHERE", "CONE"} ->
            {x \in {l.x1, l.x2} : l.real /\ Ahead(x)}
      [] type = "PLANE" -> {x \in {l.t} : Ahead(x)}
      [] type = "TRIANGLE" -> {x \in {l.t} : l.inside /\ Ahead(x)}
      [] type = "CYLINDER" ->
            {x \in {l.x1, l.x2} :
                /\ l.real /\ Ahead(x)
                /\ \/ l.infinite \/ (x = l.x1 /\ l.in1) \/ (x = l.x2 /\ l.in2)}
      [] OTHER -> {l.re[k] : k \in {j \in 1..4 : Ahead(l.re[j]) /\ l.im[j] <= EPS}}

\* t is the first crossing, or none of those a search would take.
IsFirst(t, C) ==
    /\ t \in Int /\ C \subseteq {x \in Int : Ahead(x)}
    /\ IF C = {} THEN t = NaN \/ t < EPS \/ t >= INFINITY
       ELSE t \in C /\ \A c \in C : t <= c
=============================================================================

--------------------------- MODULE RayTracer_proofs ---------------------------
(***************************************************************************)
(* Proofs about the ray tracer: what each intersect_* returns, for every   *)
(* line, and the invariants of a pixel's computation, for every scene, set *)
(* of build flags, stack layout and even RECURSION_DEPTH.                  *)
(***************************************************************************)
EXTENDS RayTracer, WellFoundedInduction, TLAPS

(***************************************************************************)
(* Intersections: each function returns the first crossing ahead, or a     *)
(* number that no search takes.                                            *)
(***************************************************************************)
LEMMA NumbersFact ==
  /\ EPS \in Int /\ EPS > 0 /\ INFINITY \in Int /\ INFINITY > EPS
  /\ NaN \in Int /\ NaN # INFINITY /\ NaN # EPS /\ NaN # 0
BY NumbersAssumption

\* The nearer root ahead of the two, in whichever order they come.
LEMMA NearRootFirst ==
  ASSUME NEW a \in Distance, NEW b \in Distance, NEW l, l.x1 = a, l.x2 = b
  PROVE  /\ NearRoot(l) \in {a, b} /\ NearRoot(l) \in Int /\ NearRoot(l) < INFINITY
         /\ \A x \in {a, b} : Ahead(x) => Ahead(NearRoot(l)) /\ NearRoot(l) <= x
         /\ Ahead(NearRoot(l)) \/ NearRoot(l) < EPS
<1>1. /\ a \in Int /\ a # NaN /\ a # EPS /\ a < INFINITY
      /\ b \in Int /\ b # NaN /\ b # EPS /\ b < INFINITY
  BY DEF Distance
<1>2. fmin(a, b) = IF b < a THEN b ELSE a
  BY <1>1 DEF fmin, Lt
<1>3. fmax(a, b) = IF a < b THEN b ELSE a
  BY <1>1 DEF fmax, Lt
<1>4. NearRoot(l) = IF fmin(a, b) < EPS THEN fmax(a, b) ELSE fmin(a, b)
  BY <1>1, <1>2, <1>3, NumbersFact DEF NearRoot, Lt
<1>. QED
  BY <1>1, <1>2, <1>3, <1>4, NumbersFact DEF Ahead

LEMMA NearRootNaN ==
  ASSUME NEW l, l.x1 = NaN, l.x2 = NaN
  PROVE  NearRoot(l) = NaN
BY NumbersFact DEF NearRoot, fmin, fmax, Lt

LEMMA SphereFirst ==
  ASSUME NEW l \in SphereLines
  PROVE  IsFirst(intersect_sphere(l), Crossings("SPHERE", l))
<1>1. /\ l.x1 \in Distance /\ l.x2 \in Distance /\ l.real \in BOOLEAN
      /\ l.x1 \in Int /\ l.x2 \in Int
  BY DEF SphereLines, Distance
<1>2. Crossings("SPHERE", l) = {x \in {l.x1, l.x2} : l.real /\ Ahead(x)}
  BY DEF Crossings
<1>3. CASE l.real
  <2>1. /\ NearRoot(l) \in {l.x1, l.x2} /\ NearRoot(l) \in Int /\ NearRoot(l) < INFINITY
        /\ \A x \in {l.x1, l.x2} : Ahead(x) => Ahead(NearRoot(l)) /\ NearRoot(l) <= x
        /\ Ahead(NearRoot(l)) \/ NearRoot(l) < EPS
    BY <1>1, NearRootFirst
  <2>2. intersect_sphere(l) = NearRoot(l)
    BY <1>3 DEF intersect_sphere
  <2>3. Crossings("SPHERE", l) = {x \in {l.x1, l.x2} : Ahead(x)}
    BY <1>2, <1>3
  <2>. QED
    BY <1>1, <2>1, <2>2, <2>3, NumbersFact DEF IsFirst
<1>4. CASE ~l.real
  BY <1>1, <1>2, <1>4, NumbersFact DEF intersect_sphere, IsFirst
<1>. QED
  BY <1>1, <1>3, <1>4

LEMMA ConeFirst ==
  ASSUME NEW l \in ConeLines
  PROVE  IsFirst(intersect_cone(l), Crossings("CONE", l))
<1>1. /\ l.x1 \in Distance /\ l.x2 \in Distance /\ l.real \in BOOLEAN
      /\ l.x1 \in Int /\ l.x2 \in Int
  BY DEF ConeLines, Distance
<1>2. Crossings("CONE", l) = {x \in {l.x1, l.x2} : l.real /\ Ahead(x)}
  BY DEF Crossings
<1>3. CASE l.real
  <2>1. /\ NearRoot(l) \in {l.x1, l.x2} /\ NearRoot(l) \in Int /\ NearRoot(l) < INFINITY
        /\ \A x \in {l.x1, l.x2} : Ahead(x) => Ahead(NearRoot(l)) /\ NearRoot(l) <= x
        /\ Ahead(NearRoot(l)) \/ NearRoot(l) < EPS
    BY <1>1, NearRootFirst
  <2>2. intersect_cone(l) = NearRoot(l)
    BY <1>3 DEF intersect_cone
  <2>3. Crossings("CONE", l) = {x \in {l.x1, l.x2} : Ahead(x)}
    BY <1>2, <1>3
  <2>. QED
    BY <1>1, <2>1, <2>2, <2>3, NumbersFact DEF IsFirst
<1>4. CASE ~l.real
  BY <1>1, <1>2, <1>4, NumbersFact DEF intersect_cone, IsFirst
<1>. QED
  BY <1>1, <1>3, <1>4

LEMMA PlaneFirst ==
  ASSUME NEW l \in PlaneLines
  PROVE  IsFirst(intersect_plane(l), Crossings("PLANE", l))
BY NumbersFact DEF PlaneLines, intersect_plane, Crossings, IsFirst, Ahead, Distance

LEMMA TriangleFirst ==
  ASSUME NEW l \in TriangleLines
  PROVE  IsFirst(intersect_triangle(l), Crossings("TRIANGLE", l))
BY NumbersFact DEF TriangleLines, intersect_triangle, Crossings, IsFirst, Ahead, Distance

LEMMA CylinderFirst ==
  ASSUME NEW l \in CylinderLines
  PROVE  IsFirst(intersect_cylinder(l), Crossings("CYLINDER", l))
<1>1. /\ l.x1 \in Int /\ l.x1 # NaN /\ l.x1 # EPS /\ l.x1 < INFINITY
      /\ l.x2 \in Int /\ l.x2 # NaN /\ l.x2 # EPS /\ l.x2 < INFINITY
      /\ l.x2 < l.x1 /\ l.real \in BOOLEAN /\ l.infinite \in BOOLEAN
      /\ l.in1 \in BOOLEAN /\ l.in2 \in BOOLEAN
  BY DEF CylinderLines, Distance
<1>2. Crossings("CYLINDER", l) =
        {x \in {l.x1, l.x2} : /\ l.real /\ Ahead(x)
                              /\ \/ l.infinite \/ (x = l.x1 /\ l.in1)
                                 \/ (x = l.x2 /\ l.in2)}
  BY DEF Crossings
<1>3. CASE ~l.real
  BY <1>1, <1>2, <1>3, NumbersFact DEF intersect_cylinder, IsFirst
<1>4. CASE l.real /\ EPS < l.x2
  <2>1. intersect_cylinder(l) = IF l.infinite \/ l.in2 THEN l.x2
                                ELSE IF l.in1 THEN l.x1 ELSE INFINITY
    BY <1>1, <1>4, NumbersFact DEF intersect_cylinder, Lt
  <2>2. Ahead(l.x1) /\ Ahead(l.x2)
    BY <1>1, <1>4, NumbersFact DEF Ahead
  <2>3. CASE l.infinite \/ l.in2
    BY <1>1, <1>2, <1>4, <2>1, <2>2, <2>3 DEF IsFirst
  <2>4. CASE ~(l.infinite \/ l.in2) /\ l.in1
    BY <1>1, <1>2, <1>4, <2>1, <2>2, <2>4 DEF IsFirst
  <2>5. CASE ~(l.infinite \/ l.in2) /\ ~l.in1
    <3>1. Crossings("CYLINDER", l) = {}
      BY <1>1, <1>2, <1>4, <2>2, <2>5
    <3>. QED
      BY <1>1, <1>4, <2>1, <2>5, <3>1, NumbersFact DEF IsFirst
  <2>. QED
    BY <1>1, <2>3, <2>4, <2>5
<1>5. CASE l.real /\ l.x2 < EPS
  <2>1. intersect_cylinder(l) = IF l.infinite \/ l.in1 THEN l.x1
                                ELSE IF l.in2 THEN l.x2 ELSE INFINITY
    BY <1>1, <1>5, NumbersFact DEF intersect_cylinder, Lt
  <2>2. ~Ahead(l.x2) /\ (Ahead(l.x1) \/ l.x1 < EPS)
    BY <1>1, <1>5, NumbersFact DEF Ahead
  <2>3. CASE l.infinite \/ l.in1
    BY <1>1, <1>2, <1>5, <2>1, <2>2, <2>3 DEF IsFirst
  <2>4. CASE ~(l.infinite \/ l.in1) /\ l.in2
    BY <1>1, <1>2, <1>5, <2>1, <2>2, <2>4 DEF IsFirst
  <2>5. CASE ~(l.infinite \/ l.in1) /\ ~l.in2
    <3>1. Crossings("CYLINDER", l) = {}
      BY <1>1, <1>2, <1>5, <2>2, <2>5
    <3>. QED
      BY <1>1, <1>5, <2>1, <2>5, <3>1, NumbersFact DEF IsFirst
  <2>. QED
    BY <1>1, <2>3, <2>4, <2>5
<1>. QED
  BY <1>1, <1>3, <1>4, <1>5, NumbersFact

LEMMA Absolute ==
  ASSUME NEW v \in Int \ {NaN, -NaN}
  PROVE  /\ fabs(v) = IF v < 0 THEN -v ELSE v
         /\ fabs(v) \in Int /\ fabs(v) # NaN
BY NumbersFact DEF fabs, Lt

(***************************************************************************)
(* cubic_complex_solve keeps two roots and drops the third, which is the   *)
(* least in absolute value: "absolute maximal two values" (algo.h:337).    *)
(***************************************************************************)
THEOREM CubicKeepsLargest ==
  ASSUME NEW x \in [1..3 -> Int \ {NaN, -NaN}]
  PROVE  \E i, j, k \in 1..3 :
           /\ i # j /\ j # k /\ i # k
           /\ cubic_complex_solve(x) = <<x[j], x[k]>>
           /\ fabs(x[i]) <= fabs(x[j]) /\ fabs(x[i]) <= fabs(x[k])
<1> DEFINE p == x[1]
           q == x[2]
           r == x[3]
<1>1. /\ p \in Int \ {NaN, -NaN} /\ q \in Int \ {NaN, -NaN} /\ r \in Int \ {NaN, -NaN}
      /\ 1 \in 1..3 /\ 2 \in 1..3 /\ 3 \in 1..3
  OBVIOUS
<1>2. /\ fabs(p) \in Int /\ fabs(q) \in Int /\ fabs(r) \in Int
      /\ fabs(p) # NaN /\ fabs(q) # NaN /\ fabs(r) # NaN
  BY <1>1, Absolute
<1>3. ASSUME NEW u, NEW v, fabs(u) \in Int, fabs(v) \in Int, fabs(u) # NaN, fabs(v) # NaN
      PROVE  Lt(fabs(u), fabs(v)) <=> fabs(u) < fabs(v)
  BY <1>3 DEF Lt
<1>. HIDE DEF p, q, r
<1>4. CASE fabs(r) < fabs(p) /\ fabs(q) < fabs(r)
  <2>1. cubic_complex_solve(x) = <<x[3], x[1]>>
    BY <1>2, <1>3, <1>4 DEF cubic_complex_solve, p, q, r
  <2>. QED
    BY <1>1, <1>2, <1>4, <2>1 DEF p, q, r
<1>5. CASE fabs(r) < fabs(p) /\ ~(fabs(q) < fabs(r))
  <2>1. cubic_complex_solve(x) = <<x[2], x[1]>>
    BY <1>2, <1>3, <1>5 DEF cubic_complex_solve, p, q, r
  <2>. QED
    BY <1>1, <1>2, <1>5, <2>1 DEF p, q, r
<1>6. CASE ~(fabs(r) < fabs(p)) /\ fabs(q) < fabs(p)
  <2>1. cubic_complex_solve(x) = <<x[1], x[3]>>
    BY <1>2, <1>3, <1>6 DEF cubic_complex_solve, p, q, r
  <2>. QED
    BY <1>1, <1>2, <1>6, <2>1 DEF p, q, r
<1>7. CASE ~(fabs(r) < fabs(p)) /\ ~(fabs(q) < fabs(p))
  <2>1. cubic_complex_solve(x) = <<x[2], x[3]>>
    BY <1>2, <1>3, <1>7 DEF cubic_complex_solve, p, q, r
  <2>. QED
    BY <1>1, <1>2, <1>7, <2>1 DEF p, q, r
<1>. QED
  BY <1>4, <1>5, <1>6, <1>7

\* So p and q of the quartic are not zero, unless two roots of the cubic are.
LEMMA KeptRootsNotZero ==
  ASSUME NEW x \in [1..3 -> Int \ {NaN, -NaN}],
         \A j, k \in 1..3 : x[j] = 0 /\ x[k] = 0 => j = k
  PROVE  0 \notin {cubic_complex_solve(x)[k] : k \in {1, 2}}
<1>1. PICK i, j, k \in 1..3 :
           /\ i # j /\ j # k /\ i # k
           /\ cubic_complex_solve(x) = <<x[j], x[k]>>
           /\ fabs(x[i]) <= fabs(x[j]) /\ fabs(x[i]) <= fabs(x[k])
  BY CubicKeepsLargest
<1>2. /\ x[i] \in Int \ {NaN, -NaN} /\ x[j] \in Int \ {NaN, -NaN}
      /\ x[k] \in Int \ {NaN, -NaN}
  OBVIOUS
<1>3. x[j] # 0
  BY <1>1, <1>2, Absolute
<1>4. x[k] # 0
  BY <1>1, <1>2, Absolute
<1>. QED
  BY <1>1, <1>3, <1>4

LEMMA FminLeast ==
  ASSUME NEW a \in Int \ {NaN}, NEW b \in Int \ {NaN}
  PROVE  /\ fmin(a, b) \in {a, b} /\ fmin(a, b) \in Int \ {NaN}
         /\ fmin(a, b) <= a /\ fmin(a, b) <= b
BY DEF fmin, Lt

LEMMA FminOfFour ==
  ASSUME NEW a \in Int \ {NaN}, NEW b \in Int \ {NaN},
         NEW c \in Int \ {NaN}, NEW d \in Int \ {NaN}
  PROVE  /\ fmin(fmin(a, b), fmin(c, d)) \in {a, b, c, d}
         /\ \A x \in {a, b, c, d} : fmin(fmin(a, b), fmin(c, d)) <= x
<1> DEFINE p == fmin(a, b)
           q == fmin(c, d)
           m == fmin(p, q)
<1>1. p \in {a, b} /\ p \in Int \ {NaN} /\ p <= a /\ p <= b
  BY FminLeast
<1>2. q \in {c, d} /\ q \in Int \ {NaN} /\ q <= c /\ q <= d
  BY FminLeast
<1>. HIDE DEF p, q
<1>3. m \in {p, q} /\ m \in Int \ {NaN} /\ m <= p /\ m <= q
  BY <1>1, <1>2, FminLeast
<1>. HIDE DEF m
<1>4. m \in {a, b, c, d} /\ \A x \in {a, b, c, d} : m <= x
  BY <1>1, <1>2, <1>3
<1>. QED
  BY <1>4 DEF m, p, q

LEMMA TorusFirst ==
  ASSUME NEW l \in TorusLines
  PROVE  IsFirst(intersect_torus(l), Crossings("TOR", l))
<1> DEFINE x(k) == QuarticRoot(l, k)
           Crossed(k) == l.im[k] <= EPS /\ Ahead(l.re[k])
<1>1. Crossings("TOR", l) = {l.re[k] : k \in {j \in 1..4 : Crossed(j)}}
  BY DEF Crossings
<1>2. ASSUME NEW k \in 1..4
      PROVE  /\ l.re[k] \in Int /\ l.re[k] # NaN /\ l.re[k] # EPS /\ l.re[k] < INFINITY
             /\ l.im[k] \in Int /\ l.im[k] >= 0 /\ l.im[k] # NaN
             /\ fabs(l.im[k]) = l.im[k]
  <2>1. l.re[k] \in Distance /\ l.im[k] \in Nat \ {NaN}
    BY DEF TorusLines
  <2>. QED
    BY <2>1, NumbersFact DEF Distance, fabs, Lt
<1>3. ASSUME ~Degenerate(l), NEW k \in 1..4
      PROVE  x(k) = IF Crossed(k) THEN l.re[k] ELSE INFINITY
  BY <1>2, <1>3, NumbersFact DEF QuarticRoot, Lt, Ahead
<1>4. ASSUME NEW k \in 1..4, Crossed(k)
      PROVE  l.near /\ ~Degenerate(l)
  <2>1. /\ l.near /\ \A j, m \in 1..3 : l.cubic[j] = 0 /\ l.cubic[m] = 0 => j = m
        /\ l.cubic \in [1..3 -> Int \ {NaN, -NaN}]
    BY <1>4 DEF TorusLines
  <2>. QED
    BY <2>1, KeptRootsNotZero DEF Degenerate
<1>5. CASE ~l.near
  BY <1>1, <1>4, <1>5, NumbersFact DEF intersect_torus, IsFirst
<1>6. CASE l.near /\ Degenerate(l)
  <2>1. \A k \in 1..4 : x(k) = NaN
    BY <1>6 DEF QuarticRoot
  <2>2. intersect_torus(l) = NaN
    BY <1>6, <2>1 DEF intersect_torus, quartic_complex_solve, fmin
  <2>3. Crossings("TOR", l) = {}
    BY <1>1, <1>4, <1>6
  <2>. QED
    BY <2>2, <2>3, NumbersFact DEF IsFirst
<1>7. CASE l.near /\ ~Degenerate(l)
  <2>1. \A k \in 1..4 : /\ x(k) = IF Crossed(k) THEN l.re[k] ELSE INFINITY
                        /\ x(k) \in Int /\ x(k) # NaN /\ x(k) <= INFINITY
                        /\ Crossed(k) => x(k) < INFINITY
    BY <1>2, <1>3, <1>7, NumbersFact
  <2> DEFINE m == fmin(fmin(x(1), x(2)), fmin(x(3), x(4)))
  <2>. HIDE DEF x
  <2>3. /\ m \in {x(1), x(2), x(3), x(4)}
        /\ \A k \in 1..4 : m <= x(k)
    <3>1. /\ x(1) \in Int \ {NaN} /\ x(2) \in Int \ {NaN}
          /\ x(3) \in Int \ {NaN} /\ x(4) \in Int \ {NaN}
      BY <2>1
    <3>2. /\ m \in {x(1), x(2), x(3), x(4)}
          /\ m <= x(1) /\ m <= x(2) /\ m <= x(3) /\ m <= x(4)
      BY <3>1, FminOfFour
    <3>. QED
      BY <3>2
  <2>4. intersect_torus(l) = m
    BY <1>7 DEF intersect_torus, quartic_complex_solve, x
  <2>. HIDE DEF m, Crossed
  <2>5. CASE \E k \in 1..4 : Crossed(k)
    <3>1. m < INFINITY
      <4>1. PICK k \in 1..4 : Crossed(k)
        BY <2>5
      <4>. QED
        BY <2>1, <2>3, <4>1, NumbersFact
    <3>2. PICK k \in 1..4 : m = x(k)
      BY <2>3
    <3>3. Crossed(k) /\ m = l.re[k]
      BY <2>1, <3>1, <3>2, NumbersFact
    <3>4. m \in Crossings("TOR", l)
      BY <1>1, <3>3
    <3>5. \A c \in Crossings("TOR", l) : m <= c
      BY <1>1, <2>1, <2>3
    <3>6. Crossings("TOR", l) \subseteq {c \in Int : Ahead(c)}
      BY <1>1, <1>2 DEF Crossed
    <3>. QED
      BY <2>4, <3>4, <3>5, <3>6 DEF IsFirst
  <2>6. CASE ~ \E k \in 1..4 : Crossed(k)
    <3>1. Crossings("TOR", l) = {}
      BY <1>1, <2>6
    <3>2. m = INFINITY
      BY <2>1, <2>3, <2>6
    <3>. QED
      BY <2>4, <3>1, <3>2, NumbersFact DEF IsFirst
  <2>. QED
    BY <2>5, <2>6
<1>. QED
  BY <1>5, <1>6, <1>7

Types == {TypeOrder[k] : k \in 1..6}

LEMMA SixTypes ==
  Types = {"SPHERE", "PLANE", "TRIANGLE", "CONE", "CYLINDER", "TOR"}
<1>1. 1..6 = {1, 2, 3, 4, 5, 6}
  OBVIOUS
<1>. QED
  BY <1>1 DEF Types, TypeOrder

LEMMA NaNFirst ==
  ASSUME NEW type \in Types
  PROVE  /\ Crossings(type, NaNLine(type)) = {}
         /\ IsFirst(Intersect(type, NaNLine(type)), {})
<1>. (\A x : x = NaN => ~Ahead(x)) /\ NaN \in Int /\ INFINITY \in Int
  BY NumbersFact DEF Ahead
<1>1. CASE type \in {"SPHERE", "CONE"}
  <2>1. /\ NaNLine(type).real /\ NaNLine(type).x1 = NaN /\ NaNLine(type).x2 = NaN
    BY <1>1 DEF NaNLine
  <2>2. NearRoot(NaNLine(type)) = NaN
    BY <2>1, NearRootNaN
  <2>. QED
    BY <1>1, <2>1, <2>2 DEF Crossings, Intersect, intersect_sphere, intersect_cone, IsFirst
<1>2. CASE type = "PLANE"
  BY <1>2 DEF NaNLine, Crossings, Intersect, intersect_plane, IsFirst
<1>3. CASE type = "TRIANGLE"
  BY <1>3 DEF NaNLine, Crossings, Intersect, intersect_triangle, IsFirst
<1>4. CASE type = "CYLINDER"
  BY <1>4 DEF NaNLine, Crossings, Intersect, intersect_cylinder, IsFirst, Lt
<1>5. CASE type = "TOR"
  <2>1. NaNLine(type).near = FALSE /\ NaNLine(type).re = [k \in 1..4 |-> NaN]
    BY <1>5 DEF NaNLine
  <2>2. Intersect(type, NaNLine(type)) = INFINITY
    BY <1>5, <2>1 DEF Intersect, intersect_torus
  <2>3. Crossings(type, NaNLine(type)) = {}
    BY <1>5, <2>1 DEF Crossings
  <2>. QED
    BY <2>2, <2>3, NumbersFact DEF IsFirst
<1>. QED
  BY <1>1, <1>2, <1>3, <1>4, <1>5, SixTypes

(***************************************************************************)
(* Whatever its type, a figure gives the search the first crossing of its  *)
(* surface ahead of the ray; without one, nothing the search would take.   *)
(***************************************************************************)
THEOREM FirstCrossing ==
  ASSUME NEW type \in Types, NEW l \in LinesOf(type) \cup {NaNLine(type)}
  PROVE  IsFirst(Intersect(type, l), Crossings(type, l))
<1>1. CASE l = NaNLine(type)
  BY <1>1, NaNFirst
<1>2. CASE type = "SPHERE" /\ l \in LinesOf(type)
  BY <1>2, SphereFirst DEF LinesOf, Intersect, Crossings
<1>3. CASE type = "PLANE" /\ l \in LinesOf(type)
  BY <1>3, PlaneFirst DEF LinesOf, Intersect, Crossings
<1>4. CASE type = "TRIANGLE" /\ l \in LinesOf(type)
  BY <1>4, TriangleFirst DEF LinesOf, Intersect, Crossings
<1>5. CASE type = "CONE" /\ l \in LinesOf(type)
  BY <1>5, ConeFirst DEF LinesOf, Intersect, Crossings
<1>6. CASE type = "CYLINDER" /\ l \in LinesOf(type)
  BY <1>6, CylinderFirst DEF LinesOf, Intersect, Crossings
<1>7. CASE type = "TOR" /\ l \in LinesOf(type)
  BY <1>7, TorusFirst DEF LinesOf, Intersect, Crossings
<1>. QED
  BY <1>1, <1>2, <1>3, <1>4, <1>5, <1>6, <1>7, SixTypes

\* Taking a figure's t as the code does keeps the least crossing.
LEMMA ClosestIsLeast ==
  ASSUME NEW C, NEW t, IsFirst(t, C),
         NEW closest \in Int, closest # NaN, closest <= INFINITY
  PROVE  /\ LeastOf(C, closest) = IF Closer(t, closest) THEN t ELSE closest
         /\ Closer(t, closest) => t \in C
<1>1. CASE C = {}
  BY <1>1, NumbersFact DEF LeastOf, IsFirst, Closer, Lt
<1>2. CASE C # {}
  <2>1. /\ t \in C /\ (\A c \in C : t <= c) /\ Ahead(t)
        /\ t \in Int /\ C \subseteq Int
    BY <1>2 DEF IsFirst
  <2>2. Closer(t, closest) <=> t < closest
    BY <2>1, NumbersFact DEF Closer, Lt, Ahead
  <2>3. CASE t < closest
    <3>1. LeastOf(C, closest) = CHOOSE c \in C : \A d \in C : c <= d
      BY <2>1, <2>3 DEF LeastOf
    <3>2. \A c \in C : (\A d \in C : c <= d) => c = t
      BY <2>1
    <3>3. LeastOf(C, closest) = t
      BY <2>1, <3>1, <3>2
    <3>. QED
      BY <2>1, <2>2, <2>3, <3>3
  <2>4. CASE ~(t < closest)
    <3>1. ~ \E c \in C : c < closest
      BY <2>1, <2>4
    <3>. QED
      BY <2>2, <2>4, <3>1 DEF LeastOf
  <2>. QED
    BY <2>3, <2>4
<1>. QED
  BY <1>1, <1>2

(***************************************************************************)
(* The inductive invariant: the properties, and what they rest on.         *)
(***************************************************************************)

\* Before a ray is begun nothing is left of the one before.
Fresh ==
  /\ pc = "ray" => /\ search.i = 1 /\ search.closest_obj = 0
                   /\ search.closest_t = INFINITY /\ search.nearest = INFINITY
  /\ pc \in {"ray", "search"} => shadow = NoShadow /\ lit = {}

\* What has been written for the rays still to come.
QueueOK ==
  /\ build.transparency =>
       \A k \in Rays :
         /\ k >= 1 /\ enqueued[k] = 1
         /\ k > current_ray \/ (k = current_ray /\ pc = "ray")
         => /\ prod[k] # Garbage /\ dir[k] # Garbage /\ pos[k] # Garbage
            /\ dir[k].from = k \div 2 /\ pos[k] = k \div 2
  /\ ~build.transparency /\ pc = "ray" =>
       /\ prod[1] # Garbage /\ dir[1] # Garbage /\ pos[1] # Garbage /\ col[1] # Garbage
       /\ dir[1].from = current_ray - 1 /\ pos[1] = current_ray - 1
  /\ pc = "sum" => ~build.transparency
  /\ ~build.transparency /\ pc \in {"search", "light", "shadow"} => current_ray <= BOUNCES

NaNIsRefracted ==
  \A k \in Rays : dir[k] # Garbage /\ dir[k].nan => build.refractive

SearchOK ==
  /\ pc = "search" =>
       /\ search.closest_t # NaN /\ search.closest_t <= INFINITY
       /\ search.closest_obj < search.i
       /\ dir[Slot].nan => search.nearest = INFINITY
       /\ search.closest_obj # 0 => search.closest_t < INFINITY
  /\ pc \in {"light", "shadow"} =>
       /\ search.closest_obj # 0
       /\ search.closest_type = Figures[search.closest_obj].type

\* NormalOfHit, as it holds while the search goes on.
NormalSoFar ==
  pc = "search" /\ search.closest_obj # 0 =>
    /\ search.closest_type \in {"CONE", "TOR"} =>
         /\ search.param # Garbage
         /\ search.param.ray = current_ray
         /\ Figures[search.param.of].type = search.closest_type
         /\ search.closest_obj <= search.param.of
         /\ search.param.of < search.i
    /\ search.closest_type = "TOR" => search.param.of = search.closest_obj

ShadowOK ==
  /\ pc \in {"light", "shadow"} => lit \subseteq 1 .. shadow.light - 1
  /\ pc = "shadow" => /\ ~shadow.between
                      /\ shadow.end > EPS /\ shadow.end # NaN /\ shadow.end <= INFINITY

\* The elements of the rays still to come are unwritten and that of the ray being
\* searched is black; what the lights have added, at each place of the program.
GlareOK ==
  /\ build.transparency =>
       /\ \A k \in Rays : k > current_ray \/ (k = current_ray /\ pc = "ray")
                            => col[k] = Garbage
       /\ pc = "search" => col[current_ray] = Black /\ enqueued[current_ray] = 1
       /\ \A k \in Rays, l \in PointLights :
            col[k] # Garbage => col[k].glare[l] <= Blinded(k)
  /\ ~build.transparency =>
       /\ dir[1] # Garbage /\ ~dir[1].nan
       /\ \A l \in PointLights :
            col[1] # Garbage =>
              col[1].glare[l] <= IF ~build.direct THEN 0
                                 ELSE IF pc \in {"ray", "search"} THEN current_ray - 1
                                 ELSE current_ray

IInv == /\ TypeOK /\ RaysHaveData /\ QueueOK /\ NaNIsRefracted /\ Fresh
        /\ NearestIsFound /\ SearchOK /\ NormalSoFar /\ NormalOfHit
        /\ ShadowOK /\ LitIffVisible /\ StrayRaysAreDark /\ GlareOK

LEMMA ConstantFact ==
  /\ RECURSION_DEPTH \in Nat /\ RECURSION_DEPTH % 2 = 0 /\ RECURSION_DEPTH > 2
  /\ BOUNCES \in Nat /\ BOUNCES > 0 /\ Unit \in Nat /\ Unit > 0 /\ Full \in Int
  /\ Len(Figures) \in Nat /\ Len(Lights) \in Nat
  /\ DOMAIN Lights = 1 .. Len(Lights)
  /\ 0 \in Rays /\ 1 \in Rays
BY RayTracerAssumption DEF Rays

LEMMA GarbageFact ==
  /\ \A w \in Int : w # Garbage
  /\ \A d \in [from : Nat, nan : BOOLEAN] : d # Garbage
  /\ \A c \in ColourSums : c # Garbage
  /\ \A r \in [ray : Nat, of : Nat] : r # Garbage
<1>1. \A w \in Int : w # Garbage
  BY RayTracerAssumption
<1>2. \A d \in [from : Nat, nan : BOOLEAN] : d # Garbage
  BY RayTracerAssumption
<1>3. \A c \in ColourSums : c # Garbage
  BY RayTracerAssumption
<1>4. \A r \in [ray : Nat, of : Nat] : r # Garbage
  BY RayTracerAssumption
<1>. QED
  BY <1>1, <1>2, <1>3, <1>4

LEMMA FigureFact ==
  ASSUME NEW i \in Objects
  PROVE  /\ Figures[i].type \in Types /\ Figures[i].reflective \in 0..Unit
         /\ Figures[i].transparency \in 0..Unit
         /\ Lines[Figures[i].type] \subseteq LinesOf(Figures[i].type)
<1> DEFINE S == [type : {TypeOrder[k] : k \in 1..6},
                 reflective : 0..Unit, transparency : 0..Unit]
<1>1. Figures \in Seq(S)
  BY RayTracerAssumption
<1>2. Figures[i] \in S
  <2>. HIDE DEF S
  <2>. QED
    BY <1>1 DEF Objects
<1>3. Figures[i] \in [type : {TypeOrder[k] : k \in 1..6},
                     reflective : 0..Unit, transparency : 0..Unit]
  BY <1>2
<1>. QED
  BY <1>3, RayTracerAssumption DEF Objects, Types

\* Behind a torus in the scene's order there are only tori.
LEMMA ToriAreLast ==
  ASSUME NEW i \in Objects, NEW j \in Objects, i <= j, Figures[i].type = "TOR"
  PROVE  Figures[j].type = "TOR"
<1>1. PICK m \in 1..6, n \in 1..6 : /\ m <= n /\ TypeOrder[m] = Figures[i].type
                                   /\ TypeOrder[n] = Figures[j].type
  BY RayTracerAssumption DEF Objects
<1>2. m \in {1, 2, 3, 4, 5, 6} /\ n \in {1, 2, 3, 4, 5, 6}
  BY <1>1
<1>3. m = 6
  BY <1>1, <1>2 DEF TypeOrder
<1>4. n = 6
  BY <1>1, <1>2, <1>3
<1>. QED
  BY <1>1, <1>4 DEF TypeOrder

LEMMA PartInt ==
  ASSUME NEW w \in Int, NEW a \in Int, NEW b \in Int
  PROVE  Part(w, a, b) \in Int
<1> DEFINE n == w * a * b
           d == Unit * Unit
<1>1. n \in Int
  OBVIOUS
<1>2. d \in Nat /\ d > 0
  BY ConstantFact
<1>. HIDE DEF n, d
<1>3. n \div d \in Int
  BY <1>1, <1>2
<1>. QED
  BY <1>3 DEF Part, n, d

LEMMA InitIInv == Init => IInv
<1>. SUFFICES ASSUME Init PROVE IInv
  OBVIOUS
<1>. USE DEF Init
<1>1. TypeOK
  <2>1. build \in [transparency : BOOLEAN, refractive : BOOLEAN, direct : BOOLEAN]
    BY RayTracerAssumption
  <2>2. /\ prod \in [Rays -> Weights] /\ col \in [Rays -> Colours]
        /\ pos \in [Rays -> Nat \cup {Garbage}] /\ dir \in [Rays -> Directions]
        /\ enqueued \in [Rays -> {0, 1}]
    <3>1. Black \in ColourSums
      BY DEF Black, ColourSums
    <3>2. [from |-> 0, nan |-> FALSE] \in Directions
      BY DEF Directions
    <3>. QED
      BY <3>1, <3>2, ConstantFact DEF Weights, Colours, Directions
  <2>3. search \in Searches /\ shadow \in Shadows
    BY ConstantFact, NumbersFact DEF Searches, Shadows, NoSearch, NoShadow, Params, Objects
  <2>. QED
    BY <2>1, <2>2, <2>3, ConstantFact DEF TypeOK, NoShadow
<1>2. RaysHaveData
  BY ConstantFact DEF RaysHaveData, Begun, Slot
<1>3. QueueOK
  <2>1. ASSUME NEW k \in Rays, k >= 1, enqueued[k] = 1
        PROVE  k = 1 /\ k \div 2 = 0
    BY <2>1 DEF Rays
  <2>2. /\ prod[1] = Full /\ pos[1] = 0 /\ dir[1] = [from |-> 0, nan |-> FALSE]
        /\ Full # Garbage /\ 0 # Garbage /\ [from |-> 0, nan |-> FALSE] # Garbage
    <3>1. Full # Garbage /\ 0 # Garbage
      BY ConstantFact, GarbageFact
    <3>2. [from |-> 0, nan |-> FALSE] \in [from : Nat, nan : BOOLEAN]
      OBVIOUS
    <3>3. [from |-> 0, nan |-> FALSE] # Garbage
      BY <3>2, GarbageFact
    <3>. QED
      BY <3>1, <3>3, ConstantFact
  <2>3. ~build.transparency => col[1] = Black /\ Black # Garbage
    <3>1. Black \in ColourSums
      BY DEF Black, ColourSums
    <3>2. Black # Garbage
      BY <3>1, GarbageFact
    <3>. QED
      BY <3>2, ConstantFact
  <2>. QED
    BY <2>1, <2>2, <2>3 DEF QueueOK
<1>4. NaNIsRefracted /\ Fresh
  BY ConstantFact DEF NaNIsRefracted, Fresh, NoSearch
<1>5. NearestIsFound /\ SearchOK /\ NormalSoFar /\ NormalOfHit
  BY DEF NearestIsFound, SearchOK, NormalSoFar, NormalOfHit
<1>6. ShadowOK /\ LitIffVisible /\ StrayRaysAreDark
  BY ConstantFact DEF ShadowOK, LitIffVisible, StrayRaysAreDark, Begun, Slot, Black
<1>7. GlareOK
  <2>1. build.transparency => \A k \in Rays : col[k] = Garbage
    BY ConstantFact
  <2>2. ~build.transparency => col[1] = Black /\ dir[1] = [from |-> 0, nan |-> FALSE]
    BY ConstantFact
  <2>3. [from |-> 0, nan |-> FALSE] # Garbage
    <3>1. [from |-> 0, nan |-> FALSE] \in [from : Nat, nan : BOOLEAN]
      OBVIOUS
    <3>. QED
      BY <3>1, GarbageFact
  <2>. QED
    BY <2>1, <2>2, <2>3 DEF GlareOK, Black
<1>. QED
  BY <1>1, <1>2, <1>3, <1>4, <1>5, <1>6, <1>7 DEF IInv

\* What the types say of the records in use.
LEMMA Typed ==
  ASSUME TypeOK
  PROVE  /\ build.transparency \in BOOLEAN /\ build.refractive \in BOOLEAN
         /\ build.direct \in BOOLEAN
         /\ current_ray \in Nat /\ current_ray >= 1
         /\ build.transparency => current_ray <= RECURSION_DEPTH
         /\ ~build.transparency => current_ray <= BOUNCES + 1
         /\ search \in Searches /\ shadow \in Shadows
         /\ \A k \in Rays : /\ k \in Nat /\ k < RECURSION_DEPTH /\ enqueued[k] \in {0, 1}
                            /\ pos[k] \in Nat \cup {Garbage} /\ dir[k] \in Directions
                            /\ prod[k] \in Weights /\ col[k] \in Colours
<1>1. build \in [transparency : BOOLEAN, refractive : BOOLEAN, direct : BOOLEAN]
  BY RayTracerAssumption DEF TypeOK
<1>2. current_ray \in 1 .. IF build.transparency THEN RECURSION_DEPTH ELSE BOUNCES + 1
  BY DEF TypeOK
<1>3. \A k \in Rays : k \in Nat /\ k < RECURSION_DEPTH
  BY ConstantFact DEF Rays
<1>. QED
  BY <1>1, <1>2, <1>3, ConstantFact DEF TypeOK

LEMMA BlackFact ==
  /\ Black \in Colours /\ Black # Garbage /\ Black.white = FALSE /\ Black.share = 0
  /\ \A l \in PointLights : Black.glare[l] = 0
<1>1. Black \in ColourSums
  BY DEF Black, ColourSums
<1>. QED
  BY <1>1, GarbageFact DEF Colours, Black

LEMMA NextRayStep == IInv /\ NextRay => IInv'
<1>. SUFFICES ASSUME IInv, NextRay PROVE IInv'
  OBVIOUS
<1>1. /\ TypeOK /\ RaysHaveData /\ QueueOK /\ NaNIsRefracted /\ Fresh
      /\ NearestIsFound /\ SearchOK /\ NormalSoFar /\ NormalOfHit
      /\ ShadowOK /\ LitIffVisible /\ StrayRaysAreDark /\ GlareOK
  BY DEF IInv
<1>2. /\ pc = "ray"
      /\ build' = build /\ behind' = behind /\ enqueued' = enqueued /\ pos' = pos
      /\ dir' = dir /\ prod' = prod /\ search' = search /\ shadow' = shadow /\ lit' = lit
  BY DEF NextRay, BeginRay
<1>3. /\ search.i = 1 /\ search.closest_obj = 0 /\ search.closest_t = INFINITY
      /\ search.nearest = INFINITY /\ shadow = NoShadow /\ lit = {}
  BY <1>1, <1>2 DEF Fresh
<1>4. /\ pc' \in {"ray", "search"}
      /\ ~build.transparency => /\ current_ray' = current_ray /\ col' = col /\ pc' = "search"
                                /\ current_ray <= BOUNCES
      /\ build.transparency =>
           /\ current_ray < RECURSION_DEPTH /\ current_ray \in Rays
           /\ col' = [col EXCEPT ![current_ray] = Black]
           /\ \/ current_ray' = current_ray + 1 /\ pc' = "ray" /\ enqueued[current_ray] = 0
              \/ current_ray' = current_ray /\ pc' = "search" /\ enqueued[current_ray] = 1
  BY <1>1, Typed, ConstantFact DEF NextRay, BeginRay, RayLimit, Rays
<1>5. TypeOK'
  <2>1. current_ray' \in 1 .. IF build.transparency THEN RECURSION_DEPTH ELSE BOUNCES + 1
    BY <1>1, <1>4, Typed, ConstantFact
  <2>2. col' \in [Rays -> Colours]
    BY <1>1, <1>4, Typed, BlackFact DEF TypeOK
  <2>3. pc' = "search" => Slot' \in Rays
    BY <1>2, <1>4, <1>1, Typed, ConstantFact DEF Slot
  <2>. QED
    BY <1>1, <1>2, <1>4, <2>1, <2>2, <2>3 DEF TypeOK
<1>6. RaysHaveData'
  <2>1. CASE ~build.transparency
    BY <1>1, <1>2, <1>4, <2>1, Typed DEF RaysHaveData, QueueOK, Slot, Parent, Begun
  <2>2. CASE build.transparency
    <3>1. \A k \in Rays : k # current_ray => col'[k] = col[k]
      BY <1>1, <1>4, <2>2 DEF TypeOK
    <3>2. col'[current_ray] = Black
      BY <1>1, <1>4, <2>2 DEF TypeOK
    <3>3. \A k \in Begun' : k < Slot' /\ col'[k] = Garbage =>
             behind' = "col" /\ CELLS.col * k < RECURSION_DEPTH
      BY <1>1, <1>2, <1>4, <2>2, <3>1, <3>2, Typed, BlackFact DEF RaysHaveData, Slot, Begun
    <3>4. pc' = "search" =>
             /\ Garbage \notin {prod'[Slot'], dir'[Slot'], pos'[Slot'], col'[Slot']}
             /\ dir'[Slot'].from = Parent' /\ pos'[Slot'] = Parent'
      <4>. SUFFICES ASSUME pc' = "search"
                    PROVE  /\ Garbage \notin {prod'[Slot'], dir'[Slot'], pos'[Slot'], col'[Slot']}
                           /\ dir'[Slot'].from = Parent' /\ pos'[Slot'] = Parent'
        OBVIOUS
      <4>1. /\ current_ray' = current_ray /\ enqueued[current_ray] = 1 /\ current_ray \in Rays
            /\ Slot' = current_ray /\ Parent' = current_ray \div 2
        BY <1>2, <1>4, <2>2 DEF Slot, Parent
      <4>2. /\ prod[current_ray] # Garbage /\ dir[current_ray] # Garbage
            /\ pos[current_ray] # Garbage /\ dir[current_ray].from = current_ray \div 2
            /\ pos[current_ray] = current_ray \div 2
        BY <1>1, <1>2, <2>2, <4>1, Typed DEF QueueOK
      <4>. QED
        BY <1>2, <3>2, <4>1, <4>2, BlackFact
    <3>. QED
      BY <1>4, <3>3, <3>4 DEF RaysHaveData
  <2>. QED
    BY <1>1, <2>1, <2>2, Typed
<1>7. QueueOK' /\ NaNIsRefracted' /\ Fresh'
  BY <1>1, <1>2, <1>3, <1>4, Typed DEF QueueOK, NaNIsRefracted, Fresh
<1>8. NearestIsFound' /\ SearchOK' /\ NormalSoFar' /\ NormalOfHit'
  BY <1>1, <1>2, <1>3, <1>4, Typed, NumbersFact
     DEF NearestIsFound, SearchOK, NormalSoFar, NormalOfHit
<1>9. ShadowOK' /\ LitIffVisible'
  BY <1>4 DEF ShadowOK, LitIffVisible
<1>10. build.transparency => \A k \in Rays : col'[k] = IF k = current_ray THEN Black ELSE col[k]
  BY <1>1, <1>4 DEF TypeOK
<1>11. StrayRaysAreDark'
  <2>1. CASE ~build.transparency
    BY <1>1, <1>2, <1>4, <2>1 DEF StrayRaysAreDark, Begun, Slot
  <2>2. CASE build.transparency
    <3>. SUFFICES ASSUME NEW k \in Begun', dir'[k] # Garbage, dir'[k].nan, col'[k] # Garbage
                  PROVE  /\ col'[k].share = 0
                         /\ k < Slot' /\ enqueued'[k] = 1 =>
                              (col'[k].white <=> build'.direct /\ PointLights # {})
      BY <1>4 DEF StrayRaysAreDark
    <3>1. k \in Rays /\ k \in Nat /\ 1 <= k /\ k <= Slot'
      BY <1>1, Typed DEF Begun
    <3>2. CASE k = current_ray
      <4>1. k < Slot' => enqueued'[k] = 0
        BY <1>1, <1>2, <1>4, <2>2, <3>1, <3>2, Typed DEF Slot
      <4>. QED
        BY <1>10, <2>2, <3>1, <3>2, <4>1, BlackFact
    <3>3. CASE k # current_ray
      <4>1. col'[k] = col[k]
        BY <1>10, <2>2, <3>1, <3>3
      <4>2. k < current_ray
        BY <1>1, <1>2, <1>4, <2>2, <3>1, <3>3, <4>1, Typed DEF GlareOK, Slot
      <4>3. k \in Begun /\ k < Slot
        BY <2>2, <3>1, <4>2, Typed, <1>1 DEF Begun, Slot
      <4>. QED
        BY <1>1, <1>2, <4>1, <4>3 DEF StrayRaysAreDark
    <3>. QED
      BY <3>2, <3>3
  <2>. QED
    BY <1>1, <2>1, <2>2, Typed
<1>12. GlareOK'
  <2>1. CASE ~build.transparency
    BY <1>1, <1>2, <1>4, <2>1 DEF GlareOK
  <2>2. CASE build.transparency
    <3>1. \A k \in Rays : k > current_ray' \/ (k = current_ray' /\ pc' = "ray")
                           => col'[k] = Garbage
      BY <1>1, <1>2, <1>4, <1>10, <2>2, Typed DEF GlareOK
    <3>2. pc' = "search" => col'[current_ray'] = Black /\ enqueued'[current_ray'] = 1
      BY <1>2, <1>4, <1>10, <2>2
    <3>3. \A k \in Rays, l \in PointLights :
            col'[k] # Garbage => col'[k].glare[l] <= Blinded(k)'
      <4>1. \A k \in Rays : Blinded(k)' = Blinded(k) /\ 0 <= Blinded(k)
        BY <1>1, <1>2, <2>2, Typed DEF Blinded
      <4>. QED
        BY <1>1, <1>10, <2>2, <4>1, BlackFact DEF GlareOK
    <3>. QED
      BY <1>2, <2>2, <3>1, <3>2, <3>3 DEF GlareOK
  <2>. QED
    BY <1>1, <2>1, <2>2, Typed
<1>. QED
  BY <1>5, <1>6, <1>7, <1>8, <1>9, <1>11, <1>12 DEF IInv

LEMMA TestFigureStep == IInv /\ TestFigure => IInv'
<1>. SUFFICES ASSUME IInv, TestFigure PROVE IInv'
  OBVIOUS
<1>1. /\ TypeOK /\ RaysHaveData /\ QueueOK /\ NaNIsRefracted /\ Fresh
      /\ NearestIsFound /\ SearchOK /\ NormalSoFar /\ NormalOfHit
      /\ ShadowOK /\ LitIffVisible /\ StrayRaysAreDark /\ GlareOK
  BY DEF IInv
<1> DEFINE s == search
           i == search.i
           type == Figures[i].type
<1>2. /\ pc = "search" /\ i \in Objects
      /\ build' = build /\ behind' = behind /\ pc' = pc /\ current_ray' = current_ray
      /\ enqueued' = enqueued /\ pos' = pos /\ dir' = dir /\ prod' = prod /\ col' = col
      /\ shadow' = shadow /\ lit' = lit
  BY DEF TestFigure, arrays
<1> DEFINE t(l) == Intersect(type, l)
           taken(l) == Closer(t(l), s.closest_t)
<1>3. PICK l \in LinesMet(dir[Slot].nan, type) :
        search' =
            [i |-> i + 1,
             closest_t |-> IF taken(l) THEN t(l) ELSE s.closest_t,
             closest_obj |-> IF taken(l) THEN i ELSE s.closest_obj,
             closest_type |-> IF taken(l) THEN type ELSE s.closest_type,
             param |-> IF Param(type, l, taken(l))
                       THEN [ray |-> current_ray, of |-> i] ELSE s.param,
             nearest |-> LeastOf(Crossings(type, l), s.nearest)]
  BY DEF TestFigure
<1>4. type \in Types /\ Lines[type] \subseteq LinesOf(type)
  BY <1>2, FigureFact
<1>5. /\ s \in Searches /\ s.closest_t \in Int /\ s.closest_t # NaN
      /\ s.closest_t <= INFINITY /\ s.nearest = s.closest_t
      /\ i \in Nat /\ i <= Len(Figures)
      /\ s.closest_obj \in Objects \cup {0} /\ s.closest_obj < i
      /\ s.param \in Params
  BY <1>1, <1>2, Typed, ConstantFact DEF SearchOK, NearestIsFound, Searches, Objects
<1>6. /\ IsFirst(t(l), Crossings(type, l))
      /\ dir[Slot].nan => Crossings(type, l) = {}
  BY <1>3, <1>4, FirstCrossing, NaNFirst DEF LinesMet
<1> DEFINE T == taken(l)
           w == t(l)
           p == Param(type, l, T)
<1>7. /\ LeastOf(Crossings(type, l), s.closest_t) = IF T THEN w ELSE s.closest_t
      /\ T => w \in Crossings(type, l)
      /\ w \in Int
      /\ T => EPS < w /\ w < INFINITY /\ w # NaN
  <2>. HIDE DEF type
  <2>1. /\ LeastOf(Crossings(type, l), s.closest_t) = IF T THEN w ELSE s.closest_t
        /\ T => w \in Crossings(type, l)
    BY <1>5, <1>6, ClosestIsLeast
  <2>2. w \in Int /\ Crossings(type, l) \subseteq {x \in Int : Ahead(x)}
    BY <1>6 DEF IsFirst
  <2>. QED
    BY <2>1, <2>2 DEF Ahead
<1>8. /\ search'.i = i + 1
      /\ search'.closest_t = IF T THEN w ELSE s.closest_t
      /\ search'.closest_obj = IF T THEN i ELSE s.closest_obj
      /\ search'.closest_type = IF T THEN type ELSE s.closest_type
      /\ search'.param = IF p THEN [ray |-> current_ray, of |-> i] ELSE s.param
      /\ search'.nearest = search'.closest_t
  BY <1>3, <1>5, <1>7
<1>9. /\ p => type \in {"CONE", "TOR"}
      /\ type = "TOR" => (p <=> T)
      /\ type = "CONE" /\ T => p
  <2>1. p <=> (type = "CONE" /\ WritesConeParam(l)) \/ (type = "TOR" /\ T)
    BY DEF Param
  <2>2. ASSUME type = "CONE", T
        PROVE  WritesConeParam(l)
    <3>1. w \in Crossings("CONE", l)
      BY <1>7, <2>2
    <3>. QED
      BY <3>1 DEF Crossings, WritesConeParam
  <2>. QED
    BY <2>1, <2>2
<1>. HIDE DEF T, w, p, type, taken, t
<1>10. TypeOK'
  <2>1. search' \in Searches
    <3>1. i + 1 \in 1 .. Len(Figures) + 1
      BY <1>5
    <3>2. (IF p THEN [ray |-> current_ray, of |-> i] ELSE s.param) \in Params
      BY <1>1, <1>2, <1>5, Typed DEF Params
    <3>3. (IF T THEN type ELSE s.closest_type) \in {TypeOrder[k] : k \in 1..6} \cup {Garbage}
      BY <1>4, <1>5 DEF Types, Searches
    <3>4. (IF T THEN w ELSE s.closest_t) \in Int
      BY <1>5, <1>7
    <3>. QED
      BY <1>2, <1>3, <1>5, <1>7, <3>1, <3>2, <3>3, <3>4 DEF Searches, p, T, w
  <2>. QED
    BY <1>1, <1>2, <2>1 DEF TypeOK, Slot
<1>11. RaysHaveData' /\ QueueOK' /\ NaNIsRefracted' /\ Fresh'
  BY <1>1, <1>2 DEF RaysHaveData, QueueOK, NaNIsRefracted, Fresh, Slot, Parent, Begun
<1>12. NearestIsFound'
  BY <1>1, <1>2, <1>5, <1>7, <1>8, NumbersFact DEF NearestIsFound, Objects, type
<1>13. SearchOK'
  <2>1. dir[Slot].nan => ~T
    BY <1>6, <1>7
  <2>2. pc' = "search" /\ dir'[Slot'] = dir[Slot]
    BY <1>2 DEF Slot
  <2>3. /\ search'.closest_t # NaN /\ search'.closest_t <= INFINITY
        /\ search'.closest_obj # 0 => search'.closest_t < INFINITY
    BY <1>1, <1>2, <1>5, <1>7, <1>8, NumbersFact DEF SearchOK
  <2>4. search'.closest_obj < search'.i
    BY <1>5, <1>8, ConstantFact DEF Objects
  <2>5. dir[Slot].nan => search'.nearest = INFINITY
    BY <1>1, <1>2, <1>5, <1>8, <2>1 DEF SearchOK
  <2>. QED
    BY <2>2, <2>3, <2>4, <2>5 DEF SearchOK
<1>14. NormalSoFar'
  <2>. SUFFICES ASSUME search'.closest_obj # 0
                PROVE  NormalSoFar'
    BY DEF NormalSoFar
  <2>1. [ray |-> current_ray, of |-> i] # Garbage
    <3>1. [ray |-> current_ray, of |-> i] \in [ray : Nat, of : Nat]
      BY <1>1, <1>5, Typed
    <3>. QED
      BY <3>1, GarbageFact
  <2>2. CASE T
    BY <1>2, <1>5, <1>8, <1>9, <2>1, <2>2 DEF NormalSoFar, type
  <2>3. CASE ~T /\ ~p
    <3>1. search'.param = s.param /\ search'.closest_obj = s.closest_obj
      BY <1>8, <2>3
    <3>2. s.param # Garbage => s.param.of \in Nat
      BY <1>5, ConstantFact DEF Params, Objects
    <3>3. s.param # Garbage /\ s.param.of < i => s.param.of < i + 1
      BY <1>5, <3>2
    <3>. QED
      BY <1>1, <1>2, <1>8, <2>3, <3>1, <3>3 DEF NormalSoFar
  <2>4. CASE ~T /\ p
    <3>1. type = "CONE"
      BY <1>9, <2>4
    <3>2. s.closest_obj # 0 /\ s.closest_obj \in Objects /\ s.closest_obj <= i
      BY <1>5, <1>8, <2>4, ConstantFact DEF Objects
    <3>3. s.closest_type = Figures[s.closest_obj].type
      BY <1>1, <1>2, <3>2 DEF NearestIsFound
    <3>4. s.closest_type # "TOR"
      BY <1>2, <3>1, <3>2, <3>3, ToriAreLast DEF type
    <3>. QED
      BY <1>2, <1>5, <1>8, <2>1, <2>4, <3>1, <3>2, <3>4 DEF NormalSoFar, type
  <2>. QED
    BY <2>2, <2>3, <2>4
<1>15. NormalOfHit' /\ ShadowOK' /\ LitIffVisible' /\ StrayRaysAreDark' /\ GlareOK'
  BY <1>1, <1>2
     DEF NormalOfHit, ShadowOK, LitIffVisible, StrayRaysAreDark, GlareOK, Blinded, Begun, Slot
<1>. QED
  BY <1>10, <1>11, <1>12, <1>13, <1>14, <1>15 DEF IInv

LEMMA GlareTyped ==
  ASSUME TypeOK, NEW k \in Rays, NEW l \in PointLights, col[k] # Garbage
  PROVE  col[k].glare[l] \in Nat
BY Typed DEF Colours, ColourSums

\* The glare changes no share; each light adds one at the most, and none without
\* RTX_DIRECT; of a ray without a direction every light does.
LEMMA GlareFact ==
  ASSUME TypeOK, Slot \in Rays, col[Slot] # Garbage, dir[Slot] # Garbage, Blind
  PROVE  /\ col' \in [Rays -> Colours] /\ col'[Slot] # Garbage
         /\ \A k \in Rays : k # Slot => col'[k] = col[k]
         /\ col'[Slot].share = col[Slot].share
         /\ \A l \in PointLights :
              /\ col[Slot].glare[l] \in Nat
              /\ col'[Slot].glare[l] <= col[Slot].glare[l] + 1
              /\ ~build.direct => col'[Slot].glare[l] <= col[Slot].glare[l]
         /\ dir[Slot].nan => (col'[Slot].white
                                <=> col[Slot].white \/ (build.direct /\ PointLights # {}))
<1>1. PICK lights \in Blinding, aimed \in BOOLEAN :
        col' = [col EXCEPT ![Slot] = Glare(col[Slot], lights, aimed)]
  BY DEF Blind
<1> DEFINE c == col[Slot]
           g == [l \in PointLights |-> c.glare[l] + IF l \in lights THEN 1 ELSE 0]
           h == c.white \/ (lights # {} /\ (dir[Slot].nan \/ aimed))
<1>2. c \in ColourSums
  BY Typed DEF Colours
<1>3. c.share \in Int /\ c.glare \in [PointLights -> Nat] /\ c.white \in BOOLEAN
  BY <1>2 DEF ColourSums
<1>4. Glare(c, lights, aimed) = [c EXCEPT !.glare = g, !.white = h]
  BY DEF Glare
<1>5. g \in [PointLights -> Nat] /\ h \in BOOLEAN
  BY <1>3
<1>6. \A l \in PointLights : /\ c.glare[l] \in Nat /\ g[l] <= c.glare[l] + 1
                             /\ ~build.direct => g[l] <= c.glare[l]
  BY <1>3 DEF Blinding
<1>7. dir[Slot].nan => (h <=> c.white \/ (build.direct /\ PointLights # {}))
  BY DEF Blinding
<1>. HIDE DEF c, g, h
<1>8. /\ Glare(c, lights, aimed) \in ColourSums /\ Glare(c, lights, aimed).share = c.share
      /\ Glare(c, lights, aimed).glare = g /\ Glare(c, lights, aimed).white = h
  BY <1>2, <1>3, <1>4, <1>5 DEF ColourSums
<1>9. Glare(c, lights, aimed) # Garbage /\ Glare(c, lights, aimed) \in Colours
  BY <1>8, GarbageFact DEF Colours
<1>10. /\ col'[Slot] = Glare(c, lights, aimed) /\ col' \in [Rays -> Colours]
       /\ \A k \in Rays : k # Slot => col'[k] = col[k]
  BY <1>1, <1>9 DEF TypeOK, c
<1>. QED
  BY <1>6, <1>7, <1>8, <1>9, <1>10 DEF c

\* What a search that ends leaves of the glare, whether it found a figure or not.
LEMMA GlareStep ==
  ASSUME TypeOK, GlareOK, Slot \in Rays, col[Slot] # Garbage, dir[Slot] # Garbage, Blind,
         QueueOK, pc = "search", build' = build, enqueued' = enqueued, dir' = dir,
         build.transparency => \/ pc' = "ray" /\ current_ray' = current_ray + 1
                               \/ pc' = "light" /\ current_ray' = current_ray,
         ~build.transparency => pc' \in {"sum", "light"} /\ current_ray' = current_ray
  PROVE  GlareOK'
<1>1. CASE ~build.transparency
  <2>1. Slot = 1 /\ current_ray \in Nat
    BY <1>1, Typed DEF Slot
  <2>2. ASSUME NEW l \in PointLights
        PROVE  col'[1].glare[l] <= IF ~build.direct THEN 0 ELSE current_ray
    <3>1. /\ col[1].glare[l] \in Nat
          /\ col[1].glare[l] <= IF ~build.direct THEN 0 ELSE current_ray - 1
      BY <1>1, <2>1, GlareFact DEF GlareOK
    <3>2. /\ col'[1].glare[l] <= col[1].glare[l] + 1
          /\ ~build.direct => col'[1].glare[l] <= col[1].glare[l]
      BY <2>1, GlareFact
    <3>3. col'[1].glare[l] \in Nat
      <4>1. col'[1] \in ColourSums
        BY <2>1, GlareFact DEF Colours
      <4>. QED
        BY <4>1 DEF ColourSums
    <3>. QED
      BY <2>1, <3>1, <3>2, <3>3
  <2>. QED
    BY <1>1, <2>2 DEF GlareOK
<1>2. CASE build.transparency
  <2>1. /\ Slot = current_ray /\ current_ray \in Nat /\ col[current_ray] = Black
        /\ enqueued[current_ray] = 1
    BY <1>2, Typed DEF Slot, GlareOK
  <2>2. \A k \in Rays : k # current_ray => col'[k] = col[k]
    BY <2>1, GlareFact
  <2>3. \A k \in Rays : k > current_ray' \/ (k = current_ray' /\ pc' = "ray")
                         => k # current_ray /\ k > current_ray
    BY <1>2, <2>1, Typed
  <2>4. \A k \in Rays : Blinded(k)' = Blinded(k)
    BY <1>2 DEF Blinded
  <2>5. ASSUME NEW l \in PointLights
        PROVE  col'[current_ray].glare[l] <= Blinded(current_ray)
    <3>1. /\ col'[current_ray].glare[l] <= 0 + 1
          /\ ~build.direct => col'[current_ray].glare[l] <= 0
      BY <2>1, BlackFact, GlareFact
    <3>. QED
      BY <1>2, <2>1, <3>1 DEF Blinded
  <2>6. \A k \in Rays, l \in PointLights :
          col'[k] # Garbage => col'[k].glare[l] <= Blinded(k)'
    BY <1>2, <2>2, <2>4, <2>5 DEF GlareOK
  <2>7. \A k \in Rays : k > current_ray' \/ (k = current_ray' /\ pc' = "ray")
                         => col'[k] = Garbage
    BY <1>2, <2>2, <2>3 DEF GlareOK
  <2>. QED
    BY <1>2, <2>6, <2>7 DEF GlareOK
<1>. QED
  BY <1>1, <1>2, Typed

LEMMA ForgetFact ==
  ASSUME TypeOK, Forget
  PROVE  /\ search' \in Searches /\ shadow' \in Shadows
         /\ search'.i = 1 /\ search'.closest_obj = 0
         /\ search'.closest_t = INFINITY /\ search'.nearest = INFINITY
         /\ shadow' = NoShadow /\ lit' = {} /\ shadow'.light = 1
<1>1. search.param \in Params
  BY Typed DEF Searches
<1>2. search' = [NoSearch EXCEPT !.param = search.param] /\ shadow' = NoShadow /\ lit' = {}
  BY DEF Forget
<1>3. search' \in Searches
  BY <1>1, <1>2, ConstantFact, NumbersFact DEF NoSearch, Searches
<1>4. shadow' \in Shadows /\ shadow'.light = 1
  BY <1>2, ConstantFact DEF NoShadow, Shadows
<1>5. /\ search'.i = 1 /\ search'.closest_obj = 0
      /\ search'.closest_t = INFINITY /\ search'.nearest = INFINITY
  BY <1>2 DEF NoSearch
<1>. QED
  BY <1>2, <1>3, <1>4, <1>5

LEMMA MissStep == IInv /\ Miss => IInv'
<1>. SUFFICES ASSUME IInv, Miss PROVE IInv'
  OBVIOUS
<1>1. /\ TypeOK /\ RaysHaveData /\ QueueOK /\ NaNIsRefracted /\ Fresh
      /\ NearestIsFound /\ SearchOK /\ NormalSoFar /\ NormalOfHit
      /\ ShadowOK /\ LitIffVisible /\ StrayRaysAreDark /\ GlareOK
  BY DEF IInv
<1>2. /\ pc = "search" /\ Forget /\ Blind
      /\ build' = build /\ behind' = behind /\ enqueued' = enqueued /\ pos' = pos
      /\ dir' = dir /\ prod' = prod
      /\ build.transparency => pc' = "ray" /\ current_ray' = current_ray + 1
      /\ ~build.transparency => pc' = "sum" /\ current_ray' = current_ray
  BY DEF Miss
<1>3. Slot \in Rays /\ col[Slot] # Garbage /\ dir[Slot] # Garbage
  BY <1>1, <1>2 DEF TypeOK, RaysHaveData
<1>4. /\ col' \in [Rays -> Colours] /\ col'[Slot] # Garbage
      /\ \A k \in Rays : k # Slot => col'[k] = col[k]
      /\ col'[Slot].share = col[Slot].share
      /\ \A l \in PointLights :
           /\ col[Slot].glare[l] \in Nat
           /\ col'[Slot].glare[l] <= col[Slot].glare[l] + 1
           /\ ~build.direct => col'[Slot].glare[l] <= col[Slot].glare[l]
      /\ dir[Slot].nan => (col'[Slot].white
                             <=> col[Slot].white \/ (build.direct /\ PointLights # {}))
  BY <1>1, <1>3, GlareFact DEF Miss
<1>5. pc' \in {"ray", "sum"}
  BY <1>1, <1>2, Typed
<1>6. TypeOK'
  <2>1. current_ray' \in 1 .. IF build.transparency THEN RECURSION_DEPTH ELSE BOUNCES + 1
    <3>1. build.transparency => current_ray < RECURSION_DEPTH
      BY <1>3, <1>1, Typed DEF Slot
    <3>. QED
      BY <1>1, <1>2, <3>1, Typed, ConstantFact
  <2>2. pc' = "sum" => Slot' \in Rays
    BY <1>2, ConstantFact DEF Slot
  <2>. QED
    BY <1>1, <1>2, <1>4, <1>5, <2>1, <2>2, ForgetFact, ConstantFact DEF TypeOK
<1>7. RaysHaveData'
  <2>1. ASSUME NEW k \in Begun', k < Slot', col'[k] = Garbage
        PROVE  behind' = "col" /\ CELLS.col * k < RECURSION_DEPTH
    <3>1. k \in Rays /\ k # Slot /\ col[k] = Garbage
      BY <1>1, <1>2, <1>4, <2>1, <1>3 DEF Begun
    <3>2. k \in Begun /\ k < Slot
      BY <1>1, <1>2, <2>1, <3>1, Typed DEF Begun, Slot
    <3>. QED
      BY <1>1, <1>2, <3>1, <3>2 DEF RaysHaveData
  <2>. QED
    BY <1>5, <2>1 DEF RaysHaveData
<1>8. QueueOK'
  BY <1>1, <1>2, <1>5, Typed DEF QueueOK
<1>9. NaNIsRefracted' /\ Fresh'
  BY <1>1, <1>2, ForgetFact DEF NaNIsRefracted, Fresh
<1>10. NearestIsFound' /\ SearchOK' /\ NormalSoFar' /\ NormalOfHit' /\ ShadowOK' /\ LitIffVisible'
  BY <1>5 DEF NearestIsFound, SearchOK, NormalSoFar, NormalOfHit, ShadowOK, LitIffVisible
<1>11. StrayRaysAreDark'
  <2>1. CASE ~build.transparency
    BY <1>1, <1>2, <1>5, <2>1, Typed DEF StrayRaysAreDark, GlareOK, Begun, Slot
  <2>2. CASE build.transparency
    <3>. SUFFICES ASSUME NEW k \in Begun', dir'[k] # Garbage, dir'[k].nan, col'[k] # Garbage
                  PROVE  /\ col'[k].share = 0
                         /\ k < Slot' /\ enqueued'[k] = 1 =>
                              (col'[k].white <=> build'.direct /\ PointLights # {})
      BY <1>5 DEF StrayRaysAreDark
    <3>1. k \in Rays /\ k \in Nat /\ 1 <= k /\ k <= Slot' /\ Slot = current_ray
      BY <1>1, <2>2, Typed DEF Begun, Slot
    <3>2. CASE k = Slot
      <4>1. col[Slot] = Black
        BY <1>1, <1>2, <2>2, <3>1 DEF GlareOK
      <4>. QED
        BY <1>2, <1>4, <3>2, <4>1, BlackFact
    <3>3. CASE k # Slot
      <4>1. col'[k] = col[k]
        BY <1>4, <3>1, <3>3
      <4>2. k < current_ray
        BY <1>1, <2>2, <3>1, <3>3, <4>1, Typed DEF GlareOK
      <4>3. k \in Begun /\ k < Slot
        BY <3>1, <4>2, Typed, <1>1 DEF Begun
      <4>. QED
        BY <1>1, <1>2, <4>1, <4>3 DEF StrayRaysAreDark
    <3>. QED
      BY <3>2, <3>3
  <2>. QED
    BY <1>1, <2>1, <2>2, Typed
<1>12. GlareOK'
  BY <1>1, <1>2, <1>3, <1>4, <1>5, GlareStep
<1>. QED
  BY <1>6, <1>7, <1>8, <1>9, <1>10, <1>11, <1>12 DEF IInv

LEMMA HitStep == IInv /\ Hit => IInv'
<1>. SUFFICES ASSUME IInv, Hit PROVE IInv'
  OBVIOUS
<1>1. /\ TypeOK /\ RaysHaveData /\ QueueOK /\ NaNIsRefracted /\ Fresh
      /\ NearestIsFound /\ SearchOK /\ NormalSoFar /\ NormalOfHit
      /\ ShadowOK /\ LitIffVisible /\ StrayRaysAreDark /\ GlareOK
  BY DEF IInv
<1>2. /\ pc = "search" /\ search.closest_obj # 0 /\ pc' = "light"
      /\ build' = build /\ behind' = behind /\ enqueued' = enqueued
      /\ current_ray' = current_ray /\ dir' = dir /\ prod' = prod
      /\ shadow' = shadow /\ lit' = lit
      /\ pos' = [pos EXCEPT ![Slot] = current_ray]
      /\ search' = [search EXCEPT !.closest_t = INFINITY, !.nearest = INFINITY]
  BY DEF Hit
<1>3. Slot \in Rays /\ col[Slot] # Garbage /\ dir[Slot] # Garbage
  BY <1>1, <1>2 DEF TypeOK, RaysHaveData
<1>4. /\ col' \in [Rays -> Colours] /\ col'[Slot] # Garbage
      /\ \A k \in Rays : k # Slot => col'[k] = col[k]
  BY <1>1, <1>3, GlareFact DEF Hit
<1>5. /\ pos'[Slot] = current_ray /\ pos' \in [Rays -> Nat \cup {Garbage}]
      /\ \A k \in Rays : k # Slot => pos'[k] = pos[k]
  BY <1>1, <1>2, <1>3, Typed DEF TypeOK
<1>6. /\ search' \in Searches /\ search'.closest_obj = search.closest_obj
      /\ search'.closest_type = search.closest_type /\ search'.param = search.param
      /\ search'.i = search.i
  BY <1>1, <1>2, Typed, NumbersFact DEF Searches
<1>7. Slot' = Slot /\ Parent' = Parent /\ Begun' = Begun
  BY <1>2 DEF Slot, Parent, Begun
<1>8. TypeOK'
  BY <1>1, <1>2, <1>3, <1>4, <1>5, <1>6, <1>7 DEF TypeOK
<1>9. RaysHaveData'
  <2>1. current_ray # Garbage
    BY <1>1, Typed, GarbageFact
  <2>2. \A k \in Begun' : k < Slot' /\ col'[k] = Garbage =>
             behind' = "col" /\ CELLS.col * k < RECURSION_DEPTH
    BY <1>1, <1>2, <1>3, <1>4, <1>7 DEF RaysHaveData, Begun
  <2>3. /\ prod'[Slot'] # Garbage /\ dir'[Slot'] # Garbage /\ pos'[Slot'] # Garbage
        /\ col'[Slot'] # Garbage
        /\ dir'[Slot'].from = Parent' /\ pos'[Slot'] = current_ray'
    BY <1>1, <1>2, <1>3, <1>4, <1>5, <1>7, <2>1 DEF RaysHaveData
  <2>. QED
    BY <1>2, <2>2, <2>3 DEF RaysHaveData
<1>10. QueueOK'
  <2>1. \A k \in Rays : build.transparency /\ k > current_ray => pos'[k] = pos[k]
    BY <1>1, <1>5, Typed DEF Slot
  <2>. QED
    BY <1>1, <1>2, <2>1, Typed DEF QueueOK
<1>11. NaNIsRefracted' /\ Fresh' /\ NearestIsFound' /\ NormalSoFar'
  BY <1>1, <1>2 DEF NaNIsRefracted, Fresh, NearestIsFound, NormalSoFar
<1>12. SearchOK' /\ NormalOfHit'
  BY <1>1, <1>2, <1>6 DEF SearchOK, NormalOfHit, NormalSoFar, NearestIsFound
<1>13. ShadowOK' /\ LitIffVisible'
  BY <1>1, <1>2 DEF ShadowOK, LitIffVisible, Fresh, NoShadow
<1>14. StrayRaysAreDark'
  <2>1. ~dir[Slot].nan
    BY <1>1, <1>2, NumbersFact DEF SearchOK, NearestIsFound
  <2>2. ASSUME NEW k \in Begun', dir'[k] # Garbage, dir'[k].nan, col'[k] # Garbage
        PROVE  /\ col'[k].share = 0
               /\ k < Slot' /\ enqueued'[k] = 1 =>
                    (col'[k].white <=> build'.direct /\ PointLights # {})
    <3>1. k \in Begun /\ k \in Rays /\ k # Slot /\ Slot' = Slot
      BY <1>2, <2>1, <2>2 DEF Begun, Slot
    <3>2. col'[k] = col[k] /\ dir[k] # Garbage /\ dir[k].nan /\ col[k] # Garbage
      BY <1>2, <1>4, <2>2, <3>1
    <3>3. /\ col[k].share = 0
          /\ k < Slot /\ enqueued[k] = 1 =>
               (col[k].white <=> build.direct /\ PointLights # {})
      BY <1>1, <3>1, <3>2 DEF StrayRaysAreDark
    <3>. QED
      BY <1>2, <3>1, <3>2, <3>3
  <2>. QED
    BY <1>2, <2>1, <2>2 DEF StrayRaysAreDark, Slot
<1>15. GlareOK'
  BY <1>1, <1>2, <1>3, GlareStep DEF Hit
<1>. QED
  BY <1>8, <1>9, <1>10, <1>11, <1>12, <1>13, <1>14, <1>15 DEF IInv

\* The steps of compute_lightning_rtx touch nothing but the light's state.
LEMMA LightStep ==
  ASSUME IInv, pc \in {"light", "shadow"}, pc' \in {"light", "shadow"},
         build' = build, behind' = behind, current_ray' = current_ray,
         enqueued' = enqueued, pos' = pos, dir' = dir, prod' = prod, col' = col,
         search' = search, shadow' \in Shadows, shadow'.light \in 1 .. Len(Lights) + 1,
         pc' = "shadow" => shadow'.light \in DOMAIN Lights,
         lit' \subseteq DOMAIN Lights, ShadowOK', LitIffVisible'
  PROVE  IInv'
<1>1. /\ TypeOK /\ RaysHaveData /\ QueueOK /\ NaNIsRefracted /\ Fresh
      /\ NearestIsFound /\ SearchOK /\ NormalSoFar /\ NormalOfHit
      /\ ShadowOK /\ LitIffVisible /\ StrayRaysAreDark /\ GlareOK
  BY DEF IInv
<1>2. TypeOK'
  BY <1>1 DEF TypeOK, Slot
<1>3. RaysHaveData'
  BY <1>1 DEF RaysHaveData, Slot, Parent, Begun
<1>4. QueueOK' /\ NaNIsRefracted' /\ Fresh' /\ NearestIsFound' /\ NormalSoFar'
  BY <1>1 DEF QueueOK, NaNIsRefracted, Fresh, NearestIsFound, NormalSoFar
<1>5. SearchOK' /\ NormalOfHit'
  BY <1>1 DEF SearchOK, NormalOfHit
<1>6. StrayRaysAreDark' /\ GlareOK'
  BY <1>1 DEF StrayRaysAreDark, Begun, Slot, GlareOK, Blinded
<1>. QED
  BY <1>2, <1>3, <1>4, <1>5, <1>6 DEF IInv

LEMMA ShadowFact ==
  ASSUME IInv, pc \in {"light", "shadow"}
  PROVE  /\ shadow \in Shadows /\ shadow.light \in 1 .. Len(Lights) + 1
         /\ shadow.light \in Int /\ shadow.i \in Nat /\ shadow.i <= Len(Figures) + 1
         /\ shadow.end \in Int /\ shadow.between \in BOOLEAN
         /\ lit \subseteq DOMAIN Lights /\ lit \subseteq 1 .. shadow.light - 1
         /\ ShadowOK /\ LitIffVisible
BY Typed, ConstantFact DEF IInv, TypeOK, ShadowOK, Shadows

LEMMA AmbientLightStep == IInv /\ AmbientLight => IInv'
<1>. SUFFICES ASSUME IInv, AmbientLight PROVE IInv'
  OBVIOUS
<1>1. /\ pc = "light" /\ pc' = pc /\ shadow.light \in DOMAIN Lights
      /\ Lights[shadow.light] = "AMBIENT"
      /\ lit' = lit \cup {shadow.light} /\ shadow' = [shadow EXCEPT !.light = @ + 1]
      /\ build' = build /\ behind' = behind /\ current_ray' = current_ray
      /\ enqueued' = enqueued /\ pos' = pos /\ dir' = dir /\ prod' = prod /\ col' = col
      /\ search' = search
  BY DEF AmbientLight, arrays
<1>2. /\ shadow' \in Shadows /\ shadow'.light = shadow.light + 1
  BY <1>1, ShadowFact DEF Shadows
<1>3. shadow'.light \in 1 .. Len(Lights) + 1 /\ lit' \subseteq DOMAIN Lights
  BY <1>1, <1>2, ShadowFact, ConstantFact
<1>4. ShadowOK'
  BY <1>1, <1>2, ShadowFact, ConstantFact DEF ShadowOK
<1>5. LitIffVisible'
  BY <1>1, <1>2, ShadowFact DEF LitIffVisible
<1>. QED
  BY <1>1, <1>2, <1>3, <1>4, <1>5, LightStep

LEMMA SeekLightStep == IInv /\ SeekLight => IInv'
<1>. SUFFICES ASSUME IInv, SeekLight PROVE IInv'
  OBVIOUS
<1>1. /\ pc = "light" /\ pc' = "shadow" /\ shadow.light \in DOMAIN Lights
      /\ lit' = lit
      /\ build' = build /\ behind' = behind /\ current_ray' = current_ray
      /\ enqueued' = enqueued /\ pos' = pos /\ dir' = dir /\ prod' = prod /\ col' = col
      /\ search' = search
  BY DEF SeekLight, arrays
<1>2. PICK end \in IF Lights[shadow.light] = "POINT" THEN LightDistances ELSE {INFINITY} :
        shadow' = [light |-> shadow.light, i |-> 1, end |-> end, between |-> FALSE]
  BY DEF SeekLight
<1>3. end \in Int /\ end > EPS /\ end # NaN /\ end <= INFINITY
  BY RayTracerAssumption, NumbersFact DEF Distance
<1>4. /\ shadow' \in Shadows /\ shadow'.light = shadow.light /\ ~shadow'.between
      /\ shadow'.end = end
  BY <1>1, <1>2, <1>3, ShadowFact, ConstantFact DEF Shadows
<1>5. ShadowOK'
  BY <1>1, <1>3, <1>4, ShadowFact DEF ShadowOK
<1>6. LitIffVisible'
  BY <1>1 DEF LitIffVisible
<1>. QED
  BY <1>1, <1>4, <1>5, <1>6, ShadowFact, LightStep

LEMMA TestShadowStep == IInv /\ TestShadow => IInv'
<1>. SUFFICES ASSUME IInv, TestShadow PROVE IInv'
  OBVIOUS
<1> DEFINE type == Figures[shadow.i].type
           C(l) == \E x \in Crossings(type, l) : x < shadow.end
           crossed(l) == shadow.between \/ C(l)
<1>1. /\ pc = "shadow" /\ shadow.i \in Objects /\ lit' = lit
      /\ build' = build /\ behind' = behind /\ current_ray' = current_ray
      /\ enqueued' = enqueued /\ pos' = pos /\ dir' = dir /\ prod' = prod /\ col' = col
      /\ search' = search
  BY DEF TestShadow, arrays
<1>2. PICK l \in Lines[type] :
        IF Hides(Intersect(type, l), shadow.end)
        THEN /\ pc' = "light"
             /\ shadow' = [light |-> shadow.light + 1, i |-> 1,
                            end |-> shadow.end, between |-> crossed(l)]
        ELSE /\ shadow' = [light |-> shadow.light, i |-> shadow.i + 1,
                            end |-> shadow.end, between |-> crossed(l)]
             /\ pc' = pc
  BY DEF TestShadow
<1>3. type \in Types /\ l \in LinesOf(type)
  BY <1>1, <1>2, FigureFact
<1>4. IsFirst(Intersect(type, l), Crossings(type, l))
  BY <1>3, FirstCrossing
<1>5. /\ ~shadow.between /\ shadow.end > EPS /\ shadow.end # NaN /\ shadow.end <= INFINITY
      /\ shadow.end \in Int /\ shadow.light \in DOMAIN Lights
  BY <1>1, ShadowFact DEF ShadowOK, IInv, TypeOK
<1>6. Hides(Intersect(type, l), shadow.end) <=> C(l)
  <2>. HIDE DEF type
  <2>1. \A x \in Crossings(type, l) : x \in Int /\ x # NaN /\ EPS < x
    BY <1>4 DEF IsFirst, Ahead
  <2>2. CASE Crossings(type, l) = {}
    BY <1>4, <1>5, <2>2, NumbersFact DEF IsFirst, Hides, Lt
  <2>3. CASE Crossings(type, l) # {}
    <3>1. /\ Intersect(type, l) \in Crossings(type, l)
          /\ \A x \in Crossings(type, l) : Intersect(type, l) <= x
      BY <1>4, <2>3 DEF IsFirst
    <3>. QED
      BY <1>5, <2>1, <3>1, NumbersFact DEF Hides, Lt
  <2>. QED
    BY <2>2, <2>3
<1>7. (C(l) => crossed(l) = TRUE) /\ (~C(l) => crossed(l) = FALSE)
  BY <1>5
<1>. HIDE DEF type, C, crossed
<1>8. CASE C(l)
  <2>1. pc' = "light" /\ shadow' = [light |-> shadow.light + 1, i |-> 1,
                                      end |-> shadow.end, between |-> TRUE]
    BY <1>2, <1>6, <1>7, <1>8
  <2>2. shadow' \in Shadows /\ shadow'.light = shadow.light + 1 /\ shadow'.between
    BY <1>1, <2>1, ShadowFact, ConstantFact DEF Shadows
  <2>3. shadow'.light \in 1 .. Len(Lights) + 1
    BY <1>5, <2>2, ConstantFact
  <2>4. ShadowOK'
    BY <1>1, <2>1, <2>2, ShadowFact DEF ShadowOK
  <2>5. shadow.light \notin lit /\ shadow'.light - 1 = shadow.light
    BY <1>1, <2>2, ShadowFact
  <2>6. LitIffVisible'
    BY <1>1, <1>7, <1>8, <2>2, <2>5 DEF LitIffVisible
  <2>. QED
    BY <1>1, <2>1, <2>2, <2>3, <2>4, <2>6, ShadowFact, LightStep
<1>9. CASE ~C(l)
  <2>1. pc' = "shadow" /\ shadow' = [light |-> shadow.light, i |-> shadow.i + 1,
                                       end |-> shadow.end, between |-> FALSE]
    BY <1>1, <1>2, <1>6, <1>7, <1>9
  <2>2. /\ shadow' \in Shadows /\ shadow'.light = shadow.light
        /\ ~shadow'.between /\ shadow'.end = shadow.end
    BY <1>1, <2>1, ShadowFact, ConstantFact DEF Shadows, Objects
  <2>3. ShadowOK'
    BY <1>1, <1>5, <1>7, <1>9, <2>1, <2>2, ShadowFact DEF ShadowOK
  <2>4. LitIffVisible'
    BY <2>1 DEF LitIffVisible
  <2>. QED
    BY <1>1, <1>5, <2>1, <2>2, <2>3, <2>4, ShadowFact, LightStep
<1>. QED
  BY <1>8, <1>9

LEMMA NotHiddenStep == IInv /\ NotHidden => IInv'
<1>. SUFFICES ASSUME IInv, NotHidden PROVE IInv'
  OBVIOUS
<1>1. /\ pc = "shadow" /\ pc' = "light"
      /\ lit' = lit \cup {shadow.light} /\ shadow' = [shadow EXCEPT !.light = @ + 1]
      /\ build' = build /\ behind' = behind /\ current_ray' = current_ray
      /\ enqueued' = enqueued /\ pos' = pos /\ dir' = dir /\ prod' = prod /\ col' = col
      /\ search' = search
  BY DEF NotHidden, arrays
<1>2. ~shadow.between /\ shadow.light \in DOMAIN Lights
  BY <1>1, ShadowFact DEF ShadowOK, IInv, TypeOK
<1>3. /\ shadow' \in Shadows /\ shadow'.light = shadow.light + 1 /\ ~shadow'.between
  BY <1>1, <1>2, ShadowFact DEF Shadows
<1>4. shadow'.light \in 1 .. Len(Lights) + 1 /\ lit' \subseteq DOMAIN Lights
  BY <1>1, <1>2, <1>3, ShadowFact, ConstantFact
<1>5. ShadowOK'
  BY <1>1, <1>3, ShadowFact, ConstantFact, <1>2 DEF ShadowOK
<1>6. LitIffVisible'
  BY <1>1, <1>3, ShadowFact DEF LitIffVisible
<1>. QED
  BY <1>1, <1>3, <1>4, <1>5, <1>6, LightStep

\* Flags behind the end of ray_enqueued reach only rays before the current one.
LEMMA DamageFact ==
  ASSUME current_ray \in Rays, NEW a \in {"prod", "dir", "pos", "col"},
         NEW e \in Damaged(a)
  PROVE  /\ e \in Rays /\ e < current_ray /\ behind = a
         /\ 2 * current_ray + 1 >= RECURSION_DEPTH
         /\ a = "col" => CELLS.col * e < RECURSION_DEPTH
<1>1. /\ behind = a /\ e \in Rays
      /\ \E k \in Enqueues \ Rays :
            /\ CELLS[a] * e <= k - RECURSION_DEPTH
            /\ k - RECURSION_DEPTH < CELLS[a] * (e + 1)
  BY DEF Damaged
<1>2. PICK k \in Enqueues \ Rays : CELLS[a] * e <= k - RECURSION_DEPTH
  BY <1>1
<1>3. k \in {2 * current_ray, 2 * current_ray + 1}
  BY <1>2 DEF Enqueues
<1>4. current_ray \in Nat /\ current_ray < RECURSION_DEPTH /\ e \in Nat
  BY <1>1, ConstantFact DEF Rays
<1>5. CELLS[a] \in {2, 8} /\ CELLS.col = 8 /\ (a = "col" => CELLS[a] = 8)
  BY DEF CELLS
<1>6. 2 * e <= 2 * current_ray + 1 - RECURSION_DEPTH
  <2>1. CASE CELLS[a] = 2
    BY <1>2, <1>3, <1>4, <2>1, ConstantFact
  <2>2. CASE CELLS[a] = 8
    BY <1>2, <1>3, <1>4, <2>2, ConstantFact
  <2>. QED
    BY <1>5, <2>1, <2>2
<1>7. a = "col" => 8 * e <= 2 * current_ray + 1 - RECURSION_DEPTH
  BY <1>2, <1>3, <1>4, <1>5, ConstantFact
<1>. QED
  BY <1>1, <1>4, <1>5, <1>6, <1>7, ConstantFact

\* What Shade does to the elements that are not overwritten from behind.
LEMMA OverwriteFact ==
  ASSUME NEW f, NEW a, NEW k \in Rays
  PROVE  /\ k \in Damaged(a) => Overwrite(f, a)[k] = Garbage
         /\ k \notin Damaged(a) => Overwrite(f, a)[k] = f[k]
BY DEF Overwrite

LEMMA ShadeStep == IInv /\ Shade => IInv'
<1>. SUFFICES ASSUME IInv, Shade PROVE IInv'
  OBVIOUS
<1>1. /\ TypeOK /\ RaysHaveData /\ QueueOK /\ NaNIsRefracted /\ Fresh
      /\ NearestIsFound /\ SearchOK /\ NormalSoFar /\ NormalOfHit
      /\ ShadowOK /\ LitIffVisible /\ StrayRaysAreDark /\ GlareOK
  BY DEF IInv
<1> DEFINE i == current_ray
           w == prod[i]
<1>2. /\ pc = "light" /\ build.transparency /\ pc' = "ray" /\ current_ray' = i + 1 /\ Forget
      /\ build' = build /\ behind' = behind
      /\ enqueued' = [k \in Rays |-> IF k \in Enqueues THEN 1 ELSE enqueued[k]]
  BY DEF Shade
<1>3. /\ i \in Nat /\ i >= 1 /\ i \in Rays /\ i < RECURSION_DEPTH /\ Slot = i
      /\ w # Garbage /\ dir[i] # Garbage /\ pos[i] = i /\ col[i] # Garbage
      /\ w \in Int /\ col[i] \in ColourSums
  <2>1. Slot = i /\ i \in Rays
    BY <1>1, <1>2 DEF TypeOK, Slot
  <2>. QED
    BY <1>1, <1>2, <2>1, Typed DEF RaysHaveData, Weights, Colours
<1>4. search.closest_obj \in Objects
  BY <1>1, <1>2, Typed DEF SearchOK, Searches
<1>5. refl \in Int /\ trans \in Int /\ ONE \in Int
  BY <1>4, FigureFact, ConstantFact DEF refl, trans, ONE
<1>6. /\ OwnShare(w) \in Int /\ ReflectedShare(w) \in Int /\ RefractedShare(w) \in Int
  <2>1. ONE - refl \in Int /\ ONE - trans \in Int
    BY <1>5
  <2>. QED
    BY <1>3, <1>5, <2>1, PartInt DEF OwnShare, ReflectedShare, RefractedShare
<1>7. Spreads => 2 * i \in Rays /\ 2 * i + 1 \in Rays
  BY <1>3, ConstantFact DEF Spreads, Rays
<1>8. ASSUME NEW k \in Enqueues, k \in Rays
      PROVE  Spreads /\ k \div 2 = i /\ k \in {2 * i, 2 * i + 1}
  <2>1. k \in {2 * i, 2 * i + 1} /\ (trans > 1 \/ refl > 1)
    BY <1>8 DEF Enqueues
  <2>2. 2 * i < RECURSION_DEPTH
    BY <1>3, <1>8, <2>1, ConstantFact DEF Rays
  <2>3. Spreads
    BY <1>3, <1>5, <2>1, <2>2, ConstantFact DEF Spreads
  <2>4. k \div 2 = i
    BY <1>3, <2>1
  <2>. QED
    BY <2>1, <2>3, <2>4
<1> DEFINE child == IF Spreads THEN {2 * i, 2 * i + 1} ELSE {}
<1>9. ASSUME NEW k \in Rays
      PROVE  /\ dir'[k] \in Directions
             /\ dir'[k] = Garbage \/ k \in child \/ dir'[k] = dir[k]
             /\ k \in child /\ k > i => dir'[k] # Garbage /\ dir'[k].from = i
             /\ k \in child /\ dir'[k] # Garbage /\ dir'[k].nan => build.refractive
             /\ k > i /\ k \notin child => dir'[k] = dir[k]
  <2>1. k \in Int /\ (k \in Damaged("dir") => k < i)
    BY <1>1, <1>3, Typed, DamageFact
  <2>2. CASE Spreads
    <3>1. PICK stray \in Refractions :
            dir' = Overwrite([dir EXCEPT
                           ![2*i] = [from |-> i, nan |-> FALSE],
                           ![2*i + 1] = [from |-> i, nan |-> stray]], "dir")
      BY <2>2 DEF Shade
    <3>2. stray \in BOOLEAN /\ (stray => build.refractive)
      BY DEF Refractions
    <3> DEFINE f == [dir EXCEPT ![2*i] = [from |-> i, nan |-> FALSE],
                                ![2*i + 1] = [from |-> i, nan |-> stray]]
    <3>3. f[k] = IF k = 2 * i + 1 THEN [from |-> i, nan |-> stray]
                 ELSE IF k = 2 * i THEN [from |-> i, nan |-> FALSE] ELSE dir[k]
      BY <1>1, <1>3 DEF TypeOK
    <3>4. /\ [from |-> i, nan |-> FALSE] \in [from : Nat, nan : BOOLEAN]
          /\ [from |-> i, nan |-> stray] \in [from : Nat, nan : BOOLEAN]
      BY <1>3, <3>2
    <3>5. /\ [from |-> i, nan |-> FALSE] # Garbage /\ [from |-> i, nan |-> stray] # Garbage
      BY <3>4, GarbageFact
    <3>6. dir[k] \in Directions
      BY <1>1, Typed
    <3>. HIDE DEF f
    <3>7. dir'[k] = IF k \in Damaged("dir") THEN Garbage ELSE f[k]
      BY <3>1, OverwriteFact DEF f
    <3>8. f[k] \in Directions
      BY <3>3, <3>4, <3>6 DEF Directions
    <3>9. k \in child => /\ f[k].from = i /\ f[k] # Garbage
                         /\ f[k].nan => build.refractive
      BY <2>2, <3>2, <3>3, <3>5
    <3>10. k \notin child => f[k] = dir[k]
      BY <2>2, <3>3
    <3>. QED
      BY <1>3, <2>1, <3>7, <3>8, <3>9, <3>10 DEF Directions
  <2>3. CASE ~Spreads
    <3>1. dir' = Overwrite(dir, "dir")
      BY <2>3 DEF Shade
    <3>2. dir[k] \in Directions
      BY <1>1, Typed
    <3>. QED
      BY <1>3, <2>1, <2>3, <3>1, <3>2, OverwriteFact DEF Directions
  <2>. QED
    BY <2>2, <2>3
<1>10. ASSUME NEW k \in Rays
       PROVE  /\ prod'[k] \in Weights
              /\ k \in child /\ k > i => prod'[k] # Garbage
              /\ k > i /\ k \notin child => prod'[k] = prod[k]
  <2>1. k \in Int /\ (k \in Damaged("prod") => k < i)
    BY <1>1, <1>3, Typed, DamageFact
  <2>2. prod[k] \in Weights
    BY <1>1, Typed
  <2>3. CASE Spreads
    <3> DEFINE f == [prod EXCEPT ![2*i] = ReflectedShare(w), ![2*i + 1] = RefractedShare(w)]
    <3>1. prod' = Overwrite(f, "prod")
      BY <2>3 DEF Shade
    <3>2. f[k] = IF k = 2 * i + 1 THEN RefractedShare(w)
                 ELSE IF k = 2 * i THEN ReflectedShare(w) ELSE prod[k]
      BY <1>1, <1>3 DEF TypeOK
    <3>3. ReflectedShare(w) # Garbage /\ RefractedShare(w) # Garbage
      BY <1>6, GarbageFact
    <3>. HIDE DEF f
    <3>4. prod'[k] = IF k \in Damaged("prod") THEN Garbage ELSE f[k]
      BY <3>1, OverwriteFact
    <3>. QED
      BY <1>3, <1>6, <2>1, <2>2, <2>3, <3>2, <3>3, <3>4 DEF Weights
  <2>4. CASE ~Spreads
    <3>1. prod' = Overwrite(prod, "prod")
      BY <2>4 DEF Shade
    <3>. QED
      BY <1>3, <2>1, <2>2, <2>4, <3>1, OverwriteFact DEF Weights
  <2>. QED
    BY <2>3, <2>4
<1>11. ASSUME NEW k \in Rays
       PROVE  /\ pos'[k] \in Nat \cup {Garbage}
              /\ k \in child /\ k > i => pos'[k] # Garbage /\ pos'[k] = i
              /\ k > i /\ k \notin child => pos'[k] = pos[k]
  <2>1. k \in Int /\ (k \in Damaged("pos") => k < i)
    BY <1>1, <1>3, Typed, DamageFact
  <2>2. pos[k] \in Nat \cup {Garbage} /\ i # Garbage
    BY <1>1, <1>3, Typed, GarbageFact
  <2>3. CASE Spreads
    <3> DEFINE f == [pos EXCEPT ![2*i] = pos[i], ![2*i + 1] = pos[i]]
    <3>1. pos' = Overwrite(f, "pos")
      BY <2>3 DEF Shade
    <3>2. f[k] = IF k \in {2 * i, 2 * i + 1} THEN i ELSE pos[k]
      BY <1>1, <1>3 DEF TypeOK
    <3>. HIDE DEF f
    <3>3. pos'[k] = IF k \in Damaged("pos") THEN Garbage ELSE f[k]
      BY <3>1, OverwriteFact
    <3>. QED
      BY <1>3, <2>1, <2>2, <2>3, <3>2, <3>3
  <2>4. CASE ~Spreads
    <3>1. pos' = Overwrite(pos, "pos")
      BY <2>4 DEF Shade
    <3>. QED
      BY <1>3, <2>1, <2>2, <2>4, <3>1, OverwriteFact
  <2>. QED
    BY <2>3, <2>4
<1>12. ASSUME NEW k \in Rays
       PROVE  /\ col'[k] \in Colours
              /\ col'[k] # Garbage => /\ col[k] # Garbage
                                      /\ k # i => col'[k] = col[k]
                                      /\ col'[k].glare = col[k].glare
              /\ col'[k] = Garbage =>
                   \/ k \in Damaged("col") /\ k < i
                   \/ k # i /\ col[k] = Garbage
  <2>1. k \in Int /\ (k \in Damaged("col") => k < i)
    BY <1>1, <1>3, Typed, DamageFact
  <2>2. col[k] \in Colours
    BY <1>1, Typed
  <2> DEFINE v == col[i].share + (IF Spreads THEN OwnShare(w) ELSE w)
             f == [col EXCEPT ![i].share = v]
  <2>3. col' = Overwrite(f, "col")
    BY DEF Shade
  <2>4. v \in Int
    BY <1>3, <1>6 DEF ColourSums
  <2>. HIDE DEF v
  <2>5. /\ [col[i] EXCEPT !.share = v] \in ColourSums
        /\ [col[i] EXCEPT !.share = v].glare = col[i].glare
    BY <1>3, <2>4 DEF ColourSums
  <2>6. f[k] = IF k = i THEN [col[i] EXCEPT !.share = v] ELSE col[k]
    BY <1>1, <1>3 DEF TypeOK
  <2>7. [col[i] EXCEPT !.share = v] # Garbage
    BY <2>5, GarbageFact
  <2>. HIDE DEF f
  <2>8. col'[k] = IF k \in Damaged("col") THEN Garbage ELSE f[k]
    BY <2>3, OverwriteFact
  <2>. QED
    BY <1>3, <2>1, <2>2, <2>5, <2>6, <2>7, <2>8 DEF Colours
<1>13. DOMAIN dir' = Rays /\ DOMAIN prod' = Rays /\ DOMAIN pos' = Rays /\ DOMAIN col' = Rays
  BY DEF Shade, Overwrite
<1>. HIDE DEF w
<1>14. TypeOK'
  <2>1. /\ dir' \in [Rays -> Directions] /\ prod' \in [Rays -> Weights]
        /\ pos' \in [Rays -> Nat \cup {Garbage}] /\ col' \in [Rays -> Colours]
    <3>1. /\ dir' = [k \in Rays |-> dir'[k]] /\ prod' = [k \in Rays |-> prod'[k]]
          /\ pos' = [k \in Rays |-> pos'[k]] /\ col' = [k \in Rays |-> col'[k]]
      BY DEF Shade, Overwrite
    <3>. QED
      BY <3>1, <1>9, <1>10, <1>11, <1>12
  <2>2. enqueued' \in [Rays -> {0, 1}]
    BY <1>1, <1>2 DEF TypeOK
  <2>3. current_ray' \in 1 .. IF build.transparency THEN RECURSION_DEPTH ELSE BOUNCES + 1
    BY <1>2, <1>3, ConstantFact
  <2>. QED
    BY <1>1, <1>2, <2>1, <2>2, <2>3, ForgetFact, ConstantFact DEF TypeOK
<1>15. RaysHaveData'
  <2>1. ASSUME NEW k \in Begun', k < Slot', col'[k] = Garbage
        PROVE  behind' = "col" /\ CELLS.col * k < RECURSION_DEPTH
    <3>1. k \in Rays /\ 1 <= k /\ k < i + 1 /\ k \in Nat
      BY <1>1, <1>2, <2>1, Typed DEF Begun, Slot
    <3>2. CASE k \in Damaged("col")
      BY <1>2, <1>3, <3>2, DamageFact
    <3>3. CASE k # i /\ col[k] = Garbage
      <4>1. k \in Begun /\ k < Slot
        BY <1>3, <3>1, <3>3 DEF Begun
      <4>. QED
        BY <1>1, <1>2, <3>3, <4>1 DEF RaysHaveData
    <3>. QED
      BY <1>12, <2>1, <3>1, <3>2, <3>3
  <2>. QED
    BY <1>2, <2>1 DEF RaysHaveData
<1>16. QueueOK'
  <2>1. ASSUME NEW k \in Rays, k >= 1, enqueued'[k] = 1, k > i
        PROVE  /\ prod'[k] # Garbage /\ dir'[k] # Garbage /\ pos'[k] # Garbage
               /\ dir'[k].from = k \div 2 /\ pos'[k] = k \div 2
    <3>1. CASE k \in child
      <4>1. k \div 2 = i
        BY <1>3, <3>1
      <4>. QED
        BY <1>9, <1>10, <1>11, <2>1, <3>1, <4>1
    <3>2. CASE k \notin child
      <4>1. k \notin Enqueues
        BY <1>8, <3>2
      <4>2. enqueued[k] = 1
        BY <1>2, <2>1, <4>1
      <4>3. prod'[k] = prod[k] /\ dir'[k] = dir[k] /\ pos'[k] = pos[k]
        BY <1>9, <1>10, <1>11, <2>1, <3>2
      <4>. QED
        BY <1>1, <1>2, <2>1, <4>2, <4>3 DEF QueueOK
    <3>. QED
      BY <3>1, <3>2
  <2>2. \A k \in Rays : k \in Int /\ (k > i + 1 \/ k = i + 1 => k > i)
    BY <1>1, <1>3, Typed
  <2>3. build' = build /\ current_ray' = i + 1 /\ pc' = "ray" /\ build.transparency
    BY <1>2
  <2>. HIDE DEF i
  <2>. QED
    BY <2>1, <2>2, <2>3 DEF QueueOK
<1>17. NaNIsRefracted'
  BY <1>1, <1>2, <1>9 DEF NaNIsRefracted
<1>18. Fresh'
  BY <1>1, <1>2, ForgetFact DEF Fresh
<1>19. NearestIsFound' /\ SearchOK' /\ NormalSoFar' /\ NormalOfHit' /\ ShadowOK' /\ LitIffVisible'
  BY <1>2 DEF NearestIsFound, SearchOK, NormalSoFar, NormalOfHit, ShadowOK, LitIffVisible
<1>20. \A k \in Rays : k <= i => enqueued'[k] = enqueued[k]
  <2>1. \A k \in Enqueues : k > i
    BY <1>3 DEF Enqueues
  <2>. QED
    BY <1>1, <1>2, <1>3, <2>1, Typed
<1>21. StrayRaysAreDark'
  <2>. SUFFICES ASSUME NEW k \in Begun', dir'[k] # Garbage, dir'[k].nan, col'[k] # Garbage
                PROVE  /\ col'[k].share = 0
                       /\ k < Slot' /\ enqueued'[k] = 1 =>
                            (col'[k].white <=> build'.direct /\ PointLights # {})
    BY <1>2 DEF StrayRaysAreDark
  <2>1. k \in Rays /\ k \in Nat /\ 1 <= k /\ k <= i + 1
    BY <1>1, <1>2, <1>3, Typed DEF Begun, Slot
  <2>2. k <= i
    <3>1. col[k] # Garbage
      BY <1>12, <2>1
    <3>. QED
      BY <1>1, <1>2, <1>3, <2>1, <3>1 DEF GlareOK
  <2>3. k \notin child /\ dir'[k] = dir[k]
    BY <1>3, <1>9, <2>1, <2>2
  <2>4. k # i /\ k < i /\ k \in Begun /\ k < Slot
    BY <1>1, <1>2, <1>3, <2>1, <2>2, <2>3 DEF StrayRaysAreDark, Begun
  <2>5. col'[k] = col[k] /\ col[k] # Garbage /\ enqueued'[k] = enqueued[k]
    BY <1>12, <1>20, <2>1, <2>2, <2>4
  <2>6. dir[k] # Garbage /\ dir[k].nan
    BY <2>3
  <2>7. /\ col[k].share = 0
        /\ enqueued[k] = 1 => (col[k].white <=> build.direct /\ PointLights # {})
    BY <1>1, <2>4, <2>5, <2>6 DEF StrayRaysAreDark
  <2>. QED
    BY <1>2, <2>5, <2>7
<1>22. GlareOK'
  <2>1. \A k \in Rays : k > i + 1 \/ (k = i + 1 /\ pc' = "ray") => col'[k] = Garbage
    BY <1>1, <1>2, <1>3, <1>12, Typed DEF GlareOK
  <2>2. ASSUME NEW k \in Rays, NEW l \in PointLights, col'[k] # Garbage
        PROVE  col'[k].glare[l] <= Blinded(k)'
    <3>1. k <= i
      BY <1>1, <1>2, <1>3, <1>12, <2>2, Typed DEF GlareOK
    <3>2. Blinded(k)' = Blinded(k)
      BY <1>2, <1>20, <3>1 DEF Blinded
    <3>. QED
      BY <1>1, <1>2, <1>12, <2>2, <3>2 DEF GlareOK
  <2>. QED
    BY <1>2, <2>1, <2>2 DEF GlareOK
<1>. QED
  BY <1>14, <1>15, <1>16, <1>17, <1>18, <1>19, <1>21, <1>22 DEF IInv

LEMMA BounceStep == IInv /\ Bounce => IInv'
<1>. SUFFICES ASSUME IInv, Bounce PROVE IInv'
  OBVIOUS
<1>1. /\ TypeOK /\ RaysHaveData /\ QueueOK /\ NaNIsRefracted /\ Fresh
      /\ NearestIsFound /\ SearchOK /\ NormalSoFar /\ NormalOfHit
      /\ ShadowOK /\ LitIffVisible /\ StrayRaysAreDark /\ GlareOK
  BY DEF IInv
<1> DEFINE i == current_ray
           w == prod[1]
           v == col[1].share + IF i = BOUNCES THEN w ELSE Part(w, Unit - refl, Unit)
<1>2. /\ pc = "light" /\ ~build.transparency /\ pc' = "ray" /\ current_ray' = i + 1 /\ Forget
      /\ build' = build /\ behind' = behind /\ enqueued' = enqueued /\ pos' = pos
      /\ col' = [col EXCEPT ![1].share = v]
      /\ prod' = [prod EXCEPT ![1] = Part(w, refl, Unit)]
      /\ dir' = [dir EXCEPT ![1] = [from |-> i, nan |-> FALSE]]
  BY DEF Bounce
<1>3. /\ Slot = 1 /\ Slot' = 1 /\ 1 \in Rays /\ i \in Nat /\ i >= 1
      /\ w # Garbage /\ w \in Int /\ col[1] \in ColourSums
      /\ col[1] # Garbage /\ pos[1] = i /\ pos[1] # Garbage
  BY <1>1, <1>2, Typed, ConstantFact DEF RaysHaveData, Slot, Weights, Colours
<1>4. i <= BOUNCES
  BY <1>1, <1>2 DEF QueueOK
<1>5. refl \in Int /\ Unit \in Int /\ Unit - refl \in Int
  <2>1. search.closest_obj \in Objects
    BY <1>1, <1>2, Typed DEF SearchOK, Searches
  <2>. QED
    BY <2>1, FigureFact, ConstantFact DEF refl
<1>6. v \in Int /\ Part(w, refl, Unit) \in Int
  <2>1. col[1].share \in Int
    BY <1>3 DEF ColourSums
  <2>2. Part(w, Unit - refl, Unit) \in Int /\ Part(w, refl, Unit) \in Int
    BY <1>3, <1>5, PartInt
  <2>. QED
    BY <1>3, <2>1, <2>2
<1>. HIDE DEF v
<1>7. /\ [col[1] EXCEPT !.share = v] \in ColourSums
      /\ [col[1] EXCEPT !.share = v].glare = col[1].glare
      /\ [from |-> i, nan |-> FALSE] \in [from : Nat, nan : BOOLEAN]
  BY <1>3, <1>6 DEF ColourSums
<1>8. /\ [col[1] EXCEPT !.share = v] # Garbage /\ [from |-> i, nan |-> FALSE] # Garbage
      /\ Part(w, refl, Unit) # Garbage
  BY <1>6, <1>7, GarbageFact
<1>9. ASSUME NEW k \in Rays
      PROVE  /\ col'[k] = IF k = 1 THEN [col[1] EXCEPT !.share = v] ELSE col[k]
             /\ dir'[k] = IF k = 1 THEN [from |-> i, nan |-> FALSE] ELSE dir[k]
             /\ prod'[k] = IF k = 1 THEN Part(w, refl, Unit) ELSE prod[k]
  BY <1>1, <1>2 DEF TypeOK
<1>10. /\ dir' \in [Rays -> Directions] /\ prod' \in [Rays -> Weights]
       /\ col' \in [Rays -> Colours]
  BY <1>1, <1>2, <1>6, <1>7 DEF TypeOK, Directions, Weights, Colours
<1>. HIDE DEF w
<1>11. TypeOK'
  <2>1. current_ray' \in 1 .. IF build.transparency THEN RECURSION_DEPTH ELSE BOUNCES + 1
    BY <1>2, <1>3, <1>4, ConstantFact
  <2>. QED
    BY <1>1, <1>2, <1>10, <2>1, ForgetFact, ConstantFact DEF TypeOK
<1>12. RaysHaveData'
  <2>1. \A k \in Rays : ~(1 <= k /\ k <= 1 /\ k < 1)
    BY ConstantFact DEF Rays
  <2>. QED
    BY <1>2, <1>3, <2>1 DEF RaysHaveData, Begun
<1>13. QueueOK'
  <2>1. /\ prod'[1] # Garbage /\ dir'[1] # Garbage /\ pos'[1] # Garbage /\ col'[1] # Garbage
        /\ dir'[1].from = i /\ pos'[1] = i
    BY <1>2, <1>3, <1>8, <1>9
  <2>2. current_ray' - 1 = i
    BY <1>2, <1>3
  <2>. QED
    BY <1>2, <2>1, <2>2 DEF QueueOK
<1>14. NaNIsRefracted' /\ Fresh'
  BY <1>1, <1>2, <1>9, ForgetFact DEF NaNIsRefracted, Fresh
<1>15. NearestIsFound' /\ SearchOK' /\ NormalSoFar' /\ NormalOfHit' /\ ShadowOK' /\ LitIffVisible'
  BY <1>2 DEF NearestIsFound, SearchOK, NormalSoFar, NormalOfHit, ShadowOK, LitIffVisible
<1>16. dir'[1] # Garbage /\ ~dir'[1].nan
  BY <1>3, <1>8, <1>9
<1>17. StrayRaysAreDark'
  <2>1. \A k \in Begun' : k = 1
    BY <1>1, <1>3, Typed DEF Begun
  <2>. QED
    BY <1>2, <1>16, <2>1 DEF StrayRaysAreDark
<1>18. GlareOK'
  <2>1. ASSUME NEW l \in PointLights
        PROVE  col'[1].glare[l] <= IF ~build.direct THEN 0 ELSE current_ray' - 1
    <3>1. col'[1].glare = col[1].glare
      BY <1>3, <1>7, <1>9
    <3>2. col[1].glare[l] <= IF ~build.direct THEN 0 ELSE i
      BY <1>1, <1>2, <1>3 DEF GlareOK
    <3>3. current_ray' - 1 = i
      BY <1>2, <1>3
    <3>. QED
      BY <3>1, <3>2, <3>3
  <2>. QED
    BY <1>2, <1>16, <2>1 DEF GlareOK
<1>. QED
  BY <1>11, <1>12, <1>13, <1>14, <1>15, <1>17, <1>18 DEF IInv

LEMMA SumStep == IInv /\ Sum => IInv'
<1>. SUFFICES ASSUME IInv, Sum PROVE IInv'
  OBVIOUS
<1>1. /\ TypeOK /\ RaysHaveData /\ QueueOK /\ NaNIsRefracted /\ StrayRaysAreDark /\ GlareOK
  BY DEF IInv
<1>2. /\ pc' = "done"
      /\ build' = build /\ behind' = behind /\ current_ray' = current_ray
      /\ enqueued' = enqueued /\ pos' = pos /\ dir' = dir /\ prod' = prod /\ col' = col
      /\ search' = search /\ shadow' = shadow /\ lit' = lit
  BY DEF Sum, arrays
<1>3. TypeOK'
  BY <1>1, <1>2 DEF TypeOK
<1>4. RaysHaveData'
  BY <1>1, <1>2 DEF RaysHaveData, Begun, Slot
<1>5. QueueOK'
  <2>1. \A k \in Rays : k > current_ray \/ (k = current_ray /\ pc' = "ray")
                          => k > current_ray \/ (k = current_ray /\ pc = "ray")
    BY <1>2
  <2>. QED
    BY <1>1, <1>2, <2>1 DEF QueueOK
<1>6. NaNIsRefracted' /\ Fresh' /\ StrayRaysAreDark'
  BY <1>1, <1>2 DEF NaNIsRefracted, Fresh, StrayRaysAreDark, Begun, Slot
<1>7. NearestIsFound' /\ SearchOK' /\ NormalSoFar' /\ NormalOfHit' /\ ShadowOK' /\ LitIffVisible'
  BY <1>2 DEF NearestIsFound, SearchOK, NormalSoFar, NormalOfHit, ShadowOK, LitIffVisible
<1>8. GlareOK'
  <2>1. \A k \in Rays : Blinded(k)' = Blinded(k)
    BY <1>2 DEF Blinded
  <2>2. CASE build.transparency
    BY <1>1, <1>2, <2>1, <2>2, Typed DEF GlareOK
  <2>3. CASE ~build.transparency
    <3>. SUFFICES ASSUME NEW l \in PointLights, col[1] # Garbage
                  PROVE  col[1].glare[l] <= IF ~build.direct THEN 0 ELSE current_ray
      BY <1>1, <1>2, <2>3 DEF GlareOK
    <3>1. col[1].glare[l] \in Nat /\ current_ray \in Nat
      BY <1>1, ConstantFact, GlareTyped, Typed
    <3>2. col[1].glare[l] <= IF ~build.direct THEN 0
                             ELSE IF pc \in {"ray", "search"} THEN current_ray - 1
                                                              ELSE current_ray
      BY <1>1, <2>3 DEF GlareOK
    <3>. QED
      BY <3>1, <3>2
  <2>. QED
    BY <1>1, <2>2, <2>3, Typed
<1>. QED
  BY <1>3, <1>4, <1>5, <1>6, <1>7, <1>8 DEF IInv

LEMMA StutterStep == IInv /\ UNCHANGED vars => IInv'
<1>. SUFFICES ASSUME IInv, UNCHANGED vars PROVE IInv'
  OBVIOUS
<1>. USE DEF IInv, vars
<1>1. TypeOK' /\ RaysHaveData' /\ QueueOK' /\ NaNIsRefracted' /\ Fresh'
  BY DEF TypeOK, RaysHaveData, QueueOK, NaNIsRefracted, Fresh, Slot, Parent, Begun
<1>2. NearestIsFound' /\ SearchOK' /\ NormalSoFar' /\ NormalOfHit'
  BY DEF NearestIsFound, SearchOK, NormalSoFar, NormalOfHit, Slot
<1>3. ShadowOK' /\ LitIffVisible' /\ StrayRaysAreDark' /\ GlareOK'
  BY DEF ShadowOK, LitIffVisible, StrayRaysAreDark, Begun, Slot, GlareOK, Blinded
<1>. QED
  BY <1>1, <1>2, <1>3

LEMMA InvariantStep == IInv /\ [Next]_vars => IInv'
<1>. SUFFICES ASSUME IInv, [Next]_vars PROVE IInv'
  OBVIOUS
<1>. QED
  BY NextRayStep, TestFigureStep, MissStep, HitStep, AmbientLightStep, SeekLightStep,
     TestShadowStep, NotHiddenStep, ShadeStep, BounceStep, SumStep, StutterStep
     DEF Next, Returned

LEMMA Invariant == Spec => []IInv
<1>1. Init => IInv
  BY InitIInv
<1>2. IInv /\ [Next]_vars => IInv'
  BY InvariantStep
<1>. QED
  BY <1>1, <1>2, PTL DEF Spec

(***************************************************************************)
(* The work-item stays within its arrays, the scene and the lights.        *)
(***************************************************************************)
THEOREM TypeCorrect == Spec => []TypeOK
<1>1. IInv => TypeOK
  BY DEF IInv
<1>. QED
  BY <1>1, Invariant, PTL

(***************************************************************************)
(* No ray is traced with data nobody wrote, though flags are written behind*)
(* the end of ray_enqueued, for every layout of the stack and every even   *)
(* RECURSION_DEPTH; only colours of the first rays can be lost.            *)
(***************************************************************************)
THEOREM QueueIsSound == Spec => []RaysHaveData
<1>1. IInv => RaysHaveData
  BY DEF IInv
<1>. QED
  BY <1>1, Invariant, PTL

(***************************************************************************)
(* closest_intersection_rtx finds the nearest crossing of all figures, by  *)
(* FirstCrossing and the induction over the figures tested.                *)
(***************************************************************************)
THEOREM SearchIsCorrect == Spec => []NearestIsFound
<1>1. IInv => NearestIsFound
  BY DEF IInv
<1>. QED
  BY <1>1, Invariant, PTL

(***************************************************************************)
(* A torus is shaded with its own normal, a cone with its own or that of a *)
(* cone behind it in the list: for this the tori must come after the cones.*)
(***************************************************************************)
THEOREM NormalIsOfThisRay == Spec => []NormalOfHit
<1>1. IInv => NormalOfHit
  BY DEF IInv
<1>. QED
  BY <1>1, Invariant, PTL

(***************************************************************************)
(* shadow_intersection hides a light exactly when a figure is between.     *)
(***************************************************************************)
THEOREM ShadowsAreCorrect == Spec => []LitIffVisible
<1>1. IInv => LitIffVisible
  BY DEF IInv
<1>. QED
  BY <1>1, Invariant, PTL

(***************************************************************************)
(* A ray refracted into no direction hits nothing, and makes the pixel     *)
(* white exactly if the glare of RTX_DIRECT is compiled in and there is a  *)
(* point light.                                                            *)
(***************************************************************************)
THEOREM StrayRaysAreHarmless == Spec => []StrayRaysAreDark
<1>1. IInv => StrayRaysAreDark
  BY DEF IInv
<1>. QED
  BY <1>1, Invariant, PTL

(***************************************************************************)
(* Sums over the rays.  Total is a recursive function; what it does is     *)
(* proved by induction over the rays, in the form that a set of numbers    *)
(* with 0 and with the successor of each of its members is all of Nat.     *)
(***************************************************************************)
LEMMA LeastNumber ==
  ASSUME NEW T, T \subseteq Nat, T # {}
  PROVE  \E n \in T : \A k \in T : n <= k
<1> DEFINE R == {ss \in Nat \X Nat : ss[1] < ss[2]}
<1>1. IsWellFoundedOn(R, Nat)
  BY NatLessThanWellFounded DEF OpToRel
<1>2. \A k, n \in Nat : k < n => <<k, n>> \in R
  OBVIOUS
<1> HIDE DEF R
<1>3. PICK n \in T : \A k \in T : ~(<<k, n>> \in R)
  BY <1>1, WFMin
<1>4. ASSUME NEW k \in T PROVE n <= k
  <2>1. k \in Nat /\ n \in Nat /\ ~(<<k, n>> \in R)
    BY <1>3
  <2>2. ~(k < n)
    BY <2>1, <1>2
  <2>3. QED
    BY <2>1, <2>2
<1>5. QED
  BY <1>4

LEMMA Induction ==
  ASSUME NEW S, 0 \in S, \A n \in Nat : n \in S => n + 1 \in S
  PROVE  \A n \in Nat : n \in S
<1> DEFINE T == Nat \ S
<1>1. SUFFICES ASSUME T # {} PROVE FALSE
  OBVIOUS
<1>2. PICK n \in T : \A k \in T : n <= k
  BY <1>1, LeastNumber
<1>3. n \in Nat /\ n # 0
  BY <1>2
<1>4. n - 1 \in Nat /\ n - 1 \notin T
  BY <1>2, <1>3
<1>5. QED
  BY <1>3, <1>4

Last == RECURSION_DEPTH - 1
Numbers == [Rays -> Int]

\* s adds up f, ray after ray.
Sums(s, f) == s = [k \in Rays |-> IF k = 0 THEN 0 ELSE s[k - 1] + f[k]]

LEMMA LastFact == Last \in Nat /\ Rays = 0 .. Last /\ Last \in Rays
BY ConstantFact DEF Last, Rays

(* The sum has a value: one more summand extends the last one.              *)
LEMMA SumsExist ==
  ASSUME NEW f \in Numbers
  PROVE  \E s : Sums(s, f)
<1> DEFINE Adds(s, n) == /\ s \in [0 .. n -> Int] /\ s[0] = 0
                         /\ \A k \in 1 .. n : s[k] = s[k - 1] + f[k]
           S == {n \in Nat : n <= Last => \E s : Adds(s, n)}
<1>1. 0 \in S
  <2>1. Adds([k \in 0 .. 0 |-> 0], 0)
    OBVIOUS
  <2>2. QED
    BY <2>1
<1>2. ASSUME NEW n \in Nat, n \in S PROVE n + 1 \in S
  <2>1. SUFFICES ASSUME n + 1 <= Last PROVE \E s : Adds(s, n + 1)
    OBVIOUS
  <2>2. n <= Last
    BY <2>1, LastFact
  <2>3. PICK s : Adds(s, n)
    BY <1>2, <2>2
  <2> DEFINE t == [k \in 0 .. n + 1 |-> IF k = n + 1 THEN s[n] + f[n + 1] ELSE s[k]]
  <2>4. n \in 0 .. n /\ n + 1 \notin 0 .. n /\ 0 \in 0 .. n /\ n + 1 \in Rays
    BY <2>1, LastFact
  <2>5. s[n] \in Int /\ f[n + 1] \in Int
    BY <2>3, <2>4 DEF Numbers
  <2>6. t \in [0 .. n + 1 -> Int]
    <3>1. ASSUME NEW k \in 0 .. n + 1, k # n + 1 PROVE s[k] \in Int
      <4>1. k \in 0 .. n
        BY <3>1
      <4>2. QED
        BY <4>1, <2>3
    <3>2. QED
      BY <3>1, <2>5
  <2>7. t[0] = 0
    BY <2>3, <2>4
  <2>8. ASSUME NEW k \in 1 .. n + 1 PROVE t[k] = t[k - 1] + f[k]
    <3>1. /\ k \in 0 .. n + 1 /\ k - 1 \in 0 .. n + 1 /\ k - 1 # n + 1
          /\ (k # n + 1 => k \in 1 .. n)
      OBVIOUS
    <3>2. t[k - 1] = s[k - 1]
      BY <3>1
    <3>3. CASE k = n + 1
      BY <3>1, <3>2, <3>3
    <3>4. CASE k # n + 1
      BY <3>1, <3>2, <3>4, <2>3
    <3>5. QED
      BY <3>3, <3>4
  <2>9. Adds(t, n + 1)
    BY <2>6, <2>7, <2>8
  <2> HIDE DEF t
  <2>10. QED
    BY <2>9
<1>3. Last \in S
  <2> HIDE DEF S
  <2>1. QED
    BY <1>1, <1>2, Induction, LastFact
<1>4. PICK s : Adds(s, Last)
  BY <1>3, LastFact
<1>5. s = [k \in Rays |-> IF k = 0 THEN 0 ELSE s[k - 1] + f[k]]
  <2>1. s = [k \in Rays |-> s[k]]
    BY <1>4, LastFact
  <2>2. \A k \in Rays : s[k] = IF k = 0 THEN 0 ELSE s[k - 1] + f[k]
    BY <1>4, LastFact
  <2> HIDE DEF Adds
  <2>3. QED
    BY <2>1, <2>2
<1>6. QED
  BY <1>5 DEF Sums

(* The sum of the code, summand after summand.                              *)
LEMMA TotalOfSums ==
  ASSUME NEW f \in Numbers
  PROVE  \E s : Sums(s, f) /\ Total(f) = s[Last]
<1> DEFINE F == CHOOSE s : Sums(s, f)
<1>1. Sums(F, f)
  BY SumsExist
<1>2. Total(f) = F[Last]
  BY DEF Total, Sums, Last
<1> HIDE DEF F
<1>3. QED
  BY <1>1, <1>2

LEMMA SumsStep ==
  ASSUME NEW f \in Numbers, NEW s, Sums(s, f)
  PROVE  /\ s[0] = 0
         /\ \A k \in Nat : k + 1 <= Last => s[k + 1] = s[k] + f[k + 1]
         /\ \A k \in Rays : s[k] \in Int /\ f[k] \in Int
<1>1. \A k \in Rays : s[k] = IF k = 0 THEN 0 ELSE s[k - 1] + f[k]
  BY DEF Sums
<1>2. s[0] = 0
  BY <1>1, LastFact
<1>3. ASSUME NEW k \in Nat, k + 1 <= Last PROVE s[k + 1] = s[k] + f[k + 1]
  <2>1. k + 1 \in Rays /\ k + 1 # 0 /\ (k + 1) - 1 = k
    BY <1>3, LastFact
  <2>2. QED
    BY <1>1, <2>1
<1> DEFINE S == {k \in Nat : k <= Last => s[k] \in Int}
<1>4. 0 \in S
  BY <1>2
<1>5. ASSUME NEW k \in Nat, k \in S PROVE k + 1 \in S
  <2>1. SUFFICES ASSUME k + 1 <= Last PROVE s[k + 1] \in Int
    OBVIOUS
  <2>2. s[k] \in Int /\ k + 1 \in Rays
    BY <1>5, <2>1, LastFact
  <2>3. f[k + 1] \in Int
    BY <2>2 DEF Numbers
  <2>4. QED
    BY <1>3, <2>1, <2>2, <2>3
<1>6. \A k \in Nat : k \in S
  <2> HIDE DEF S
  <2>1. QED
    BY <1>4, <1>5, Induction
<1>7. \A k \in Rays : s[k] \in Int /\ f[k] \in Int
  BY <1>6, LastFact DEF Numbers
<1>8. QED
  BY <1>2, <1>3, <1>7

(* A sum with no greater summands is no greater.                            *)
LEMMA TotalMonotone ==
  ASSUME NEW f \in Numbers, NEW g \in Numbers, \A k \in Rays : f[k] <= g[k]
  PROVE  Total(f) <= Total(g)
<1>1. PICK s : Sums(s, f) /\ Total(f) = s[Last]
  BY TotalOfSums
<1>2. PICK t : Sums(t, g) /\ Total(g) = t[Last]
  BY TotalOfSums
<1> DEFINE S == {k \in Nat : k <= Last => s[k] <= t[k]}
<1>3. 0 \in S
  BY <1>1, <1>2, SumsStep
<1>4. ASSUME NEW k \in Nat, k \in S PROVE k + 1 \in S
  <2>1. SUFFICES ASSUME k + 1 <= Last PROVE s[k + 1] <= t[k + 1]
    OBVIOUS
  <2>2. s[k] <= t[k] /\ k \in Rays /\ k + 1 \in Rays
    BY <1>4, <2>1, LastFact
  <2>3. s[k + 1] = s[k] + f[k + 1] /\ t[k + 1] = t[k] + g[k + 1]
    BY <1>1, <1>2, <2>1, SumsStep
  <2>4. s[k] \in Int /\ t[k] \in Int /\ f[k + 1] \in Int /\ g[k + 1] \in Int
    BY <1>1, <1>2, <2>2, SumsStep
  <2>5. f[k + 1] <= g[k + 1]
    BY <2>2
  <2>6. QED
    BY <2>2, <2>3, <2>4, <2>5
<1>5. \A k \in Nat : k \in S
  <2> HIDE DEF S
  <2>1. QED
    BY <1>3, <1>4, Induction
<1>6. QED
  BY <1>1, <1>2, <1>5, LastFact

(* A sum with one summand changed changes by as much.                       *)
LEMMA TotalUpdate ==
  ASSUME NEW f \in Numbers, NEW j \in Rays, j # 0, NEW v \in Int
  PROVE  Total([f EXCEPT ![j] = v]) = Total(f) + v - f[j]
<1> DEFINE g == [f EXCEPT ![j] = v]
<1>1. g \in Numbers
  BY DEF Numbers
<1>2. \A k \in Rays : g[k] = IF k = j THEN v ELSE f[k]
  BY DEF Numbers
<1> HIDE DEF g
<1>3. PICK s : Sums(s, f) /\ Total(f) = s[Last]
  BY TotalOfSums
<1>4. PICK t : Sums(t, g) /\ Total(g) = t[Last]
  BY <1>1, TotalOfSums
<1>5. j \in Nat /\ j >= 1 /\ j <= Last /\ f[j] \in Int
  BY LastFact DEF Numbers
<1> DEFINE S == {k \in Nat : k <= Last => t[k] = IF k < j THEN s[k] ELSE s[k] + v - f[j]}
<1>6. 0 \in S
  BY <1>1, <1>3, <1>4, <1>5, SumsStep
<1>7. ASSUME NEW k \in Nat, k \in S PROVE k + 1 \in S
  <2>1. SUFFICES ASSUME k + 1 <= Last
                 PROVE  t[k + 1] = IF k + 1 < j THEN s[k + 1] ELSE s[k + 1] + v - f[j]
    OBVIOUS
  <2>2. k \in Rays /\ k + 1 \in Rays /\ t[k] = IF k < j THEN s[k] ELSE s[k] + v - f[j]
    BY <1>7, <2>1, LastFact
  <2>3. s[k + 1] = s[k] + f[k + 1] /\ t[k + 1] = t[k] + g[k + 1]
    BY <1>1, <1>3, <1>4, <2>1, SumsStep
  <2>4. s[k] \in Int /\ t[k] \in Int /\ f[k + 1] \in Int /\ g[k + 1] \in Int
    BY <1>1, <1>3, <1>4, <2>2, SumsStep
  <2>5. g[k + 1] = IF k + 1 = j THEN v ELSE f[k + 1]
    BY <1>2, <2>2
  <2>6. QED
    BY <1>5, <2>2, <2>3, <2>4, <2>5
<1>8. \A k \in Nat : k \in S
  <2> HIDE DEF S
  <2>1. QED
    BY <1>6, <1>7, Induction
<1>9. t[Last] = s[Last] + v - f[j]
  BY <1>5, <1>8, LastFact
<1>10. QED
  BY <1>3, <1>4, <1>9 DEF g

LEMMA TotalOfNothing == Total([k \in Rays |-> 0]) = 0
<1> DEFINE f == [k \in Rays |-> 0]
<1>1. f \in Numbers /\ \A k \in Rays : f[k] = 0
  BY DEF Numbers
<1> HIDE DEF f
<1>2. PICK s : Sums(s, f) /\ Total(f) = s[Last]
  BY <1>1, TotalOfSums
<1> DEFINE S == {k \in Nat : k <= Last => s[k] = 0}
<1>3. 0 \in S
  BY <1>1, <1>2, SumsStep
<1>4. ASSUME NEW k \in Nat, k \in S PROVE k + 1 \in S
  <2>1. SUFFICES ASSUME k + 1 <= Last PROVE s[k + 1] = 0
    OBVIOUS
  <2>2. s[k] = 0 /\ k + 1 \in Rays
    BY <1>4, <2>1, LastFact
  <2>3. QED
    BY <1>1, <1>2, <2>1, <2>2, SumsStep
<1>5. \A k \in Nat : k \in S
  <2> HIDE DEF S
  <2>1. QED
    BY <1>3, <1>4, Induction
<1>6. QED
  BY <1>2, <1>5, LastFact DEF f

(***************************************************************************)
(* What a hit hands on is worth no more than what arrived, although Part    *)
(* rounds down, and a figure that reflects or lets pass more than ONE gives *)
(* some shares the other sign.                                              *)
(***************************************************************************)
Positive(n) == IF n < 0 THEN 0 ELSE n
Size(w) == IF w < 0 THEN -w - 1 ELSE w
Magnitude(n) == IF n < 0 THEN -n ELSE n
Square == Unit * Unit

LEMMA Distributes ==
  ASSUME NEW a \in Int, NEW b \in Int, NEW c \in Int
  PROVE  a * (b + c) = a * b + a * c
OBVIOUS

LEMMA Monotone ==
  ASSUME NEW a \in Nat, NEW b \in Int, NEW c \in Int, b <= c PROVE a * b <= a * c
<1>1. PICK d \in Nat : c = b + d
  <2>1. c - b \in Nat /\ c = b + (c - b)
    OBVIOUS
  <2>2. QED
    BY <2>1
<1>2. a * c = a * b + a * d
  BY <1>1
<1>3. a * d \in Nat
  BY <1>1
<1>4. QED
  BY <1>2, <1>3

LEMMA SquareFact == Square \in Nat /\ Square > 0 /\ Square # 0
<1>1. Unit \in Nat /\ Unit > 0
  BY ConstantFact
<1>2. QED
  BY <1>1 DEF Square

LEMMA PartSize ==
  ASSUME NEW w \in Int, NEW a \in Int, NEW b \in Int
  PROVE  /\ Part(w, a, b) \in Int
         /\ Size(Part(w, a, b)) \in Nat
         /\ Square * Size(Part(w, a, b)) <= Magnitude(w) * Magnitude(a * b)
         /\ w >= 0 /\ a * b >= 0 =>
              Part(w, a, b) >= 0 /\ Square * Part(w, a, b) <= w * (a * b)
<1> DEFINE c == a * b
           z == w * a * b
           q == z \div Square
           r == z % Square
<1>1. Part(w, a, b) = q
  BY DEF Part, Square
<1>2. c \in Int /\ z \in Int /\ z = w * c
  OBVIOUS
<1>3. Magnitude(z) = Magnitude(w) * Magnitude(c)
  <2> HIDE DEF c, z
  <2>1. CASE w >= 0 /\ c >= 0
    <3>1. w * c >= 0
      BY <1>2, <2>1
    <3>2. QED
      BY <1>2, <2>1, <3>1 DEF Magnitude
  <2>2. CASE w >= 0 /\ c < 0
    <3>1. w * (-c) >= 0 /\ w * (-c) = -(w * c)
      BY <1>2, <2>2
    <3>2. QED
      BY <1>2, <2>2, <3>1 DEF Magnitude
  <2>3. CASE w < 0 /\ c >= 0
    <3>1. (-w) * c >= 0 /\ (-w) * c = -(w * c)
      BY <1>2, <2>3
    <3>2. QED
      BY <1>2, <2>3, <3>1 DEF Magnitude
  <2>4. CASE w < 0 /\ c < 0
    <3>1. (-w) * (-c) >= 0 /\ (-w) * (-c) = w * c
      BY <1>2, <2>4
    <3>2. QED
      BY <1>2, <2>4, <3>1 DEF Magnitude
  <2>5. QED
    BY <1>2, <2>1, <2>2, <2>3, <2>4
<1> HIDE DEF c, z
<1>4. q \in Int /\ r \in Int /\ z = Square * q + r /\ 0 <= r /\ r < Square
  BY <1>2, SquareFact
<1> HIDE DEF q, r
<1>5. Size(q) \in Nat
  BY <1>4 DEF Size
<1>6. Square * Size(q) <= Magnitude(z)
  <2>1. CASE q < 0
    <3>1. Square * (-q - 1) = -(Square * q) - Square
      BY <1>4, SquareFact
    <3> DEFINE p == Square * q
    <3>2. p \in Int
      BY <1>4, SquareFact
    <3>3. Square * q <= Square * (-1) /\ Square * (-1) = -Square
      BY <1>4, <2>1, SquareFact, Monotone
    <3> HIDE DEF p
    <3>4. z < 0
      BY <1>2, <1>4, <3>2, <3>3, SquareFact DEF p
    <3>5. -p - Square <= -z
      BY <1>2, <1>4, <3>2, SquareFact DEF p
    <3>6. QED
      BY <2>1, <3>1, <3>4, <3>5 DEF Size, Magnitude, p
  <2>2. CASE q >= 0
    <3> DEFINE p == Square * q
    <3>1. p \in Nat
      BY <1>4, <2>2, SquareFact
    <3> HIDE DEF p
    <3>2. z >= 0 /\ p <= z
      BY <1>2, <1>4, <3>1 DEF p
    <3>3. QED
      BY <1>2, <1>4, <2>2, <3>2 DEF Size, Magnitude, p
  <2>3. QED
    BY <1>4, <2>1, <2>2
<1>7. ASSUME w >= 0, c >= 0 PROVE q >= 0 /\ Square * q <= w * c
  <2>1. z >= 0
    BY <1>2, <1>7
  <2>2. SUFFICES q >= 0
    <3> DEFINE p == Square * q
    <3>1. p \in Int
      BY <1>4, SquareFact
    <3> HIDE DEF p
    <3>2. QED
      BY <1>2, <1>4, <3>1 DEF p
  <2>3. SUFFICES ASSUME q <= -1 PROVE FALSE
    BY <1>4
  <2>4. Square * q <= Square * (-1) /\ Square * (-1) = -Square
    BY <1>4, <2>3, SquareFact, Monotone
  <2> DEFINE p == Square * q
  <2>5. p \in Int
    BY <1>4, SquareFact
  <2> HIDE DEF p
  <2>6. QED
    BY <1>2, <1>4, <2>1, <2>4, <2>5, SquareFact DEF p
<1>8. QED
  BY <1>1, <1>3, <1>4, <1>5, <1>6, <1>7 DEF c

LEMMA Coefficients ==
  ASSUME NEW r \in 0 .. Unit, NEW t \in 0 .. Unit
  PROVE  Magnitude((ONE - r) * (ONE - t)) + Magnitude(r * (ONE - t))
           + Magnitude((ONE - r) * t) < Square
<1> DEFINE u == ONE
<1>1. u \in Nat /\ u >= 2 /\ Unit = u + 1 /\ r \in Nat /\ t \in Nat
      /\ r <= u + 1 /\ t <= u + 1
  BY RayTracerAssumption DEF ONE
<1> HIDE DEF u
<1>2. Square = u * u + 2 * u + 1 /\ u * u \in Nat /\ u * u >= 2 * u
  <2>1. (u + 1) * (u + 1) = u * u + 2 * u + 1
    BY <1>1
  <2>2. u * 2 <= u * u
    BY <1>1, Monotone
  <2>3. QED
    BY <1>1, <2>1, <2>2 DEF Square
<1>3. \A a, b \in Nat : a * b \in Nat /\ Magnitude(a * b) = a * b
  <2>1. ASSUME NEW a \in Nat, NEW b \in Nat PROVE a * b \in Nat
    OBVIOUS
  <2>2. QED
    BY <2>1 DEF Magnitude
<1>4. CASE r <= u /\ t <= u
  <2>1. u - r \in Nat /\ u - t \in Nat
    BY <1>1, <1>4
  <2>2. (u - r) * (u - t) + r * (u - t) + (u - r) * t = u * u - r * t
    BY <1>1
  <2>3. r * t \in Nat
    BY <1>1
  <2>4. /\ Magnitude((u - r) * (u - t)) = (u - r) * (u - t)
        /\ Magnitude(r * (u - t)) = r * (u - t)
        /\ Magnitude((u - r) * t) = (u - r) * t
    BY <1>1, <1>3, <2>1
  <2> DEFINE p == r * t
             v == u * u
  <2> HIDE DEF p, v
  <2>5. v - p < v + 2 * u + 1
    BY <1>1, <1>2, <2>3 DEF p, v
  <2>6. QED
    BY <1>2, <2>2, <2>4, <2>5 DEF u, p, v
<1>5. ASSUME NEW a \in Nat, a <= u
      PROVE  /\ u - (u + 1) = -1 /\ u - a \in Nat
             /\ (u - a) + (u + 1) * (u - a) + a < Square
  <2>1. u - a \in Nat /\ u - a <= u
    BY <1>1, <1>5
  <2>2. (u + 1) * (u - a) <= (u + 1) * u /\ (u + 1) * u = u * u + u
    BY <1>1, <2>1, Monotone
  <2>3. (u + 1) * (u - a) \in Nat
    BY <1>1, <2>1
  <2> DEFINE p == (u + 1) * (u - a)
             v == u * u
  <2> HIDE DEF p, v
  <2>4. (u - a) + p + a < v + 2 * u + 1
    BY <1>1, <1>2, <2>2, <2>3, <1>5 DEF p, v
  <2>5. QED
    BY <1>1, <1>2, <2>1, <2>4 DEF p, v
<1>6. CASE r = u + 1 /\ t <= u
  <2>1. /\ (u - r) * (u - t) = -(u - t) /\ (u - r) * t = -t
    BY <1>1, <1>6
  <2>2. u - t \in Nat
    BY <1>1, <1>6
  <2>3. /\ Magnitude(-(u - t)) = u - t /\ Magnitude(-t) = t
        /\ Magnitude(r * (u - t)) = (u + 1) * (u - t)
    BY <1>1, <1>3, <1>6, <2>2 DEF Magnitude
  <2>4. (u - t) + (u + 1) * (u - t) + t < Square
    BY <1>1, <1>5, <1>6
  <2>5. QED
    BY <2>1, <2>3, <2>4 DEF u
<1>7. CASE r <= u /\ t = u + 1
  <2>1. /\ (u - r) * (u - t) = -(u - r) /\ r * (u - t) = -r
        /\ (u - r) * t = (u + 1) * (u - r)
    BY <1>1, <1>7
  <2>2. u - r \in Nat
    BY <1>1, <1>7
  <2>3. /\ Magnitude(-(u - r)) = u - r /\ Magnitude(-r) = r
        /\ Magnitude((u + 1) * (u - r)) = (u + 1) * (u - r)
    BY <1>1, <1>3, <2>2 DEF Magnitude
  <2>4. (u - r) + (u + 1) * (u - r) + r < Square
    BY <1>1, <1>5, <1>7
  <2> DEFINE p == (u + 1) * (u - r)
  <2>5. p \in Nat /\ Square \in Nat
    BY <1>1, <2>2, SquareFact
  <2> HIDE DEF p
  <2>6. (u - r) + r + p < Square
    BY <1>1, <2>2, <2>4, <2>5 DEF p
  <2>7. QED
    BY <2>1, <2>3, <2>6 DEF u, p
<1>8. CASE r = u + 1 /\ t = u + 1
  <2>1. /\ (u - r) * (u - t) = 1 /\ r * (u - t) = -(u + 1) /\ (u - r) * t = -(u + 1)
    BY <1>1, <1>8
  <2>2. /\ Magnitude(1) = 1 /\ Magnitude(-(u + 1)) = u + 1
    BY <1>1 DEF Magnitude
  <2>3. 1 + (u + 1) + (u + 1) < Square
    <3> DEFINE v == u * u
    <3>1. v \in Nat /\ v >= 2 * u /\ Square = v + 2 * u + 1
      BY <1>2
    <3> HIDE DEF v
    <3>2. QED
      BY <1>1, <3>1
  <2>4. QED
    BY <2>1, <2>2, <2>3 DEF u
<1>9. QED
  BY <1>1, <1>4, <1>6, <1>7, <1>8

(* A hit in a scene of glass and mirrors: the colour it keeps and the rays  *)
(* it sends on (OwnShare, ReflectedShare, RefractedShare).                  *)
THEOREM SharesConserve ==
  ASSUME NEW w \in Int, NEW r \in 0 .. Unit, NEW t \in 0 .. Unit
  PROVE  Positive(Part(w, ONE - r, ONE - t)) + Size(Part(w, r, ONE - t))
           + Size(Part(w, ONE - r, t)) <= Size(w)
<1> DEFINE a == (ONE - r) * (ONE - t)
           b == r * (ONE - t)
           c == (ONE - r) * t
           x == Part(w, ONE - r, ONE - t)
           y == Part(w, r, ONE - t)
           z == Part(w, ONE - r, t)
           m == Magnitude(w)
           ka == Magnitude(a)
           kb == Magnitude(b)
           kc == Magnitude(c)
<1>1. ONE - r \in Int /\ ONE - t \in Int /\ r \in Int /\ t \in Int
  BY ConstantFact DEF ONE
<1>2. /\ x \in Int /\ y \in Int /\ z \in Int
      /\ Size(x) \in Nat /\ Size(y) \in Nat /\ Size(z) \in Nat
      /\ Square * Size(x) <= m * ka
      /\ Square * Size(y) <= m * kb
      /\ Square * Size(z) <= m * kc
  BY <1>1, PartSize
<1>3. ka + kb + kc < Square /\ ka \in Nat /\ kb \in Nat /\ kc \in Nat /\ m \in Nat
  <2>1. a \in Int /\ b \in Int /\ c \in Int
    BY <1>1
  <2> HIDE DEF a, b, c
  <2>2. ka \in Nat /\ kb \in Nat /\ kc \in Nat /\ m \in Nat
    BY <2>1 DEF Magnitude
  <2>3. QED
    BY <2>2, Coefficients DEF a, b, c
<1>4. Positive(x) <= Size(x) /\ Positive(x) \in Nat
  BY <1>2 DEF Positive, Size
<1> HIDE DEF a, b, c, x, y, z, m, ka, kb, kc
<1> DEFINE sum == Size(x) + Size(y) + Size(z)
<1>5. Square * sum <= m * (ka + kb + kc)
  <2>1. Square * sum = Square * Size(x) + Square * Size(y) + Square * Size(z)
    BY <1>2, SquareFact
  <2>2. m * (ka + kb + kc) = m * ka + m * kb + m * kc
    BY <1>3
  <2>3. /\ Square * Size(x) \in Int /\ Square * Size(y) \in Int /\ Square * Size(z) \in Int
        /\ m * ka \in Int /\ m * kb \in Int /\ m * kc \in Int
    BY <1>2, <1>3, SquareFact
  <2>4. QED
    BY <1>2, <2>1, <2>2, <2>3
<1>6. sum \in Nat
  BY <1>2
<1> HIDE DEF sum
\* Were it no less than m, the figure would hand on all of w.
<1>7. m = 0 => sum = 0
  <2>1. ASSUME m = 0, sum >= 1 PROVE FALSE
    <3>1. m * (ka + kb + kc) = 0
      BY <1>3, <2>1
    <3>2. Square * 1 <= Square * sum
      BY <1>6, <2>1, SquareFact, Monotone
    <3>3. Square * sum \in Nat
      BY <1>6, SquareFact
    <3>4. QED
      BY <1>5, <3>1, <3>2, <3>3, SquareFact
  <2>2. QED
    BY <1>6, <2>1
<1>8. m > 0 => sum < m
  <2>1. ASSUME m > 0, m <= sum PROVE FALSE
    <3>1. Square * m <= Square * sum
      BY <1>3, <1>6, <2>1, SquareFact, Monotone
    <3>2. m * ((ka + kb + kc) + 1) <= m * Square
      BY <1>3, SquareFact, Monotone
    <3> DEFINE k == ka + kb + kc
    <3>3. k \in Nat
      BY <1>3
    <3> HIDE DEF k
    <3>4. m * (k + 1) = m * k + m /\ m * Square = Square * m
      BY <1>3, <3>3, SquareFact
    <3>5. m * k \in Nat /\ Square * m \in Nat /\ Square * sum \in Nat
      BY <1>3, <1>6, <3>3, SquareFact
    <3>6. Square * sum <= m * k /\ m * (k + 1) <= m * Square
      BY <1>5, <3>2 DEF k
    <3>7. QED
      BY <1>3, <2>1, <3>1, <3>4, <3>5, <3>6
  <2>2. QED
    BY <1>3, <1>6, <2>1
<1>9. sum <= Size(w)
  BY <1>3, <1>6, <1>7, <1>8 DEF m, Magnitude, Size
<1>10. Positive(x) + Size(y) + Size(z) <= Size(w)
  <2>1. Size(w) \in Int
    BY DEF Size
  <2>2. QED
    BY <1>2, <1>4, <1>9, <2>1 DEF sum
<1>11. QED
  BY <1>10 DEF x, y, z

(* A bounce without transparency: what is kept and what is reflected.       *)
THEOREM BouncesConserve ==
  ASSUME NEW w \in Nat, NEW r \in 0 .. Unit
  PROVE  /\ Part(w, Unit - r, Unit) \in Nat /\ Part(w, r, Unit) \in Nat
         /\ Part(w, Unit - r, Unit) + Part(w, r, Unit) <= w
<1> DEFINE x == Part(w, Unit - r, Unit)
           y == Part(w, r, Unit)
           a == (Unit - r) * Unit
           b == r * Unit
<1>1. Unit \in Nat /\ r \in Nat /\ Unit - r \in Nat
  BY ConstantFact
<1>2. a \in Nat /\ b \in Nat /\ a + b = Square
  <2>1. (Unit - r) * Unit + r * Unit = Unit * Unit
    BY <1>1
  <2>2. QED
    BY <1>1, <2>1 DEF Square
<1>3. /\ x \in Nat /\ y \in Nat
      /\ Square * x <= w * a /\ Square * y <= w * b
  <2>1. x \in Int /\ (a >= 0 => x >= 0 /\ Square * x <= w * a)
    BY <1>1, PartSize
  <2>2. y \in Int /\ (b >= 0 => y >= 0 /\ Square * y <= w * b)
    BY <1>1, PartSize
  <2>3. QED
    BY <1>2, <2>1, <2>2
<1> HIDE DEF x, y, a, b
<1>4. Square * (x + y) <= w * Square
  <2>1. Square * (x + y) = Square * x + Square * y /\ w * Square = w * a + w * b
    BY <1>2, <1>3, SquareFact
  <2>2. Square * x \in Nat /\ Square * y \in Nat /\ w * a \in Nat /\ w * b \in Nat
    BY <1>2, <1>3, SquareFact
  <2>3. QED
    BY <1>3, <2>1, <2>2
<1>5. x + y <= w
  <2>1. SUFFICES ASSUME w + 1 <= x + y PROVE FALSE
    BY <1>3
  <2>2. Square * (w + 1) <= Square * (x + y)
    BY <1>3, <2>1, SquareFact, Monotone
  <2>3. Square * (w + 1) = Square * w + Square /\ w * Square = Square * w
    BY SquareFact
  <2>4. Square * w \in Nat /\ Square * (x + y) \in Nat
    BY <1>3, SquareFact
  <2>5. QED
    BY <1>4, <2>2, <2>3, <2>4, SquareFact
<1>6. QED
  BY <1>3, <1>5 DEF x, y

(***************************************************************************)
(* What light the rays of a pixel have, and may still get.                 *)
(***************************************************************************)

\* The rays whose weight is still to be handed on.
Waiting(k) ==
  IF build.transparency
  THEN \/ enqueued[k] = 1 /\ (k > current_ray \/ (k = current_ray /\ pc = "ray"))
       \/ k = current_ray /\ pc \in {"search", "light", "shadow"}
  ELSE k = 1 /\ current_ray <= BOUNCES /\ pc \in {"ray", "search", "light", "shadow"}

Held(k) == IF col[k] = Garbage THEN 0 ELSE Positive(col[k].share)
Due(k) == IF Waiting(k) THEN Size(prod[k]) ELSE 0
Worth == [k \in Rays |-> Held(k) + Due(k)]

\* No figure reflects or lets pass more than ONE.
Mild == \A i \in Objects : Figures[i].reflective <= ONE /\ Figures[i].transparency <= ONE

NoDebts == Mild \/ ~build.transparency =>
  \A k \in Rays : /\ prod[k] # Garbage => prod[k] >= 0
                  /\ col[k] # Garbage => col[k].share >= 0

Conserved == Total(Worth) <= Full /\ NoDebts

LEMMA SizeFact ==
  ASSUME NEW n \in Int
  PROVE  Positive(n) \in Nat /\ Size(n) \in Nat /\ Positive(n) <= Size(n)
BY DEF Positive, Size

LEMMA PositiveSum ==
  ASSUME NEW m \in Int, NEW n \in Int
  PROVE  Positive(m + n) <= Positive(m) + Positive(n)
BY DEF Positive

WorthOK ==
  /\ Worth \in Numbers
  /\ \A k \in Rays : /\ Held(k) \in Nat /\ Due(k) \in Nat
                     /\ Worth[k] = Held(k) + Due(k)
                     /\ Waiting(k) => prod[k] # Garbage /\ prod[k] \in Int
                     /\ col[k] # Garbage => col[k].share \in Int

LEMMA WorthFact == IInv => WorthOK
<1>. SUFFICES ASSUME IInv PROVE WorthOK
  OBVIOUS
<1>1. TypeOK /\ QueueOK /\ RaysHaveData
  BY DEF IInv
<1>2. ASSUME NEW k \in Rays, col[k] # Garbage PROVE col[k].share \in Int
  BY <1>1, <1>2 DEF TypeOK, Colours, ColourSums
<1>3. ASSUME NEW k \in Rays PROVE Held(k) \in Nat
  BY <1>2, SizeFact DEF Held
<1>4. ASSUME NEW k \in Rays, Waiting(k) PROVE prod[k] # Garbage /\ prod[k] \in Int
  <2>1. current_ray \in Nat /\ current_ray >= 1 /\ k \in Nat
    BY <1>1 DEF TypeOK, Rays
  <2>2. prod[k] # Garbage
    <3>1. CASE build.transparency /\ enqueued[k] = 1
                 /\ (k > current_ray \/ (k = current_ray /\ pc = "ray"))
      <4>1. k >= 1
        BY <2>1, <3>1
      <4>. QED
        BY <1>1, <3>1, <4>1 DEF QueueOK
    <3>2. CASE k = Slot /\ pc \in {"search", "light", "shadow"}
      BY <1>1, <3>2 DEF RaysHaveData
    <3>3. CASE ~build.transparency /\ k = 1 /\ pc = "ray"
      BY <1>1, <3>3 DEF QueueOK
    <3>. QED
      BY <1>4, <3>1, <3>2, <3>3 DEF Waiting, Slot
  <2>. QED
    BY <1>1, <2>2 DEF TypeOK, Weights
<1>5. ASSUME NEW k \in Rays PROVE Due(k) \in Nat
  BY <1>4, SizeFact DEF Due
<1>6. Worth \in Numbers
  BY <1>3, <1>5 DEF Worth, Numbers
<1>. QED
  BY <1>2, <1>3, <1>4, <1>5, <1>6 DEF Worth, WorthOK

LEMMA InitConserved == Init => Conserved
<1>. SUFFICES ASSUME Init PROVE Conserved
  OBVIOUS
<1>1. /\ \A k \in Rays : prod[k] = IF k = 1 THEN Full ELSE Garbage
      /\ \A k \in Rays : col[k] = IF ~build.transparency /\ k = 1 THEN Black ELSE Garbage
      /\ \A k \in Rays : enqueued[k] = IF k = 1 THEN 1 ELSE 0
      /\ current_ray = 1 /\ pc = "ray"
  BY DEF Init
<1>2. Full \in Nat
  BY RayTracerAssumption
<1>3. NoDebts
  BY <1>1, <1>2, BlackFact DEF NoDebts
<1> DEFINE zero == [k \in Rays |-> 0]
<1>4. Worth = [zero EXCEPT ![1] = Full]
  <2>1. Full >= 0 /\ Size(Full) = Full
    BY <1>2 DEF Size
  <2>2. ASSUME NEW k \in Rays PROVE Held(k) = 0
    BY <1>1, BlackFact DEF Held, Positive
  <2>3. ASSUME NEW k \in Rays PROVE Due(k) = IF k = 1 THEN Full ELSE 0
    <3>1. Waiting(k) <=> k = 1
      BY <1>1, ConstantFact DEF Waiting, Rays
    <3>. QED
      BY <1>1, <2>1, <3>1 DEF Due
  <2>4. Worth = [k \in Rays |-> IF k = 1 THEN Full ELSE 0]
    BY <1>2, <2>2, <2>3 DEF Worth
  <2>. QED
    BY <2>4
<1>5. zero \in Numbers /\ 1 \in Rays /\ zero[1] = 0
  BY ConstantFact DEF Numbers
<1>6. Total(zero) = 0
  BY TotalOfNothing
<1>. HIDE DEF zero
<1>7. Full \in Int /\ 1 # 0
  BY <1>2
<1>8. Total([zero EXCEPT ![1] = Full]) = Total(zero) + Full - zero[1]
  BY <1>5, <1>7, TotalUpdate
<1>. QED
  BY <1>3, <1>4, <1>5, <1>6, <1>7, <1>8 DEF Conserved

\* The sum over the rays is a function of what is summed, in every state.
LEMMA TotalPrimed == Total(Worth)' = Total(Worth')
BY DEF Total

LEMMA TotalInt ==
  ASSUME NEW f \in Numbers
  PROVE  Total(f) \in Int
<1>1. PICK s : Sums(s, f) /\ Total(f) = s[Last]
  BY TotalOfSums
<1>2. s[Last] \in Int
  BY <1>1, SumsStep, LastFact
<1>. QED
  BY <1>1, <1>2

LEMMA WorthFactPrimed == IInv' => WorthOK'
BY WorthFact, PTL

\* Worth is bounded by anything whose sum is.
LEMMA WorthBounded ==
  ASSUME IInv', NoDebts', NEW g \in Numbers, Total(g) <= Full,
         \A k \in Rays : Worth'[k] <= g[k]
  PROVE  Conserved'
<1>1. Worth' \in Numbers
  BY WorthFactPrimed DEF WorthOK
<1>2. Total(Worth') <= Total(g)
  BY <1>1, TotalMonotone
<1>3. /\ Total(Worth') \in Int /\ Total(g) \in Int /\ Full \in Int
  BY <1>1, TotalInt, ConstantFact
<1>4. Total(Worth') <= Full
  BY <1>2, <1>3
<1>5. Total(Worth)' <= Full
  BY <1>4, TotalPrimed
<1>. QED
  BY <1>5 DEF Conserved

\* A step that hands on no weight, and at most makes a colour black.
LEMMA QuietStep ==
  IInv /\ IInv' /\ Conserved
  /\ (\A k \in Rays : Waiting(k)' => Waiting(k)) /\ prod' = prod /\ build' = build
  /\ (\A k \in Rays : col'[k] # Garbage =>
        \/ col[k] # Garbage /\ col'[k].share = col[k].share
        \/ col'[k].share = 0)
  => Conserved'
<1>. SUFFICES ASSUME IInv, IInv', Conserved,
         \A k \in Rays : Waiting(k)' => Waiting(k), prod' = prod, build' = build,
         \A k \in Rays : col'[k] # Garbage =>
           \/ col[k] # Garbage /\ col'[k].share = col[k].share
           \/ col'[k].share = 0
     PROVE Conserved'
  OBVIOUS
<1>1. WorthOK /\ WorthOK' /\ Total(Worth) <= Full /\ NoDebts
  BY WorthFact, WorthFactPrimed DEF Conserved
<1>2. ASSUME NEW k \in Rays PROVE Worth'[k] <= Worth[k]
  <2>1. /\ Held(k) \in Nat /\ Due(k) \in Nat /\ Worth[k] = Held(k) + Due(k)
        /\ Held(k)' \in Nat /\ Due(k)' \in Nat /\ Worth'[k] = Held(k)' + Due(k)'
    BY <1>1 DEF WorthOK
  <2>2. Held(k)' <= Held(k)
    BY <2>1, Positive(0) = 0 DEF Held, Positive
  <2>3. Due(k)' <= Due(k)
    BY <2>1 DEF Due
  <2>. QED
    BY <2>1, <2>2, <2>3
<1>3. NoDebts'
  BY <1>1 DEF NoDebts
<1>. QED
  BY <1>1, <1>2, <1>3, WorthBounded DEF WorthOK

LEMMA QuietSteps ==
  IInv /\ IInv' /\ Conserved
  /\ (NextRay \/ TestFigure \/ Miss \/ Hit \/ AmbientLight \/ SeekLight \/ TestShadow
        \/ NotHidden \/ Sum \/ UNCHANGED vars)
  => Conserved'
<1>. SUFFICES ASSUME IInv, IInv', Conserved,
         NextRay \/ TestFigure \/ Miss \/ Hit \/ AmbientLight \/ SeekLight \/ TestShadow
           \/ NotHidden \/ Sum \/ UNCHANGED vars
     PROVE Conserved'
  OBVIOUS
<1>1. /\ prod' = prod /\ build' = build /\ enqueued' = enqueued
  BY DEF NextRay, BeginRay, TestFigure, Miss, Hit, AmbientLight, SeekLight, TestShadow,
         NotHidden, Sum, vars, arrays
<1>2. /\ TypeOK /\ current_ray \in Int /\ current_ray >= 1
  BY ConstantFact DEF IInv, TypeOK
<1>3. \A k \in Rays : Waiting(k)' => Waiting(k)
  <2>. SUFFICES ASSUME NEW k \in Rays, Waiting(k)' PROVE Waiting(k)
    OBVIOUS
  <2>1. CASE NextRay /\ current_ray' = current_ray
    <3>1. build.transparency => enqueued[current_ray] # 0 /\ current_ray \in Rays
      <4>1. build.transparency => current_ray < RECURSION_DEPTH
        BY <2>1 DEF NextRay, BeginRay, RayLimit
      <4>2. current_ray' # current_ray + 1
        BY <1>2, <2>1
      <4>. QED
        BY <1>2, <2>1, <4>1, <4>2, ConstantFact DEF NextRay, BeginRay, Rays
    <3>2. build.transparency => enqueued[current_ray] = 1
      BY <1>2, <3>1 DEF TypeOK
    <3>3. pc = "ray" /\ pc' = "search"
      BY <1>2, <2>1 DEF NextRay, BeginRay
    <3>. QED
      BY <1>1, <1>2, <2>1, <3>2, <3>3 DEF Waiting
  <2>2. CASE current_ray' = current_ray + 1 /\ pc' = "ray" /\ build.transparency
    BY <1>1, <1>2, <2>2 DEF Waiting, Rays
  <2>3. CASE current_ray' = current_ray /\ pc' \in {pc, "done", "sum"}
    BY <1>1, <1>2, <2>3 DEF Waiting
  <2>4. CASE /\ current_ray' = current_ray /\ pc \in {"search", "light", "shadow"}
             /\ pc' \in {"search", "light", "shadow"}
    BY <1>1, <1>2, <2>4 DEF Waiting
  <2>. QED
    BY <2>1, <2>2, <2>3, <2>4
       DEF NextRay, BeginRay, TestFigure, Miss, Hit, AmbientLight, SeekLight, TestShadow,
         NotHidden, Sum, vars, arrays
<1>4. ASSUME NEW k \in Rays, col'[k] # Garbage
      PROVE  \/ col[k] # Garbage /\ col'[k].share = col[k].share
             \/ col'[k].share = 0
  <2>1. CASE col' = col
    BY <1>4, <2>1
  <2>2. CASE col' = [col EXCEPT ![current_ray] = Black]
    BY <1>2, <1>4, <2>2, BlackFact DEF TypeOK
  <2>3. CASE pc = "search" /\ Blind
    <3>1. TypeOK /\ RaysHaveData /\ Slot \in Rays
      BY <1>2, <2>3 DEF IInv, TypeOK
    <3>2. col[Slot] # Garbage /\ dir[Slot] # Garbage
      BY <2>3, <3>1 DEF RaysHaveData
    <3>3. /\ col'[Slot].share = col[Slot].share
          /\ \A j \in Rays : j # Slot => col'[j] = col[j]
      BY <2>3, <3>1, <3>2, GlareFact
    <3>. QED
      BY <1>4, <3>2, <3>3
  <2>. QED
    BY <2>1, <2>2, <2>3 DEF NextRay, BeginRay, TestFigure, Miss, Hit, AmbientLight, SeekLight,
         TestShadow, NotHidden, Sum, vars, arrays
<1>. QED
  BY <1>1, <1>3, <1>4, QuietStep

\* What Shade does to the shares and the weights, whatever its flags overwrite.
Kept(w) == IF Spreads THEN OwnShare(w) ELSE w

LEMMA ShadeEffect ==
  ASSUME IInv, Shade
  PROVE  /\ build.transparency /\ build' = build /\ pc' = "ray"
         /\ current_ray \in Rays /\ current_ray >= 1 /\ current_ray' = current_ray + 1
         /\ prod[current_ray] # Garbage /\ prod[current_ray] \in Int
         /\ col[current_ray] # Garbage /\ col[current_ray].share \in Int
         /\ Waiting(current_ray)
         /\ refl \in 0 .. Unit /\ trans \in 0 .. Unit /\ search.closest_obj \in Objects
         /\ Spreads => 2 * current_ray \in Rays /\ 2 * current_ray + 1 \in Rays
         /\ \A k \in Rays :
              /\ col'[k] # Garbage =>
                   IF k = current_ray
                   THEN col'[k].share = col[k].share + Kept(prod[current_ray])
                   ELSE col'[k] = col[k]
              /\ prod'[k] # Garbage =>
                   prod'[k] = IF Spreads /\ k = 2 * current_ray + 1
                              THEN RefractedShare(prod[current_ray])
                              ELSE IF Spreads /\ k = 2 * current_ray
                              THEN ReflectedShare(prod[current_ray]) ELSE prod[k]
              /\ enqueued'[k] = 1 =>
                   \/ enqueued[k] = 1
                   \/ Spreads /\ k \in {2 * current_ray, 2 * current_ray + 1}
<1> DEFINE i == current_ray
           w == prod[i]
<1>1. /\ TypeOK /\ RaysHaveData /\ SearchOK
  BY DEF IInv
<1>2. /\ pc = "light" /\ build.transparency /\ pc' = "ray" /\ current_ray' = i + 1
      /\ build' = build
      /\ enqueued' = [k \in Rays |-> IF k \in Enqueues THEN 1 ELSE enqueued[k]]
  BY DEF Shade
<1>3. /\ i \in Nat /\ i >= 1 /\ i \in Rays /\ i < RECURSION_DEPTH /\ Slot = i
      /\ w # Garbage /\ col[i] # Garbage
      /\ w \in Int /\ col[i] \in ColourSums
  <2>1. Slot = i /\ i \in Rays
    BY <1>1, <1>2 DEF TypeOK, Slot
  <2>. QED
    BY <1>1, <1>2, <2>1, Typed DEF RaysHaveData, Weights, Colours
<1>4. search.closest_obj \in Objects /\ refl \in 0 .. Unit /\ trans \in 0 .. Unit
  <2>1. search.closest_obj \in Objects
    BY <1>1, <1>2, Typed DEF SearchOK, Searches
  <2>. QED
    BY <2>1, FigureFact DEF refl, trans
<1>5. Spreads => 2 * i \in Rays /\ 2 * i + 1 \in Rays
  BY <1>3, ConstantFact DEF Spreads, Rays
<1>6. ASSUME NEW k \in Enqueues, k \in Rays
      PROVE  Spreads /\ k \in {2 * i, 2 * i + 1}
  <2>1. k \in {2 * i, 2 * i + 1} /\ (trans > 1 \/ refl > 1)
    BY <1>6 DEF Enqueues
  <2>2. 2 * i < RECURSION_DEPTH
    BY <1>3, <1>6, <2>1, ConstantFact DEF Rays
  <2>3. refl \in Int /\ trans \in Int
    BY <1>4
  <2>. QED
    BY <1>3, <2>1, <2>2, <2>3, ConstantFact DEF Spreads
<1>7. ASSUME NEW k \in Rays, col'[k] # Garbage
      PROVE  IF k = i THEN col'[k].share = col[k].share + Kept(w) ELSE col'[k] = col[k]
  <2> DEFINE f == [col EXCEPT ![i].share = col[i].share + Kept(w)]
  <2>1. col' = Overwrite(f, "col")
    BY DEF Shade, Kept
  <2>2. f[k] = IF k = i THEN [col[i] EXCEPT !.share = col[i].share + Kept(w)] ELSE col[k]
    BY <1>1, <1>3 DEF TypeOK
  <2>3. [col[i] EXCEPT !.share = col[i].share + Kept(w)].share = col[i].share + Kept(w)
    BY <1>3
  <2>. HIDE DEF f
  <2>4. col'[k] = f[k]
    BY <1>7, <2>1, OverwriteFact
  <2>. QED
    BY <2>2, <2>3, <2>4
<1>8. ASSUME NEW k \in Rays, prod'[k] # Garbage
      PROVE  prod'[k] = IF Spreads /\ k = 2 * i + 1 THEN RefractedShare(w)
                        ELSE IF Spreads /\ k = 2 * i THEN ReflectedShare(w) ELSE prod[k]
  <2>1. CASE Spreads
    <3> DEFINE f == [prod EXCEPT ![2*i] = ReflectedShare(w), ![2*i + 1] = RefractedShare(w)]
    <3>1. prod' = Overwrite(f, "prod")
      BY <2>1 DEF Shade
    <3>2. f[k] = IF k = 2 * i + 1 THEN RefractedShare(w)
                 ELSE IF k = 2 * i THEN ReflectedShare(w) ELSE prod[k]
      BY <1>1, <1>3 DEF TypeOK
    <3>. HIDE DEF f
    <3>3. prod'[k] = f[k]
      BY <1>8, <3>1, OverwriteFact
    <3>. QED
      BY <2>1, <3>2, <3>3
  <2>2. CASE ~Spreads
    <3>1. prod' = Overwrite(prod, "prod")
      BY <2>2 DEF Shade
    <3>. QED
      BY <1>8, <2>2, <3>1, OverwriteFact
  <2>. QED
    BY <2>1, <2>2
<1>9. ASSUME NEW k \in Rays, enqueued'[k] = 1
      PROVE  enqueued[k] = 1 \/ (Spreads /\ k \in {2 * i, 2 * i + 1})
  BY <1>2, <1>6, <1>9
<1>10. Waiting(i)
  BY <1>2 DEF Waiting
<1>11. col[i].share \in Int
  BY <1>3 DEF ColourSums
<1>. HIDE DEF i
<1>. QED
  BY <1>2, <1>3, <1>4, <1>5, <1>7, <1>8, <1>9, <1>10, <1>11 DEF i

\* The steps that hand on weight make NoDebts if there were none.
LEMMA ShadeNoDebts ==
  ASSUME IInv, Shade, NoDebts
  PROVE  NoDebts'
<1> DEFINE i == current_ray
           w == prod[i]
<1>. SUFFICES ASSUME Mild, NEW k \in Rays
              PROVE  /\ prod'[k] # Garbage => prod'[k] >= 0
                     /\ col'[k] # Garbage => col'[k].share >= 0
  BY ShadeEffect DEF NoDebts, Mild
<1>1. /\ \A j \in Rays : /\ prod[j] # Garbage => prod[j] >= 0
                         /\ col[j] # Garbage => col[j].share >= 0
  BY DEF NoDebts
<1>2. refl \in Nat /\ trans \in Nat /\ ONE - refl \in Nat /\ ONE - trans \in Nat
  <2>1. refl \in Nat /\ trans \in Nat /\ refl <= ONE /\ trans <= ONE
    BY ShadeEffect DEF Mild, refl, trans
  <2>. QED
    BY <2>1, ConstantFact DEF ONE
<1>3. w \in Nat /\ w # Garbage /\ i \in Rays
  BY <1>1, ShadeEffect
<1>4. ASSUME NEW a \in Nat, NEW b \in Nat PROVE Part(w, a, b) \in Nat
  <2>1. a * b >= 0 /\ w \in Int /\ w >= 0
    BY <1>3
  <2>2. a \in Int /\ b \in Int
    OBVIOUS
  <2>3. Part(w, a, b) \in Int /\ Part(w, a, b) >= 0
    BY <2>1, <2>2, PartSize
  <2>. QED
    BY <2>3
<1>5. /\ OwnShare(w) \in Nat /\ ReflectedShare(w) \in Nat /\ RefractedShare(w) \in Nat
  BY <1>2, <1>4 DEF OwnShare, ReflectedShare, RefractedShare
<1>6. Kept(w) \in Nat
  BY <1>3, <1>5 DEF Kept
<1>7. prod'[k] # Garbage => prod'[k] >= 0
  <2>. SUFFICES ASSUME prod'[k] # Garbage PROVE prod'[k] >= 0
    OBVIOUS
  <2>1. prod'[k] \in {RefractedShare(w), ReflectedShare(w), prod[k]}
    BY ShadeEffect
  <2>. QED
    BY <1>1, <1>5, <2>1
<1>8. col'[k] # Garbage => col'[k].share >= 0
  <2>. SUFFICES ASSUME col'[k] # Garbage PROVE col'[k].share >= 0
    OBVIOUS
  <2>1. IF k = i THEN col'[k].share = col[k].share + Kept(w) ELSE col'[k] = col[k]
    BY ShadeEffect
  <2>2. col[i] # Garbage /\ col[i].share \in Int /\ col[i].share >= 0
    BY <1>1, <1>3, ShadeEffect
  <2>. QED
    BY <1>1, <1>6, <2>1, <2>2
<1>. QED
  BY <1>7, <1>8

LEMMA ShadeConserves == IInv /\ IInv' /\ Conserved /\ Shade => Conserved'
<1>. SUFFICES ASSUME IInv, IInv', Conserved, Shade PROVE Conserved'
  OBVIOUS
<1>0. PICK i \in Rays, w \in Int : i = current_ray /\ w = prod[i]
  BY ShadeEffect
<1>1. WorthOK /\ WorthOK' /\ Total(Worth) <= Full /\ NoDebts
  BY WorthFact, WorthFactPrimed DEF Conserved
<1>2. /\ i \in Rays /\ i >= 1 /\ i \in Int /\ w \in Int /\ refl \in 0 .. Unit /\ trans \in 0 .. Unit
      /\ col[i] # Garbage /\ col[i].share \in Int /\ Waiting(i)
  BY <1>0, ShadeEffect DEF Rays
<1>3. /\ OwnShare(w) \in Int /\ ReflectedShare(w) \in Int /\ RefractedShare(w) \in Int
      /\ Kept(w) \in Int
  <2>1. /\ ONE - refl \in Int /\ ONE - trans \in Int /\ refl \in Int /\ trans \in Int
    BY <1>2, ConstantFact DEF ONE
  <2>. QED
    BY <1>2, <2>1, PartInt DEF OwnShare, ReflectedShare, RefractedShare, Kept
<1>4. \A k \in Rays : /\ Worth[k] = Held(k) + Due(k) /\ Held(k) \in Nat /\ Due(k) \in Nat
                      /\ Worth'[k] = Held(k)' + Due(k)'
  BY <1>1 DEF WorthOK
<1>5. Worth[i] = Held(i) + Size(w)
  BY <1>0, <1>2, <1>4 DEF Due
<1>6. Worth'[i] <= Held(i) + Positive(Kept(w))
  <2>1. ~Waiting(i)'
    BY <1>2, <1>0, ShadeEffect DEF Waiting
  <2>2. Due(i)' = 0
    BY <2>1 DEF Due
  <2>3. Held(i)' <= Held(i) + Positive(Kept(w))
    <3>1. Held(i) = Positive(col[i].share)
      BY <1>2 DEF Held
    <3>2. CASE col'[i] = Garbage
      <4>1. Held(i)' = 0
        BY <3>2 DEF Held
      <4>. QED
        BY <4>1, <3>1, <1>2, <1>3, SizeFact
    <3>3. CASE col'[i] # Garbage
      <4>1. col'[i].share = col[i].share + Kept(w)
        BY <1>2, <3>3, <1>0, ShadeEffect
      <4>2. Held(i)' = Positive(col'[i].share)
        BY <3>3 DEF Held
      <4>. QED
        BY <1>2, <1>3, <3>1, <4>1, <4>2, PositiveSum
    <3>. QED
      BY <3>2, <3>3
  <2>4. Worth'[i] = Held(i)' + Due(i)' /\ Held(i)' \in Nat
    BY <1>1, <1>2 DEF WorthOK
  <2>5. Positive(Kept(w)) \in Nat /\ Held(i) \in Nat
    BY <1>2, <1>3, <1>4, SizeFact
  <2>. QED
    BY <2>2, <2>3, <2>4, <2>5
<1>7. ASSUME NEW k \in Rays, k # i
      PROVE  Held(k)' <= Held(k) /\ Held(k)' \in Nat /\ Due(k)' \in Nat
  <2>1. Held(k) \in Nat
    BY <1>4
  <2>2. Held(k)' = 0 \/ Held(k)' = Held(k)
    BY <1>7, <1>0, ShadeEffect DEF Held
  <2>3. Due(k)' \in Nat
    BY <1>1 DEF WorthOK
  <2>. QED
    BY <2>1, <2>2, <2>3
<1>8. ASSUME NEW k \in Rays, k # i, ~(Spreads /\ k \in {2 * i, 2 * i + 1})
      PROVE  Worth'[k] <= Worth[k]
  <2>1. Waiting(k)' => Waiting(k) /\ prod'[k] = prod[k]
    <3>. SUFFICES ASSUME Waiting(k)' PROVE Waiting(k) /\ prod'[k] = prod[k]
      OBVIOUS
    <3>1. prod'[k] # Garbage
      BY <1>1 DEF WorthOK
    <3>2. enqueued'[k] = 1 /\ k > i /\ k \in Int
      BY <1>2, <1>8, <1>0, ShadeEffect DEF Waiting, Rays
    <3>3. enqueued[k] = 1
      BY <1>8, <3>2, <1>0, ShadeEffect
    <3>4. Waiting(k)
      BY <3>2, <3>3, <1>0, ShadeEffect DEF Waiting
    <3>5. prod'[k] = prod[k]
      BY <1>8, <3>1, <1>0, ShadeEffect
    <3>. QED
      BY <3>4, <3>5
  <2>2. Due(k)' <= Due(k)
    BY <1>4, <2>1 DEF Due
  <2>. QED
    BY <1>4, <1>7, <1>8, <2>2
<1>9. NoDebts'
  BY <1>1, ShadeNoDebts
<1>10. CASE ~Spreads
  <2> DEFINE g == [Worth EXCEPT ![i] = Held(i) + Positive(w)]
  <2>1. Worth \in [Rays -> Int] /\ Held(i) + Positive(w) \in Int
    BY <1>1, <1>2, <1>4, SizeFact DEF WorthOK, Numbers
  <2>2. g \in Numbers /\ \A k \in Rays : g[k] = IF k = i THEN Held(i) + Positive(w) ELSE Worth[k]
    BY <2>1 DEF Numbers
  <2>3. Total(g) = Total(Worth) + (Held(i) + Positive(w)) - Worth[i]
    <3>1. Worth \in Numbers /\ i # 0
      BY <1>1, <1>2 DEF WorthOK
    <3>. QED
      BY <2>1, <3>1, TotalUpdate
  <2>4. Total(g) <= Full
    <3>1. Positive(w) <= Size(w) /\ Positive(w) \in Int /\ Size(w) \in Int /\ Held(i) \in Int
      BY <1>2, <1>4, SizeFact
    <3>2. Total(Worth) \in Int /\ Full \in Int
      BY <1>1, TotalInt, ConstantFact DEF WorthOK
    <3>. QED
      BY <1>1, <1>5, <2>3, <3>1, <3>2
  <2>5. ASSUME NEW k \in Rays PROVE Worth'[k] <= g[k]
    BY <1>6, <1>8, <1>10, <2>2 DEF Kept
  <2>. HIDE DEF g
  <2>. QED
    BY <1>9, <2>2, <2>4, <2>5, WorthBounded
<1>11. CASE Spreads
  <2> DEFINE a == 2 * i
             b == 2 * i + 1
             own == Positive(OwnShare(w))
             there == Size(ReflectedShare(w))
             through == Size(RefractedShare(w))
             g1 == [Worth EXCEPT ![i] = Held(i) + own]
             g2 == [g1 EXCEPT ![a] = Held(a) + there]
             g3 == [g2 EXCEPT ![b] = Held(b) + through]
  <2>1. /\ a \in Rays /\ b \in Rays /\ a # i /\ b # i /\ a # b /\ a # 0 /\ b # 0 /\ i # 0
        /\ a > i /\ b > i /\ a \in Int /\ b \in Int
    BY <1>2, <1>11, <1>0, ShadeEffect
  <2>2. /\ own \in Nat /\ there \in Nat /\ through \in Nat
        /\ Held(i) \in Nat /\ Held(a) \in Nat /\ Held(b) \in Nat
        /\ Due(a) \in Nat /\ Due(b) \in Nat /\ Size(w) \in Nat
    BY <1>2, <1>3, <1>4, <2>1, SizeFact
  <2>3. own + there + through <= Size(w)
    BY <1>2, SharesConserve DEF OwnShare, ReflectedShare, RefractedShare
  <2>. HIDE DEF a, b, own, there, through
  <2>4. /\ g1 \in Numbers /\ g2 \in Numbers /\ g3 \in Numbers
        /\ g1[a] = Worth[a] /\ g2[b] = Worth[b]
        /\ \A k \in Rays : g3[k] = IF k = b THEN Held(b) + through
                                   ELSE IF k = a THEN Held(a) + there
                                   ELSE IF k = i THEN Held(i) + own ELSE Worth[k]
    <3>1. Worth \in [Rays -> Int] /\ Held(i) + own \in Int /\ Held(a) + there \in Int
          /\ Held(b) + through \in Int
      BY <1>1, <2>2 DEF WorthOK, Numbers
    <3>. QED
      BY <1>2, <2>1, <3>1 DEF Numbers
  <2>5. /\ Total(g1) = Total(Worth) + (Held(i) + own) - Worth[i]
        /\ Total(g2) = Total(g1) + (Held(a) + there) - g1[a]
        /\ Total(g3) = Total(g2) + (Held(b) + through) - g2[b]
    <3>1. Worth \in Numbers /\ Held(i) + own \in Int /\ Held(a) + there \in Int
          /\ Held(b) + through \in Int
      BY <1>1, <2>2 DEF WorthOK
    <3>2. Total(g1) = Total(Worth) + (Held(i) + own) - Worth[i]
      BY <1>2, <2>1, <3>1, TotalUpdate
    <3>. HIDE DEF g1
    <3>3. Total(g2) = Total(g1) + (Held(a) + there) - g1[a]
      BY <2>1, <2>4, <3>1, TotalUpdate
    <3>. HIDE DEF g2
    <3>4. Total(g3) = Total(g2) + (Held(b) + through) - g2[b]
      BY <2>1, <2>4, <3>1, TotalUpdate
    <3>. QED
      BY <3>2, <3>3, <3>4
  <2>. HIDE DEF g1, g2, g3
  <2>6. Total(g3) <= Full
    <3>1. Total(Worth) \in Int /\ Full \in Int
      BY <1>1, TotalInt, ConstantFact DEF WorthOK
    <3>2. Worth[a] = Held(a) + Due(a) /\ Worth[b] = Held(b) + Due(b)
      BY <1>4, <2>1
    <3>. QED
      BY <1>1, <1>5, <2>2, <2>3, <2>4, <2>5, <3>1, <3>2
  <2>7. ASSUME NEW k \in Rays PROVE Worth'[k] <= g3[k]
    <3>1. CASE k = i
      BY <1>6, <1>11, <2>1, <2>4, <3>1 DEF Kept, own
    <3>2. CASE k \notin {i, a, b}
      BY <1>8, <2>4, <3>2 DEF a, b
    <3>3. CASE k = a
      <4>1. Due(a)' <= there
        <5>1. Waiting(a)' => prod'[a] = ReflectedShare(w)
          BY <1>1, <1>11, <2>1, <1>0, ShadeEffect DEF WorthOK, a, b
        <5>. QED
          BY <2>2, <5>1 DEF Due, there
      <4>. QED
        BY <1>4, <1>7, <2>1, <2>2, <2>4, <3>3, <4>1
    <3>4. CASE k = b
      <4>1. Due(b)' <= through
        <5>1. Waiting(b)' => prod'[b] = RefractedShare(w)
          BY <1>1, <1>11, <2>1, <1>0, ShadeEffect DEF WorthOK, a, b
        <5>. QED
          BY <2>2, <5>1 DEF Due, through
      <4>. QED
        BY <1>4, <1>7, <2>1, <2>2, <2>4, <3>4, <4>1
    <3>. QED
      BY <3>1, <3>2, <3>3, <3>4
  <2>. QED
    BY <1>9, <2>4, <2>6, <2>7, WorthBounded
<1>. QED
  BY <1>10, <1>11

\* Without transparency nothing is owed, so that the weight is kept or reflected.
LEMMA BounceConserves == IInv /\ IInv' /\ Conserved /\ Bounce => Conserved'
<1>. SUFFICES ASSUME IInv, IInv', Conserved, Bounce PROVE Conserved'
  OBVIOUS
<1>1. WorthOK /\ WorthOK' /\ Total(Worth) <= Full /\ NoDebts
  BY WorthFact, WorthFactPrimed DEF Conserved
<1>2. /\ pc = "light" /\ ~build.transparency /\ build' = build
      /\ pc' = "ray" /\ current_ray' = current_ray + 1
      /\ current_ray \in Nat /\ current_ray <= BOUNCES
      /\ prod \in [Rays -> Weights] /\ col \in [Rays -> Colours]
      /\ prod[1] # Garbage /\ col[1] # Garbage /\ 1 \in Rays
      /\ search.closest_obj \in Objects
  <2>1. TypeOK /\ RaysHaveData /\ QueueOK /\ SearchOK
    BY DEF IInv
  <2>2. pc = "light" /\ ~build.transparency
    BY DEF Bounce
  <2>3. Slot = 1 /\ current_ray \in Nat
    BY <2>1, <2>2, ConstantFact DEF Slot, TypeOK
  <2>4. current_ray <= BOUNCES
    BY <2>1, <2>2 DEF QueueOK
  <2>5. prod[1] # Garbage /\ col[1] # Garbage
    BY <2>1, <2>2, <2>3 DEF RaysHaveData
  <2>6. search.closest_obj \in Objects
    BY <2>1, <2>2, Typed DEF SearchOK, Searches
  <2>. QED
    BY <2>1, <2>2, <2>3, <2>4, <2>5, <2>6, ConstantFact DEF Bounce, TypeOK
<1>3. PICK w \in Int, s \in Int : w = prod[1] /\ s = col[1].share
  BY <1>2 DEF Weights, Colours, ColourSums
<1>4. w \in Nat /\ s \in Nat
  BY <1>1, <1>2, <1>3 DEF NoDebts
<1>5. refl \in 0 .. Unit
  BY <1>2, FigureFact DEF refl
<1>6. PICK x \in Nat, y \in Nat : x = Part(w, Unit - refl, Unit) /\ y = Part(w, refl, Unit)
  BY <1>4, <1>5, BouncesConserve
<1>7. x + y <= w
  BY <1>4, <1>5, <1>6, BouncesConserve
<1>8. PICK v \in Nat : v = IF current_ray = BOUNCES THEN w ELSE x
  BY <1>4
<1>9. ASSUME NEW k \in Rays
      PROVE  /\ k = 1 => col'[k].share = s + v /\ prod'[k] = y
             /\ k # 1 => col'[k] = col[k] /\ prod'[k] = prod[k]
  <2>1. /\ col' = [col EXCEPT ![1].share = s + v] /\ prod' = [prod EXCEPT ![1] = y]
    BY <1>3, <1>6, <1>8 DEF Bounce
  <2>2. col[1] \in ColourSums
    BY <1>2 DEF Colours
  <2>3. [col[1] EXCEPT !.share = s + v].share = s + v
    BY <2>2 DEF ColourSums
  <2>. QED
    BY <1>2, <2>1, <2>2, <2>3
<1>10. NoDebts'
  <2>. SUFFICES ASSUME NEW k \in Rays
                PROVE  /\ prod'[k] # Garbage => prod'[k] >= 0
                       /\ col'[k] # Garbage => col'[k].share >= 0
    BY DEF NoDebts
  <2>. QED
    BY <1>1, <1>2, <1>4, <1>9 DEF NoDebts
<1>11. /\ Worth \in [Rays -> Int]
       /\ \A k \in Rays : /\ Worth[k] = Held(k) + Due(k) /\ Held(k) \in Nat /\ Due(k) \in Nat
                          /\ Worth'[k] = Held(k)' + Due(k)'
                          /\ Held(k)' \in Nat /\ Due(k)' \in Nat
  BY <1>1 DEF WorthOK, Numbers
<1>12. Worth[1] = s + w
  <2>1. Waiting(1)
    BY <1>2 DEF Waiting
  <2>2. Held(1) = s /\ Due(1) = w
    BY <1>2, <1>3, <1>4, <2>1 DEF Held, Due, Positive, Size
  <2>. QED
    BY <1>2, <1>11, <2>2
<1>13. Worth'[1] <= s + w
  <2>1. Held(1)' <= s + v
    BY <1>2, <1>4, <1>9 DEF Held, Positive
  <2>2. Due(1)' <= y
    BY <1>2, <1>9 DEF Due, Size
  <2>3. current_ray = BOUNCES => Due(1)' = 0
    BY <1>2, ConstantFact DEF Due, Waiting
  <2>. QED
    BY <1>2, <1>4, <1>7, <1>8, <1>11, <2>1, <2>2, <2>3
<1>14. ASSUME NEW k \in Rays, k # 1 PROVE Worth'[k] <= Worth[k]
  <2>1. Held(k)' = Held(k)
    BY <1>9, <1>14 DEF Held
  <2>2. Due(k)' = 0
    BY <1>2, <1>14 DEF Due, Waiting
  <2>. QED
    BY <1>11, <2>1, <2>2
<1>15. ASSUME NEW k \in Rays PROVE Worth'[k] <= Worth[k]
  BY <1>12, <1>13, <1>14
<1>. QED
  BY <1>1, <1>10, <1>15, WorthBounded DEF WorthOK

LEMMA Conservation == Spec => [](IInv /\ Conserved)
<1>1. Init => IInv /\ Conserved
  BY InitIInv, InitConserved
<1>2. (IInv /\ Conserved) /\ [Next]_vars => (IInv /\ Conserved)'
  <2>. SUFFICES ASSUME IInv, Conserved, [Next]_vars PROVE IInv' /\ Conserved'
    OBVIOUS
  <2>1. IInv'
    BY InvariantStep
  <2>2. Conserved'
    BY <2>1, QuietSteps, ShadeConserves, BounceConserves DEF Next, Returned
  <2>. QED
    BY <2>1, <2>2
<1>. QED
  BY <1>1, <1>2, PTL DEF Spec

LEMMA LightIsWorth ==
  ASSUME IInv, Conserved
  PROVE  LightIsAccounted
<1>1. WorthOK /\ Total(Worth) <= Full /\ NoDebts
  BY WorthFact DEF Conserved
<1>2. Light \in Numbers
  BY <1>1 DEF WorthOK, Light, Numbers
<1>3. ASSUME NEW k \in Rays PROVE Light[k] <= Worth[k]
  <2>1. Worth[k] = Held(k) + Due(k) /\ Held(k) \in Nat /\ Due(k) \in Nat
        /\ (col[k] # Garbage => col[k].share \in Int)
    BY <1>1 DEF WorthOK
  <2>2. Light[k] = IF k \in Begun /\ col[k] # Garbage THEN col[k].share ELSE 0
    BY DEF Light
  <2>3. Light[k] <= Held(k)
    BY <2>1, <2>2 DEF Held, Positive
  <2>. QED
    BY <1>2, <2>1, <2>3 DEF Numbers
<1>4. Total(Light) <= Full
  <2>1. Total(Light) <= Total(Worth)
    BY <1>1, <1>2, <1>3, TotalMonotone DEF WorthOK
  <2>2. Total(Light) \in Int /\ Total(Worth) \in Int /\ Full \in Int
    BY <1>1, <1>2, TotalInt, ConstantFact DEF WorthOK
  <2>. QED
    BY <1>1, <2>1, <2>2
<1>5. Mild => \A k \in Begun : col[k] # Garbage => col[k].share >= 0
  BY <1>1 DEF NoDebts, Begun
<1>6. ASSUME NEW k \in Begun, NEW l \in PointLights, col[k] # Garbage
      PROVE  col[k].glare[l] <= Blinded(k)
  <2>1. TypeOK /\ GlareOK /\ k \in Rays /\ k >= 1
    BY DEF IInv, Begun
  <2>2. CASE build.transparency
    BY <1>6, <2>1, <2>2 DEF GlareOK
  <2>3. CASE ~build.transparency
    <3>1. k = 1 /\ current_ray \in Nat /\ current_ray >= 1
      BY <2>1, <2>3, Typed DEF Begun, Slot
    <3>2. col[1].glare[l] \in Nat
      BY <1>6, <2>1, <3>1, GlareTyped
    <3>3. col[1].glare[l] <= IF ~build.direct THEN 0
                             ELSE IF pc \in {"ray", "search"} THEN current_ray - 1
                                                              ELSE current_ray
      BY <1>6, <2>1, <2>3, <3>1 DEF GlareOK
    <3>. QED
      BY <2>3, <3>1, <3>2, <3>3 DEF Blinded
  <2>. QED
    BY <2>1, <2>2, <2>3, Typed
<1>. QED
  BY <1>4, <1>5, <1>6 DEF LightIsAccounted, Mild

(***************************************************************************)
(* The colours of the figures a pixel shows weigh no more than the primary *)
(* ray, whatever their surfaces, the depth and the layout of the stack:    *)
(* each share is rounded down, and what Shade and Bounce hand on is worth  *)
(* no more than what arrived (SharesConserve, BouncesConserve).  The glare *)
(* of RTX_DIRECT is not part of that sum, and a pixel may well show more   *)
(* light with it: for it there is only the bound on how often it is added  *)
(* (GlareOK).                                                              *)
(***************************************************************************)
THEOREM LightIsAccountedFor == Spec => []LightIsAccounted
<1>1. IInv /\ Conserved => LightIsAccounted
  BY LightIsWorth
<1>. QED
  BY <1>1, Conservation, PTL
=============================================================================

----------------------------- MODULE MCMarcher -----------------------------
(***************************************************************************)
(* Spheres a and b, a plane c and no box; unions as each run has them.     *)
(* Three distances are a hit, a step and a miss.                           *)
(***************************************************************************)
EXTENDS Marcher

CONSTANTS a, b, c, p, q, w1, w2   \* figures, points, work-items

ThreeFigures == <<<<a, b>>, <<c>>, <<>>>>
TwoFigures == <<<<a>>, <<c>>, <<>>>>

NoUnion == [f \in {a, b, c} |-> -1]
UnionZero == [f \in {a, c} |-> 0]

=============================================================================

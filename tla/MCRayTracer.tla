---------------------------- MODULE MCRayTracer ----------------------------
(***************************************************************************)
(* A glass ball, a matt and a glossy cone, a matt cylinder and a glossy    *)
(* torus.  A crossing is behind the ray (0), near (2) or far (3), and the  *)
(* light is between or behind the two.                                     *)
(***************************************************************************)
EXTENDS RayTracer

Surface(type, r, t) == [type |-> type, reflective |-> r, transparency |-> t]

Scene == <<Surface("SPHERE", 3, 6), Surface("CONE", 0, 0), Surface("CONE", 4, 0),
           Surface("CYLINDER", 0, 0), Surface("TOR", 4, 0)>>

\* A direct light is a point light whose end is INFINITY.
Lamps == <<"POINT", "AMBIENT">>

Root(r, a, b) == [real |-> r, x1 |-> a, x2 |-> b]
Tube(l, inf, a, b) == [real |-> l.real, x1 |-> l.x1, x2 |-> l.x2,
                       infinite |-> inf, in1 |-> a, in2 |-> b]

BallLines == {Root(FALSE, 2, 0), Root(TRUE, 2, 0), Root(TRUE, 3, 2)}
ConeMet == {Root(TRUE, 0, 0), Root(TRUE, 2, 3), Root(FALSE, 0, 0)}
TubeLines == {Tube(Root(TRUE, 3, 2), inf, a, b) : inf, a, b \in BOOLEAN}
             \cup {Tube(Root(TRUE, 2, 0), FALSE, a, TRUE) : a \in BOOLEAN}

\* A cubic with a root zero, and a tangent line with two.
RingLines ==
  {[near |-> TRUE, allReal |-> TRUE, cubic |-> c, re |-> <<0, 3, x, x>>, im |-> <<0, y, 0, 2>>] :
      c \in {<<0, 4, 5>>, <<-5, 4, 0>>, <<1, 0, 4>>}, x \in {0, 2}, y \in {0, 2}}
  \cup {[near |-> TRUE, allReal |-> TRUE, cubic |-> <<0, 0, 5>>, re |-> <<2, 2, 2, 2>>,
          im |-> <<2, 2, 2, 2>>],
        [near |-> FALSE, allReal |-> TRUE, cubic |-> <<1, 1, 5>>, re |-> <<0, 0, 0, 0>>,
          im |-> <<0, 0, 0, 0>>]}

SceneLines == [SPHERE |-> BallLines, CONE |-> ConeMet, CYLINDER |-> TubeLines,
               TOR |-> RingLines]

Flags(t, r, d) == [transparency |-> t, refractive |-> r, direct |-> d]
FlagSets == {Flags(TRUE, TRUE, TRUE), Flags(TRUE, TRUE, FALSE),
             Flags(TRUE, FALSE, FALSE), Flags(FALSE, FALSE, TRUE)}

=============================================================================

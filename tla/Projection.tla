----------------------------- MODULE Projection -----------------------------
(***************************************************************************)
(* From a pixel to the ray through it and from a selected object back to   *)
(* the pixel of its handle: camera_s and the rotations of linalg.cpp.      *)
(*                                                                         *)
(* Floating-point numbers are fractions here, of whole vectors and whole   *)
(* matrices, and an angle is its sine and cosine: everything is exact for  *)
(* angles and vectors without irrational roots.                            *)
(***************************************************************************)
EXTENDS Overlay

CONSTANTS Bearings,     \* angles a camera can have, alpha and theta
          Directions    \* directions a scene file can give a camera

(* A vector at/of; an angle of sine sin/of and cosine cos/of.               *)
Vector == [at : Int \X Int \X Int, of : Int \ {0}]
Angle == {a \in [sin : Int, cos : Int, of : Nat \ {0}] :
            a.sin * a.sin + a.cos * a.cos = a.of * a.of}

dot(u, v) == u[1] * v[1] + u[2] * v[2] + u[3] * v[3]

det(u, v, w) ==
  u[1] * (v[2] * w[3] - v[3] * w[2]) - u[2] * (v[1] * w[3] - v[3] * w[1])
    + u[3] * (v[1] * w[2] - v[2] * w[1])

Root(n) == CHOOSE r \in 0 .. n : r * r = n
IsSquare(n) == \E r \in 0 .. n : r * r = n

\* A direction whose length is a whole number, and across as well.
Exact == {d \in Int \X Int \X Int :
            IsSquare(d[3] * d[3] + d[1] * d[1]) /\ IsSquare(dot(d, d))}

ASSUME ProjectionAssumption ==
  /\ Bearings \subseteq Angle
  /\ Directions \subseteq Exact

(* atan2(y, x), of a vector of the given length; atan2(0, 0) is zero.       *)
atan2(y, x, length) ==
  IF length = 0 THEN [sin |-> 0, cos |-> 1, of |-> 1]
                ELSE [sin |-> y, cos |-> x, of |-> length]
Opposite(a) == [a EXCEPT !.sin = -@]

compute_angles(d) ==
  LET across == Root(d[3] * d[3] + d[1] * d[1])
  IN  [alpha |-> atan2(d[1], d[3], across),
       theta |-> Opposite(atan2(d[2], across, Root(dot(d, d))))]

(* A matrix: rows/of.                                                       *)
compute_matrix(alpha, theta) ==
  [rows |-> <<<<alpha.cos * theta.of, alpha.sin * theta.sin, alpha.sin * theta.cos>>,
              <<0, alpha.of * theta.cos, -(alpha.of * theta.sin)>>,
              <<-(alpha.sin * theta.of), theta.sin * alpha.cos, alpha.cos * theta.cos>>>>,
   of |-> alpha.of * theta.of]

(* The minors of inv, each a row of the code.                               *)
(* Mutant: rows for columns.                                                *)
Minors_Rows(u, v, w) ==
  <<<<v[2] * w[3] - w[2] * v[3], v[3] * w[1] - v[1] * w[3], v[1] * w[2] - w[1] * v[2]>>,
    <<u[3] * w[2] - u[2] * w[3], u[1] * w[3] - u[3] * w[1], w[1] * u[2] - u[1] * w[2]>>,
    <<u[2] * v[3] - u[3] * v[2], v[1] * u[3] - u[1] * v[3], u[1] * v[2] - v[1] * u[2]>>>>
Minors(u, v, w) ==
  <<<<v[2] * w[3] - w[2] * v[3], u[3] * w[2] - u[2] * w[3], u[2] * v[3] - u[3] * v[2]>>,
    <<v[3] * w[1] - v[1] * w[3], u[1] * w[3] - u[3] * w[1], v[1] * u[3] - u[1] * v[3]>>,
    <<v[1] * w[2] - w[1] * v[2], w[1] * u[2] - u[1] * w[2], u[1] * v[2] - v[1] * u[2]>>>>

Times(t, v) == <<t * v[1], t * v[2], t * v[3]>>

\* A minor of rows/of is one of the rows over of^2, their determinant over of^3.
inv(m) ==
  LET u == m.rows[1]
      v == m.rows[2]
      w == m.rows[3]
      minors == Minors(u, v, w)
  IN  [rows |-> <<Times(m.of, minors[1]), Times(m.of, minors[2]), Times(m.of, minors[3])>>,
       of |-> det(u, v, w)]

rotate_vector(v, m) ==
  [at |-> <<dot(m.rows[1], v.at), dot(m.rows[2], v.at), dot(m.rows[3], v.at)>>,
   of |-> m.of * v.of]

(* The camera of a scene file, and one that has been turned since.          *)
camera_s(direction) ==
  LET angles == compute_angles(direction)
  IN  compute_matrix(angles.alpha, angles.theta)

recompute_reverse_matrix(matrix) == inv(matrix)

Ahead == [at |-> <<0, 0, 1>>, of |-> 1]

-----------------------------------------------------------------------------
(* Pixels.                                                                  *)

(* Before it is normalised, times 2 * Width * Height.                       *)
Sight(p) == <<(2 * p[1] - Width) * Height, (2 * p[2] - Height) * Width, 2 * Width * Height>>

vec3_from_pixpos(p) == [at |-> Sight(p), of |-> Root(dot(Sight(p), Sight(p)))]

\* A cast to int cuts the fraction off, of a/b with b positive.
Cast(a, b) == Sgn(a) * (Abs(a) \div b)

pixpos_from_vec3(v) ==
  <<Cast((2 * v.at[1] + v.of) * Width, 2 * v.of),
    Height - Cast((2 * v.at[2] + v.of) * Height, 2 * v.of)>>

(* The pixel the ray of a click goes through, and where the kernel writes   *)
(* the pixel it has traced: rows of the image count downwards.              *)
Clicked(x, y) == <<x, Height - y>>
Written(p) == <<p[1], Height - p[2] - 1>>

(* Where update_sel_obj_center has the handle of an object in this          *)
(* direction.                                                               *)
sel_c(oc, matrix) == pixpos_from_vec3(rotate_vector(oc, recompute_reverse_matrix(matrix)))

-----------------------------------------------------------------------------
(* Properties.                                                              *)

Same(u, v) == \A k \in 1 .. 3 : u.at[k] * v.of = v.at[k] * u.of

Views == {compute_matrix(alpha, theta) : alpha, theta \in Bearings}

LooksWhereTold ==
  \A d \in Directions \ {<<0, 0, 0>>} :
    Same(rotate_vector(Ahead, camera_s(d)), [at |-> d, of |-> Root(dot(d, d))])

Rotates(m) ==
  \A j, k \in 1 .. 3 :
    dot(m.rows[j], m.rows[k]) = IF j = k THEN m.of * m.of ELSE 0

IsRotation == \A m \in Views \cup {camera_s(d) : d \in Directions} : Rotates(m)

Between(a, b, c) == (b <= a /\ a <= c) \/ (c <= a /\ a <= b)

HandlesOnObjects ==
  \A m \in Views : \A p \in Pixels :
    IsSquare(dot(Sight(p), Sight(p))) =>
      LET handle == sel_c(rotate_vector(vec3_from_pixpos(p), m), m)
      IN  /\ Between(handle[1], p[1], Width \div 2)
          /\ Between(handle[2], Height - p[2], Height - Height \div 2)

PicksNearby ==
  \A p \in Pixels :
    LET q == Clicked(Written(p)[1], Written(p)[2]) IN
    /\ Written(p) \in Pixels
    /\ q[1] = p[1] /\ Abs(q[2] - p[2]) <= 1

ViewIsSound == LooksWhereTold /\ IsRotation /\ HandlesOnObjects /\ PicksNearby
=============================================================================

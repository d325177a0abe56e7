----------------------------- MODULE MCSession -----------------------------
(***************************************************************************)
(* A session with everything a user can touch, in a window of nine by six  *)
(* pixels; handles are up to two pixels outside; views whose angles have   *)
(* rational sines.                                                         *)
(***************************************************************************)
EXTENDS MCEventHooks, Session

PointsAround == (-2 .. Width + 1) \X (-2 .. Height + 1)

SomeBearings == {a \in [sin : -5 .. 5, cos : -5 .. 5, of : {5}] :
                   a.sin * a.sin + a.cos * a.cos = 25}

SomeDirections == {d \in (-4 .. 4) \X (-4 .. 4) \X (-4 .. 4) :
                     /\ IsSquare(d[1] * d[1] + d[3] * d[3])
                     /\ IsSquare(d[1] * d[1] + d[2] * d[2] + d[3] * d[3])}
=============================================================================

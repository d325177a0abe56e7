------------------------------- MODULE Overlay -------------------------------
(***************************************************************************)
(* What framehook draws over the image of a selected object, and where a   *)
(* press grabs it: lines from the handle in the middle to the other three, *)
(* a square on each handle.  put_pixel writes to the image's memory without*)
(* a check, and a handle can be anywhere, also far outside the window.     *)
(***************************************************************************)
EXTENDS Integers

CONSTANTS Width, Height,   \* of the window and the image
          Points,          \* where a handle can be
          Side             \* half the side of a square: 10 in framehook

\* In a narrower window the limits of draw_line are the wrong way round, and
\* it does write outside the image.
ASSUME OverlayAssumption ==
  /\ Width \in Nat /\ Height \in Nat /\ Width >= 3 /\ Height >= 3
  /\ Points \subseteq Int \X Int
  /\ Side \in Nat

Pixels == (0 .. Width - 1) \X (0 .. Height - 1)

Abs(a) == IF a < 0 THEN -a ELSE a
Sgn(a) == IF a < 0 THEN -1 ELSE 1

trunc(x, start, end) ==
  LET raised == IF x < start THEN start ELSE x
  IN  IF end < raised THEN end ELSE raised

\* One round of the loops of _draw_line_low and _draw_line_high: how far the
\* line has gone sideways, and the error that decides when it goes on.
\* Mutant: the error is not taken back when it does.
Round_KeepsError(s, long, side, turn) ==
  IF s.D > 0 THEN [across |-> s.across + turn, D |-> s.D + 2 * side]
             ELSE [across |-> s.across, D |-> s.D + 2 * side]
Round(s, long, side, turn) ==
  IF s.D > 0 THEN [across |-> s.across + turn, D |-> s.D + 2 * (side - long)]
             ELSE [across |-> s.across, D |-> s.D + 2 * side]

\* The points of a line that goes from a to b along the axis of its greater
\* extent, of a line that goes up or down by less than it goes along.
Track(a, b) ==
  LET long == b[1] - a[1]
      side == Abs(b[2] - a[2])
      turn == Sgn(b[2] - a[2])
      loop[k \in 0 .. long] ==
        IF k = 0 THEN [across |-> a[2], D |-> 2 * side - long]
        ELSE Round(loop[k - 1], long, side, turn)
  IN  {<<a[1] + k, loop[k].across>> : k \in 0 .. long}

Swap(p) == <<p[2], p[1]>>

_draw_line_low(a, b) == Track(a, b)
_draw_line_high(a, b) == {Swap(p) : p \in Track(Swap(a), Swap(b))}

_draw_line(a, b) ==
  IF Abs(b[2] - a[2]) < Abs(b[1] - a[1])
  THEN IF a[1] > b[1] THEN _draw_line_low(b, a) ELSE _draw_line_low(a, b)
  ELSE IF a[2] > b[2] THEN _draw_line_high(b, a) ELSE _draw_line_high(a, b)

\* Each point of a line is three pixels.
Brush(p) == {<<p[1] + k, p[2] + k>> : k \in {-1, 0, 1}}

Inner(p) == <<trunc(p[1], 1, Width - 2), trunc(p[2], 1, Height - 2)>>

draw_line(a, b) == UNION {Brush(p) : p \in _draw_line(Inner(a), Inner(b))}

draw_rect(p) ==
  LET x(d) == trunc(p[1] + d, 0, Width)
      y(d) == trunc(p[2] + d, 0, Height)
  IN  (x(-Side) .. x(Side) - 1) \X (y(-Side) .. y(Side) - 1)

point_near(point, near) ==
  Abs(point[1] - near[1]) <= Side /\ Abs(point[2] - near[2]) <= Side

-----------------------------------------------------------------------------
(* Properties.                                                              *)

\* Twice the distance, across, of p from the line through a and b, as a
\* multiple of its greater extent.
Off(p, a, b) == 2 * ((p[2] - a[2]) * (b[1] - a[1]) - (p[1] - a[1]) * (b[2] - a[2]))
Extent(a, b) == LET w == Abs(b[1] - a[1])
                    h == Abs(b[2] - a[2])
                IN  IF w < h THEN h ELSE w

InImage ==
  /\ \A a, b \in Points : draw_line(a, b) \subseteq Pixels
  /\ \A p \in Points : draw_rect(p) \subseteq Pixels

Straight ==
  \A a, b \in {Inner(p) : p \in Points} :
    /\ {a, b} \subseteq _draw_line(a, b)
    /\ \A p \in _draw_line(a, b) : Abs(Off(p, a, b)) <= Extent(a, b)

Grabbable == \A p \in Points : \A q \in draw_rect(p) : point_near(q, p)

DrawingIsSound == InImage /\ Straight /\ Grabbable
=============================================================================

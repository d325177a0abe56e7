--------------------------- MODULE Session_proofs ---------------------------
(***************************************************************************)
(* Proofs about what is drawn over the image and about the view, for every *)
(* window of at least three by three pixels, every place a handle can be,  *)
(* and every angle and direction the model can compute with exactly.       *)
(***************************************************************************)
EXTENDS Session, WellFoundedInduction, TLAPS


(* A set of numbers that is not empty has a least element, and so a set     *)
(* with 0 and the successor of each of its numbers has all of them: a proof *)
(* by induction names the set of the numbers for which its claim holds.     *)
LEMMA LeastNumber ==
  ASSUME NEW T, T \subseteq Nat, T # {}
  PROVE  \E n \in T : \A k \in T : n <= k
<1> DEFINE R == {ss \in Nat \X Nat : ss[1] < ss[2]}
<1>1. IsWellFoundedOn(R, Nat)
  BY NatLessThanWellFounded DEF OpToRel
<1>2. \A k, n \in Nat : k < n => <<k, n>> \in R
  OBVIOUS
<1> HIDE DEF R
<1>3. PICK n \in T : \A k \in T : ~(<<k, n>> \in R)
  BY <1>1, WFMin
<1>4. ASSUME NEW k \in T PROVE n <= k
  <2>1. k \in Nat /\ n \in Nat /\ ~(<<k, n>> \in R)
    BY <1>3
  <2>2. ~(k < n)
    BY <2>1, <1>2
  <2>3. QED
    BY <2>1, <2>2
<1>5. QED
  BY <1>4

LEMMA Induction ==
  ASSUME NEW S, 0 \in S, \A n \in Nat : n \in S => n + 1 \in S
  PROVE  \A n \in Nat : n \in S
<1> DEFINE T == Nat \ S
<1>1. SUFFICES ASSUME T # {} PROVE FALSE
  OBVIOUS
<1>2. PICK n \in T : \A k \in T : n <= k
  BY <1>1, LeastNumber
<1>3. n \in Nat /\ n # 0
  BY <1>2
<1>4. n - 1 \in Nat /\ n - 1 \notin T
  BY <1>2, <1>3
<1>5. QED
  BY <1>3, <1>4

-----------------------------------------------------------------------------
(* Handles.                                                                 *)

LEMMA Coordinates ==
  ASSUME NEW p \in Points PROVE p[1] \in Int /\ p[2] \in Int
<1>1. p \in Int \X Int
  BY OverlayAssumption
<1>2. QED
  BY <1>1

(* A line drawn at the limits of draw_line leaves room for its brush.      *)
THEOREM BrushInImage ==
  ASSUME NEW p \in Points
  PROVE  Brush(Inner(p)) \subseteq Pixels
<1> USE OverlayAssumption
<1>1. p[1] \in Int /\ p[2] \in Int
  BY Coordinates
<1>2. /\ trunc(p[1], 1, Width - 2) \in 1 .. Width - 2
      /\ trunc(p[2], 1, Height - 2) \in 1 .. Height - 2
  BY <1>1 DEF trunc
<1> DEFINE u == trunc(p[1], 1, Width - 2)
           v == trunc(p[2], 1, Height - 2)
<1>3. \A k \in {-1, 0, 1} : u + k \in 0 .. Width - 1 /\ v + k \in 0 .. Height - 1
  BY <1>2
<1>4. Brush(Inner(p)) = {<<u + k, v + k>> : k \in {-1, 0, 1}}
  BY DEF Brush, Inner
<1>5. QED
  BY <1>3, <1>4 DEF Pixels

(* The square of a handle stays in the image, wherever the handle is.      *)
THEOREM SquaresInImage ==
  ASSUME NEW p \in Points
  PROVE  draw_rect(p) \subseteq Pixels
<1> USE OverlayAssumption
<1>1. p[1] \in Int /\ p[2] \in Int
  BY Coordinates
<1>2. \A d \in {-Side, Side} : /\ trunc(p[1] + d, 0, Width) \in 0 .. Width
                                /\ trunc(p[2] + d, 0, Height) \in 0 .. Height
  <2>1. \A c \in Int, w \in Nat : trunc(c, 0, w) \in 0 .. w
    BY DEF trunc
  <2>2. \A d \in {-Side, Side} : p[1] + d \in Int /\ p[2] + d \in Int
    BY <1>1
  <2>3. QED
    BY <2>1, <2>2
<1>3. QED
  BY <1>2 DEF draw_rect, Pixels

(* A press on any pixel of a handle's square is near enough to grab it     *)
(* (draw_rect, point_near).                                                *)
THEOREM SquaresCanBeGrabbed ==
  ASSUME NEW p \in Points, NEW q \in draw_rect(p)
  PROVE  point_near(q, p)
<1> USE OverlayAssumption
<1>1. p[1] \in Int /\ p[2] \in Int
  BY Coordinates
<1> DEFINE x(d) == trunc(p[1] + d, 0, Width)
           y(d) == trunc(p[2] + d, 0, Height)
<1>2. q[1] \in x(-Side) .. x(Side) - 1 /\ q[2] \in y(-Side) .. y(Side) - 1
  BY DEF draw_rect
<1>3. \A c \in Int, w \in Nat :
        \A r \in trunc(c - Side, 0, w) .. trunc(c + Side, 0, w) - 1 :
          Abs(r - c) <= Side
  BY DEF trunc, Abs
<1>4. p[1] + (-Side) = p[1] - Side /\ p[2] + (-Side) = p[2] - Side
  BY <1>1
<1>5. QED
  BY <1>1, <1>2, <1>3, <1>4 DEF point_near

-----------------------------------------------------------------------------
(* The line.                                                                *)

\* After k rounds the line has turned m times, and is at most half a pixel
\* from where it should be.
OnTrack(s, k, m, from, long, side, turn) ==
  /\ m \in Nat
  /\ s.across = from + turn * m
  /\ s.D = 2 * (side * (k + 1)) - 2 * (long * m) - long
  /\ -long <= 2 * (side * k) - 2 * (long * m)
  /\ 2 * (side * k) - 2 * (long * m) <= long

LEMMA Distributes ==
  ASSUME NEW a \in Int, NEW b \in Int PROVE a * (b + 1) = a * b + a
OBVIOUS

LEMMA Monotone ==
  ASSUME NEW a \in Nat, NEW b \in Int, NEW c \in Int, b <= c PROVE a * b <= a * c
<1>1. PICK d \in Nat : c = b + d
  <2>1. c - b \in Nat /\ c = b + (c - b)
    OBVIOUS
  <2>2. QED
    BY <2>1
<1>2. a * c = a * b + a * d
  BY <1>1
<1>3. a * d \in Nat
  BY <1>1
<1>4. QED
  BY <1>2, <1>3

(* One round of the loops of _draw_line_low and _draw_line_high keeps the  *)
(* line within half a pixel, for a line that goes across by no more than   *)
(* it goes along.                                                          *)
THEOREM RoundStaysOnTrack ==
  ASSUME NEW long \in Nat, NEW side \in Nat, side <= long, NEW turn \in {-1, 1},
         NEW from \in Int, NEW k \in Nat, NEW m \in Nat,
         NEW s \in [across : Int, D : Int], OnTrack(s, k, m, from, long, side, turn)
  PROVE  \E n \in {m, m + 1} :
           OnTrack(Round(s, long, side, turn), k + 1, n, from, long, side, turn)
<1> DEFINE t == Round(s, long, side, turn)
<1>1. /\ side * (k + 1) = side * k + side
      /\ side * ((k + 1) + 1) = side * k + 2 * side
      /\ long * (m + 1) = long * m + long
      /\ turn * (m + 1) = turn * m + turn
  BY Distributes
<1>2. side * k \in Nat /\ long * m \in Nat /\ turn * m \in Int
  OBVIOUS
<1> DEFINE e == side * k
           f == long * m
<1>3. e \in Nat /\ f \in Nat
  BY <1>2
<1>4. /\ s.across = from + turn * m
      /\ s.D = 2 * (e + side) - 2 * f - long
      /\ -long <= 2 * e - 2 * f /\ 2 * e - 2 * f <= long
  BY <1>1 DEF OnTrack
<1>5. CASE s.D > 0
  <2>1. t.across = s.across + turn /\ t.D = s.D + 2 * (side - long)
    BY <1>5 DEF Round
  <2>2. t.across = from + turn * (m + 1)
    BY <1>1, <1>2, <1>4, <2>1
  <2> HIDE DEF e, f, t
  <2>3. /\ t.D = 2 * (e + 2 * side) - 2 * (f + long) - long
        /\ -long <= 2 * (e + side) - 2 * (f + long)
        /\ 2 * (e + side) - 2 * (f + long) <= long
    BY <1>3, <1>4, <1>5, <2>1
  <2>4. OnTrack(t, k + 1, m + 1, from, long, side, turn)
    BY <1>1, <2>2, <2>3 DEF OnTrack, e, f
  <2>5. QED
    BY <2>4 DEF t
<1>6. CASE ~(s.D > 0)
  <2>1. t.across = s.across /\ t.D = s.D + 2 * side
    BY <1>6 DEF Round
  <2> HIDE DEF e, f, t
  <2>2. /\ t.D = 2 * (e + 2 * side) - 2 * f - long
        /\ -long <= 2 * (e + side) - 2 * f
        /\ 2 * (e + side) - 2 * f <= long
    BY <1>3, <1>4, <1>6, <2>1
  <2>3. OnTrack(t, k + 1, m, from, long, side, turn)
    BY <1>1, <1>4, <2>1, <2>2 DEF OnTrack, e, f
  <2>4. QED
    BY <2>3 DEF t
<1>7. QED
  BY <1>5, <1>6

(* A line on its track has not turned past its end, and at its end it has  *)
(* arrived: with the limits of draw_line it is in the image all along.     *)
THEOREM TrackArrives ==
  ASSUME NEW long \in Nat \ {0}, NEW side \in Nat, side <= long, NEW turn \in {-1, 1},
         NEW from \in Int, NEW k \in 0 .. long, NEW m \in Nat,
         NEW s \in [across : Int, D : Int], OnTrack(s, k, m, from, long, side, turn)
  PROVE  m <= side /\ (k = long => m = side)
<1>1. side * k <= side * long /\ side * long = long * side
  BY Monotone
<1>2. long * (side + 1) = long * side + long
  BY Distributes
<1>3. /\ side * k \in Nat /\ long * side \in Nat /\ long * m \in Nat
      /\ -long <= 2 * (side * k) - 2 * (long * m)
      /\ 2 * (side * k) - 2 * (long * m) <= long
  BY DEF OnTrack
<1>4. m <= side
  <2>1. SUFFICES ASSUME m >= side + 1 PROVE FALSE
    OBVIOUS
  <2>2. long * (side + 1) <= long * m
    BY <2>1, Monotone
  <2> DEFINE e == side * k
             f == long * m
             g == long * side
  <2>3. e <= g /\ g + long <= f /\ -long <= 2 * e - 2 * f
    BY <1>1, <1>2, <1>3, <2>2
  <2>4. e \in Nat /\ f \in Nat /\ g \in Nat
    BY <1>3
  <2> HIDE DEF e, f, g
  <2>5. QED
    BY <2>3, <2>4
<1>5. ASSUME k = long PROVE m = side
  <2>1. SUFFICES ASSUME m + 1 <= side PROVE FALSE
    BY <1>4
  <2>2. long * (m + 1) <= long * side /\ long * (m + 1) = long * m + long
    BY <2>1, Monotone, Distributes
  <2> DEFINE f == long * m
             g == long * side
  <2>3. f + long <= g /\ 2 * g - 2 * f <= long
    BY <1>1, <1>3, <1>5, <2>2
  <2>4. f \in Nat /\ g \in Nat
    BY <1>3
  <2> HIDE DEF f, g
  <2>5. QED
    BY <2>3, <2>4
<1>6. QED
  BY <1>4, <1>5

State == [across : Int, D : Int]

\* What a loop of a line computes, from its first round to its last.
Loops(f, from, long, side, turn) ==
  f = [k \in 0 .. long |-> IF k = 0 THEN [across |-> from, D |-> 2 * side - long]
                           ELSE Round(f[k - 1], long, side, turn)]

LEMMA RoundState ==
  ASSUME NEW long \in Nat, NEW side \in Nat, NEW turn \in {-1, 1}, NEW s \in State
  PROVE  Round(s, long, side, turn) \in State
BY DEF Round, State

(* The loops of a line have a value: one round more extends the last one.   *)
LEMMA LoopsRun ==
  ASSUME NEW long \in Nat, NEW side \in Nat, NEW turn \in {-1, 1}, NEW from \in Int
  PROVE  \E f : Loops(f, from, long, side, turn)
<1> DEFINE first == [across |-> from, D |-> 2 * side - long]
           Runs(f, n) == /\ f \in [0 .. n -> State]
                         /\ f[0] = first
                         /\ \A k \in 1 .. n : f[k] = Round(f[k - 1], long, side, turn)
           S == {n \in Nat : \E f : Runs(f, n)}
<1>1. first \in State
  BY DEF State
<1>2. 0 \in S
  <2>1. Runs([k \in 0 .. 0 |-> first], 0)
    BY <1>1
  <2>2. QED
    BY <2>1
<1>3. ASSUME NEW n \in Nat, n \in S PROVE n + 1 \in S
  <2>1. PICK f : Runs(f, n)
    BY <1>3
  <2> DEFINE g == [k \in 0 .. n + 1 |-> IF k = n + 1 THEN Round(f[n], long, side, turn) ELSE f[k]]
  <2>2. n \in 0 .. n /\ n + 1 \notin 0 .. n /\ 0 \in 0 .. n
    OBVIOUS
  <2>3. f[n] \in State /\ Round(f[n], long, side, turn) \in State
    BY <2>1, <2>2, RoundState
  <2>4. g \in [0 .. n + 1 -> State]
    <3>1. ASSUME NEW k \in 0 .. n + 1, k # n + 1 PROVE f[k] \in State
      <4>1. k \in 0 .. n
        BY <3>1
      <4>2. QED
        BY <4>1, <2>1
    <3>2. QED
      BY <3>1, <2>3
  <2>5. g[0] = first
    BY <2>1, <2>2
  <2>6. ASSUME NEW k \in 1 .. n + 1 PROVE g[k] = Round(g[k - 1], long, side, turn)
    <3>1. /\ k \in 0 .. n + 1 /\ k - 1 \in 0 .. n + 1 /\ k - 1 # n + 1
          /\ (k # n + 1 => k \in 1 .. n)
      OBVIOUS
    <3>2. g[k - 1] = f[k - 1]
      BY <3>1
    <3>3. CASE k = n + 1
      BY <3>1, <3>2, <3>3
    <3>4. CASE k # n + 1
      BY <3>1, <3>2, <3>4, <2>1
    <3>5. QED
      BY <3>3, <3>4
  <2>7. Runs(g, n + 1)
    BY <2>4, <2>5, <2>6
  <2> HIDE DEF g
  <2>8. QED
    BY <2>7
<1>4. long \in S
  <2> HIDE DEF S
  <2>1. QED
    BY <1>2, <1>3, Induction
<1>5. PICK f : Runs(f, long)
  BY <1>4
<1>6. f = [k \in 0 .. long |-> IF k = 0 THEN first ELSE Round(f[k - 1], long, side, turn)]
  <2>1. f = [k \in 0 .. long |-> f[k]]
    BY <1>5
  <2>2. \A k \in 0 .. long :
          f[k] = IF k = 0 THEN first ELSE Round(f[k - 1], long, side, turn)
    BY <1>5
  <2> HIDE DEF first, Runs
  <2>3. QED
    BY <2>1, <2>2
<1>7. QED
  BY <1>6 DEF Loops

(* Every round of a line is on its track.                                   *)
LEMMA LoopsOnTrack ==
  ASSUME NEW long \in Nat, NEW side \in Nat, side <= long, NEW turn \in {-1, 1},
         NEW from \in Int, NEW f, Loops(f, from, long, side, turn)
  PROVE  \A k \in 0 .. long :
           f[k] \in State /\ \E m \in Nat : OnTrack(f[k], k, m, from, long, side, turn)
<1> DEFINE S == {k \in Nat : k <= long =>
                   /\ f[k] \in State
                   /\ \E m \in Nat : OnTrack(f[k], k, m, from, long, side, turn)}
<1>1. /\ f[0] = [across |-> from, D |-> 2 * side - long]
      /\ \A k \in 1 .. long : f[k] = Round(f[k - 1], long, side, turn)
  <2>1. \A k \in 0 .. long : f[k] = IF k = 0 THEN [across |-> from, D |-> 2 * side - long]
                                    ELSE Round(f[k - 1], long, side, turn)
    BY DEF Loops
  <2>2. 0 \in 0 .. long /\ \A k \in 1 .. long : k \in 0 .. long /\ k # 0
    OBVIOUS
  <2>3. QED
    BY <2>1, <2>2
<1>2. 0 \in S
  <2>1. f[0] \in State
    BY <1>1 DEF State
  <2>2. turn * 0 = 0 /\ long * 0 = 0 /\ side * 0 = 0 /\ side * (0 + 1) = side
    OBVIOUS
  <2>3. OnTrack(f[0], 0, 0, from, long, side, turn)
    BY <1>1, <2>2 DEF OnTrack
  <2>4. QED
    BY <2>1, <2>3
<1>3. ASSUME NEW k \in Nat, k \in S PROVE k + 1 \in S
  <2>1. SUFFICES ASSUME k + 1 <= long
                 PROVE  /\ f[k + 1] \in State
                        /\ \E m \in Nat : OnTrack(f[k + 1], k + 1, m, from, long, side, turn)
    OBVIOUS
  <2>2. f[k + 1] = Round(f[k], long, side, turn)
    <3>1. k + 1 \in 1 .. long /\ (k + 1) - 1 = k
      BY <2>1
    <3>2. QED
      BY <3>1, <1>1
  <2>3. f[k] \in State
    BY <1>3, <2>1
  <2>4. PICK m \in Nat : OnTrack(f[k], k, m, from, long, side, turn)
    BY <1>3, <2>1
  <2>5. PICK n \in {m, m + 1} :
          OnTrack(Round(f[k], long, side, turn), k + 1, n, from, long, side, turn)
    BY <2>3, <2>4, RoundStaysOnTrack DEF State
  <2>6. n \in Nat
    BY <2>4, <2>5
  <2>7. QED
    BY <2>2, <2>3, <2>5, <2>6, RoundState
<1>4. \A k \in Nat : k \in S
  <2> HIDE DEF S
  <2>1. QED
    BY <1>2, <1>3, Induction
<1>5. QED
  BY <1>4

LEMMA LoopOfTrack ==
  ASSUME NEW a \in Int \X Int, NEW b \in Int \X Int,
         a[1] <= b[1], Abs(b[2] - a[2]) <= b[1] - a[1]
  PROVE  \E f : /\ Loops(f, a[2], b[1] - a[1], Abs(b[2] - a[2]), Sgn(b[2] - a[2]))
                /\ Track(a, b) = {<<a[1] + k, f[k].across>> : k \in 0 .. b[1] - a[1]}
<1> DEFINE long == b[1] - a[1]
           side == Abs(b[2] - a[2])
           turn == Sgn(b[2] - a[2])
           F == CHOOSE f : Loops(f, a[2], long, side, turn)
<1>1. long \in Nat /\ side \in Nat /\ turn \in {-1, 1} /\ a[2] \in Int
  BY DEF Abs, Sgn
<1>2. \E f : Loops(f, a[2], long, side, turn)
  <2> HIDE DEF long, side, turn
  <2>1. QED
    BY <1>1, LoopsRun
<1>3. Loops(F, a[2], long, side, turn)
  BY <1>2
<1>4. Track(a, b) = {<<a[1] + k, F[k].across>> : k \in 0 .. long}
  BY DEF Track, Loops
<1> HIDE DEF F
<1>5. QED
  BY <1>3, <1>4

LEMMA SignedExtent ==
  ASSUME NEW d \in Int
  PROVE  /\ Abs(d) \in Nat /\ Sgn(d) \in {-1, 1} /\ d = Sgn(d) * Abs(d)
         /\ Abs(-d) = Abs(d)
BY DEF Abs, Sgn

(* A line that goes along by more than it goes up or down has its two ends, *)
(* stays between them, and is nowhere more than half a pixel off.           *)
LEMMA TrackSound ==
  ASSUME NEW a \in Int \X Int, NEW b \in Int \X Int,
         a[1] <= b[1], Abs(b[2] - a[2]) <= b[1] - a[1]
  PROVE  /\ a \in Track(a, b) /\ b \in Track(a, b)
         /\ \A p \in Track(a, b) :
              /\ p \in Int \X Int
              /\ Between(p[1], a[1], b[1]) /\ Between(p[2], a[2], b[2])
              /\ Abs(Off(p, a, b)) <= b[1] - a[1]
<1> DEFINE long == b[1] - a[1]
           side == Abs(b[2] - a[2])
           turn == Sgn(b[2] - a[2])
<1>1. /\ long \in Nat /\ side \in Nat /\ turn \in {-1, 1} /\ side <= long
      /\ a[1] \in Int /\ a[2] \in Int /\ b[1] \in Int /\ b[2] \in Int
      /\ b[2] - a[2] = turn * side /\ b[1] = a[1] + long
      /\ a = <<a[1], a[2]>> /\ b = <<b[1], b[2]>>
  BY SignedExtent
<1>2. PICK f : /\ Loops(f, a[2], long, side, turn)
               /\ Track(a, b) = {<<a[1] + k, f[k].across>> : k \in 0 .. long}
  BY LoopOfTrack
<1> HIDE DEF long, side, turn
\* Where the line is after k rounds.
<1>3. \A k \in 0 .. long : \E m \in 0 .. side :
        /\ f[k].across = a[2] + turn * m
        /\ (k = 0 => m = 0) /\ (k = long => m = side)
        /\ -long <= 2 * (side * k) - 2 * (long * m)
        /\ 2 * (side * k) - 2 * (long * m) <= long
  <2>1. SUFFICES ASSUME NEW k \in 0 .. long
                 PROVE  \E m \in 0 .. side :
                          /\ f[k].across = a[2] + turn * m
                          /\ (k = 0 => m = 0) /\ (k = long => m = side)
                          /\ -long <= 2 * (side * k) - 2 * (long * m)
                          /\ 2 * (side * k) - 2 * (long * m) <= long
    OBVIOUS
  <2>2. f[0].across = a[2]
    <3>1. 0 \in 0 .. long
      BY <1>1
    <3>2. QED
      BY <1>2, <3>1 DEF Loops
  <2>3. CASE k = 0
    <3>1. /\ f[k].across = a[2] + turn * 0 /\ side * k = 0 /\ long * 0 = 0
      BY <2>2, <2>3, <1>1
    <3>2. k = long => side = 0
      BY <2>3, <1>1
    <3>3. 0 \in 0 .. side /\ -long <= 0 /\ 0 <= long
      BY <1>1
    <3>4. QED
      BY <2>3, <3>1, <3>2, <3>3
  <2>4. CASE k # 0
    <3>1. /\ f[k] \in State
          /\ \E m \in Nat : OnTrack(f[k], k, m, a[2], long, side, turn)
      BY <1>1, <1>2, LoopsOnTrack
    <3>2. PICK m \in Nat : OnTrack(f[k], k, m, a[2], long, side, turn)
      BY <3>1
    <3>3. long \in Nat \ {0}
      BY <2>4, <1>1
    <3>4. m <= side /\ (k = long => m = side)
      <4> DEFINE s == f[k]
                 from == a[2]
      <4>1. s \in [across : Int, D : Int] /\ from \in Int
        BY <1>1, <3>1 DEF State
      <4>2. OnTrack(s, k, m, from, long, side, turn)
        BY <3>2
      <4> HIDE DEF s, from
      <4>3. QED
        BY <1>1, <3>3, <4>1, <4>2, TrackArrives
    <3>5. /\ f[k].across = a[2] + turn * m
          /\ -long <= 2 * (side * k) - 2 * (long * m)
          /\ 2 * (side * k) - 2 * (long * m) <= long
      BY <3>2 DEF OnTrack
    <3>6. m \in 0 .. side
      BY <1>1, <3>2, <3>4
    <3>7. QED
      BY <2>4, <3>4, <3>5, <3>6
  <2>5. QED
    BY <2>3, <2>4
<1>4. a \in Track(a, b)
  <2>1. 0 \in 0 .. long
    BY <1>1
  <2>2. f[0].across = a[2] + turn * 0
    BY <1>3, <2>1
  <2>3. f[0].across = a[2] /\ a[1] + 0 = a[1]
    BY <2>2, <1>1
  <2>4. QED
    BY <1>1, <1>2, <2>1, <2>3
<1>5. b \in Track(a, b)
  <2>1. long \in 0 .. long
    BY <1>1
  <2>2. f[long].across = a[2] + turn * side
    BY <1>3, <2>1
  <2>3. f[long].across = b[2]
    BY <2>2, <1>1
  <2>4. QED
    BY <1>1, <1>2, <2>1, <2>3
<1>6. ASSUME NEW p \in Track(a, b)
      PROVE  /\ p \in Int \X Int
             /\ Between(p[1], a[1], b[1]) /\ Between(p[2], a[2], b[2])
             /\ Abs(Off(p, a, b)) <= long
  <2>1. PICK k \in 0 .. long : p = <<a[1] + k, f[k].across>>
    BY <1>2
  <2>2. PICK m \in 0 .. side :
          /\ f[k].across = a[2] + turn * m
          /\ -long <= 2 * (side * k) - 2 * (long * m)
          /\ 2 * (side * k) - 2 * (long * m) <= long
    BY <1>3
  <2>3. k \in Nat /\ m \in Nat /\ turn * m \in Int /\ side * k \in Nat /\ long * m \in Nat
    BY <1>1
  <2>4. p[1] = a[1] + k /\ p[2] = a[2] + turn * m
    BY <2>1, <2>2
  <2>5. p \in Int \X Int
    BY <1>1, <2>1, <2>2, <2>3
  <2>6. Between(p[1], a[1], b[1])
    BY <1>1, <2>4 DEF Between
  <2>7. Between(p[2], a[2], b[2])
    <3>1. b[2] = a[2] + turn * side
      BY <1>1
    <3>2. CASE turn = 1
      BY <1>1, <2>2, <2>4, <3>1, <3>2 DEF Between
    <3>3. CASE turn = -1
      BY <1>1, <2>2, <2>4, <3>1, <3>3 DEF Between
    <3>4. QED
      BY <1>1, <3>2, <3>3
  <2>8. Off(p, a, b) = 2 * ((turn * m) * long - k * (turn * side))
    <3>1. p[2] - a[2] = turn * m /\ p[1] - a[1] = k
      BY <1>1, <2>3, <2>4
    <3>2. QED
      BY <1>1, <3>1 DEF Off, long
  <2>9. /\ (turn * m) * long = turn * (long * m)
        /\ k * (turn * side) = turn * (side * k)
    BY <1>1, <2>3
  <2> DEFINE e == side * k
             g == long * m
  <2>10. /\ Off(p, a, b) = 2 * (turn * g - turn * e)
         /\ -long <= 2 * e - 2 * g /\ 2 * e - 2 * g <= long
         /\ e \in Nat /\ g \in Nat
    BY <2>2, <2>3, <2>8, <2>9
  <2> HIDE DEF e, g
  <2>11. Abs(Off(p, a, b)) <= long
    BY <1>1, <2>10 DEF Abs
  <2>12. QED
    BY <2>5, <2>6, <2>7, <2>11
<1>7. QED
  BY <1>4, <1>5, <1>6 DEF long

\* What is asked of a line.
Sound(line, a, b) ==
  /\ a \in line /\ b \in line
  /\ \A p \in line :
       /\ p \in Int \X Int
       /\ Between(p[1], a[1], b[1]) /\ Between(p[2], a[2], b[2])
       /\ Abs(Off(p, a, b)) <= Extent(a, b)

(* A line drawn backwards is as sound as the line.                          *)
LEMMA SoundBackwards ==
  ASSUME NEW a \in Int \X Int, NEW b \in Int \X Int, NEW line, Sound(line, b, a)
  PROVE  Sound(line, a, b)
<1> DEFINE w == b[1] - a[1]
           h == b[2] - a[2]
<1>1. a[1] \in Int /\ a[2] \in Int /\ b[1] \in Int /\ b[2] \in Int
  OBVIOUS
<1>2. Extent(b, a) = Extent(a, b)
  BY <1>1 DEF Extent, Abs
<1>3. ASSUME NEW p \in Int \X Int PROVE Abs(Off(p, a, b)) = Abs(Off(p, b, a))
  <2> DEFINE u == p[1] - a[1]
             v == p[2] - a[2]
  <2>1. /\ p[1] - b[1] = u - w /\ p[2] - b[2] = v - h
        /\ a[1] - b[1] = -w /\ a[2] - b[2] = -h
        /\ u \in Int /\ v \in Int /\ w \in Int /\ h \in Int
    BY <1>1
  <2>2. Off(p, a, b) = 2 * (v * w - u * h)
    BY DEF Off
  <2>3. Off(p, b, a) = 2 * ((v - h) * (-w) - (u - w) * (-h))
    BY <2>1 DEF Off
  <2> HIDE DEF u, v, w, h
  <2>4. Off(p, b, a) = -Off(p, a, b) /\ Off(p, a, b) \in Int
    BY <2>1, <2>2, <2>3
  <2>5. QED
    BY <2>4, SignedExtent
<1>4. QED
  BY <1>1, <1>2, <1>3 DEF Sound, Between

(* So is a line with its axes exchanged.                                    *)
LEMMA SoundSwapped ==
  ASSUME NEW a \in Int \X Int, NEW b \in Int \X Int, NEW line,
         Sound(line, Swap(a), Swap(b))
  PROVE  Sound({Swap(p) : p \in line}, a, b)
<1>1. /\ a[1] \in Int /\ a[2] \in Int /\ b[1] \in Int /\ b[2] \in Int
      /\ a = <<a[1], a[2]>> /\ b = <<b[1], b[2]>>
  OBVIOUS
<1>2. Swap(a) = <<a[2], a[1]>> /\ Swap(b) = <<b[2], b[1]>>
  BY DEF Swap
<1>3. Swap(Swap(a)) = a /\ Swap(Swap(b)) = b
  BY <1>1 DEF Swap
<1>4. a \in {Swap(p) : p \in line} /\ b \in {Swap(p) : p \in line}
  BY <1>3 DEF Sound
<1>5. ASSUME NEW p \in line
      PROVE  LET q == Swap(p)
             IN  /\ q \in Int \X Int
                 /\ Between(q[1], a[1], b[1]) /\ Between(q[2], a[2], b[2])
                 /\ Abs(Off(q, a, b)) <= Extent(a, b)
  <2>1. /\ p \in Int \X Int
        /\ Between(p[1], a[2], b[2]) /\ Between(p[2], a[1], b[1])
        /\ Abs(Off(p, Swap(a), Swap(b))) <= Extent(Swap(a), Swap(b))
    <3>1. /\ Swap(a)[1] = a[2] /\ Swap(a)[2] = a[1]
          /\ Swap(b)[1] = b[2] /\ Swap(b)[2] = b[1]
      BY <1>2
    <3>2. /\ p \in Int \X Int
          /\ Between(p[1], Swap(a)[1], Swap(b)[1]) /\ Between(p[2], Swap(a)[2], Swap(b)[2])
          /\ Abs(Off(p, Swap(a), Swap(b))) <= Extent(Swap(a), Swap(b))
      BY DEF Sound
    <3>3. QED
      BY <3>1, <3>2
  <2>2. p[1] \in Int /\ p[2] \in Int /\ Swap(p) = <<p[2], p[1]>>
    BY <2>1 DEF Swap
  <2> DEFINE u == p[2] - a[1]
             v == p[1] - a[2]
             w == b[1] - a[1]
             h == b[2] - a[2]
  <2>3. Off(Swap(p), a, b) = 2 * (v * w - u * h)
    BY <2>2 DEF Off
  <2>4. Off(p, Swap(a), Swap(b)) = 2 * (u * h - v * w)
    BY <1>2 DEF Off
  <2>5. u \in Int /\ v \in Int /\ w \in Int /\ h \in Int
    BY <1>1, <2>2
  <2> HIDE DEF u, v, w, h
  <2>6. /\ Off(p, Swap(a), Swap(b)) = -Off(Swap(p), a, b)
        /\ Off(Swap(p), a, b) \in Int
    BY <2>3, <2>4, <2>5
  <2>7. Abs(Off(Swap(p), a, b)) = Abs(Off(p, Swap(a), Swap(b)))
    BY <2>6, SignedExtent
  <2>8. Extent(Swap(a), Swap(b)) = Extent(a, b)
    BY <1>1, <1>2 DEF Extent, Abs
  <2>9. QED
    BY <2>1, <2>2, <2>7, <2>8
<1>6. QED
  BY <1>4, <1>5 DEF Sound

(* Whatever its direction, a line has its ends, stays between them and is   *)
(* never more than half a pixel off (_draw_line).                           *)
THEOREM LinesAreSound ==
  ASSUME NEW a \in Int \X Int, NEW b \in Int \X Int
  PROVE  Sound(_draw_line(a, b), a, b)
<1>1. /\ a[1] \in Int /\ a[2] \in Int /\ b[1] \in Int /\ b[2] \in Int
      /\ Swap(a) \in Int \X Int /\ Swap(b) \in Int \X Int
      /\ Swap(a)[1] = a[2] /\ Swap(a)[2] = a[1] /\ Swap(b)[1] = b[2] /\ Swap(b)[2] = b[1]
  BY DEF Swap
<1>2. ASSUME NEW c \in Int \X Int, NEW d \in Int \X Int,
             c[1] <= d[1], Abs(d[2] - c[2]) <= d[1] - c[1]
      PROVE  Sound(Track(c, d), c, d)
  <2>1. Extent(c, d) = d[1] - c[1]
    BY <1>2 DEF Extent, Abs
  <2>2. QED
    BY <1>2, <2>1, TrackSound DEF Sound
<1>3. CASE Abs(b[2] - a[2]) < Abs(b[1] - a[1])
  <2>1. CASE a[1] > b[1]
    <3>1. Abs(a[2] - b[2]) <= a[1] - b[1]
      BY <1>1, <1>3, <2>1 DEF Abs
    <3>2. Sound(Track(b, a), b, a)
      BY <1>1, <1>2, <2>1, <3>1
    <3>3. _draw_line(a, b) = Track(b, a)
      BY <1>3, <2>1 DEF _draw_line, _draw_line_low
    <3>4. QED
      BY <3>2, <3>3, SoundBackwards
  <2>2. CASE ~(a[1] > b[1])
    <3>1. a[1] <= b[1] /\ Abs(b[2] - a[2]) <= b[1] - a[1]
      BY <1>1, <1>3, <2>2 DEF Abs
    <3>2. _draw_line(a, b) = Track(a, b)
      BY <1>3, <2>2 DEF _draw_line, _draw_line_low
    <3>3. QED
      BY <1>2, <3>1, <3>2
  <2>3. QED
    BY <2>1, <2>2
<1>4. CASE ~(Abs(b[2] - a[2]) < Abs(b[1] - a[1]))
  <2>1. CASE a[2] > b[2]
    <3>1. Abs(a[1] - b[1]) <= a[2] - b[2]
      BY <1>1, <1>4, <2>1 DEF Abs
    <3>2. Sound(Track(Swap(b), Swap(a)), Swap(b), Swap(a))
      BY <1>1, <1>2, <2>1, <3>1
    <3>3. Sound({Swap(p) : p \in Track(Swap(b), Swap(a))}, b, a)
      BY <3>2, SoundSwapped
    <3>4. _draw_line(a, b) = {Swap(p) : p \in Track(Swap(b), Swap(a))}
      BY <1>4, <2>1 DEF _draw_line, _draw_line_high
    <3>5. QED
      BY <3>3, <3>4, SoundBackwards
  <2>2. CASE ~(a[2] > b[2])
    <3>1. a[2] <= b[2] /\ Abs(b[1] - a[1]) <= b[2] - a[2]
      BY <1>1, <1>4, <2>2 DEF Abs
    <3>2. Sound(Track(Swap(a), Swap(b)), Swap(a), Swap(b))
      BY <1>1, <1>2, <3>1
    <3>3. _draw_line(a, b) = {Swap(p) : p \in Track(Swap(a), Swap(b))}
      BY <1>4, <2>2 DEF _draw_line, _draw_line_high
    <3>4. QED
      BY <3>2, <3>3, SoundSwapped
  <2>3. QED
    BY <2>1, <2>2
<1>5. QED
  BY <1>3, <1>4

LEMMA InnerInside ==
  ASSUME NEW p \in Points
  PROVE  /\ Inner(p) \in Int \X Int
         /\ Inner(p)[1] \in 1 .. Width - 2 /\ Inner(p)[2] \in 1 .. Height - 2
<1>1. p[1] \in Int /\ p[2] \in Int
  BY Coordinates
<1>2. /\ trunc(p[1], 1, Width - 2) \in 1 .. Width - 2
      /\ trunc(p[2], 1, Height - 2) \in 1 .. Height - 2
  BY <1>1, OverlayAssumption DEF trunc
<1>3. QED
  BY <1>2 DEF Inner

(* All that is drawn over the image is in the image, wherever the handles   *)
(* are (draw_line, draw_rect).                                              *)
THEOREM DrawnInImage == InImage
<1>1. ASSUME NEW a \in Points, NEW b \in Points
      PROVE  draw_line(a, b) \subseteq Pixels
  <2>1. SUFFICES ASSUME NEW p \in _draw_line(Inner(a), Inner(b)), NEW r \in Brush(p)
                 PROVE  r \in Pixels
    BY DEF draw_line
  <2>2. /\ p \in Int \X Int
        /\ Between(p[1], Inner(a)[1], Inner(b)[1])
        /\ Between(p[2], Inner(a)[2], Inner(b)[2])
    BY InnerInside, LinesAreSound DEF Sound
  <2>3. p[1] \in 1 .. Width - 2 /\ p[2] \in 1 .. Height - 2
    <3>1. /\ Inner(a)[1] \in 1 .. Width - 2 /\ Inner(a)[2] \in 1 .. Height - 2
          /\ Inner(b)[1] \in 1 .. Width - 2 /\ Inner(b)[2] \in 1 .. Height - 2
      BY InnerInside
    <3>2. p[1] \in Int /\ p[2] \in Int
      BY <2>2
    <3>3. QED
      BY <2>2, <3>1, <3>2, OverlayAssumption DEF Between
  <2>4. PICK k \in {-1, 0, 1} : r = <<p[1] + k, p[2] + k>>
    BY DEF Brush
  <2>5. p[1] + k \in 0 .. Width - 1 /\ p[2] + k \in 0 .. Height - 1
    BY <2>3, <2>4, OverlayAssumption
  <2>6. QED
    BY <2>4, <2>5 DEF Pixels
<1>2. QED
  BY <1>1, SquaresInImage DEF InImage

(* Every line is straight (_draw_line_low, _draw_line_high).                *)
THEOREM LinesAreStraight == Straight
<1>1. ASSUME NEW a \in {Inner(p) : p \in Points}, NEW b \in {Inner(p) : p \in Points}
      PROVE  Sound(_draw_line(a, b), a, b)
  BY InnerInside, LinesAreSound
<1>2. QED
  BY <1>1 DEF Straight, Sound

LEMMA DrawingHolds == DrawingIsSound
BY DrawnInImage, LinesAreStraight, SquaresCanBeGrabbed DEF DrawingIsSound, Grabbable

-----------------------------------------------------------------------------
(* The camera's matrix.                                                     *)

Row == Int \X Int \X Int

LEMMA RowParts ==
  ASSUME NEW u \in Row
  PROVE  u[1] \in Int /\ u[2] \in Int /\ u[3] \in Int /\ u = <<u[1], u[2], u[3]>>
BY DEF Row

LEMMA Cofactors ==
  ASSUME NEW a \in Int, NEW b \in Int, NEW c \in Int,
         NEW d \in Int, NEW e \in Int, NEW f \in Int,
         NEW g \in Int, NEW h \in Int, NEW i \in Int,
         NEW x \in Int, NEW y \in Int, NEW z \in Int,
         NEW D \in Int, D = a * (e * i - f * h) - b * (d * i - f * g) + c * (d * h - e * g)
  PROVE  /\ (e * i - h * f) * (a * x + b * y + c * z)
              + (c * h - b * i) * (d * x + e * y + f * z)
              + (b * f - c * e) * (g * x + h * y + i * z) = D * x
         /\ (f * g - d * i) * (a * x + b * y + c * z)
              + (a * i - c * g) * (d * x + e * y + f * z)
              + (d * c - a * f) * (g * x + h * y + i * z) = D * y
         /\ (d * h - g * e) * (a * x + b * y + c * z)
              + (g * b - a * h) * (d * x + e * y + f * z)
              + (a * e - d * b) * (g * x + h * y + i * z) = D * z
OBVIOUS

LEMMA Scaled ==
  ASSUME NEW n \in Int, NEW D \in Int, NEW x \in Int, NEW o \in Int,
         NEW p \in Int, NEW q \in Int, NEW r \in Int,
         NEW u \in Int, NEW v \in Int, NEW w \in Int,
         p * u + q * v + r * w = D * x
  PROVE  ((n * p) * u + (n * q) * v + (n * r) * w) * o = x * (D * (n * o))
<1>1. (n * p) * u + (n * q) * v + (n * r) * w = n * (p * u + q * v + r * w)
  OBVIOUS
<1>2. (n * (D * x)) * o = x * (D * (n * o))
  OBVIOUS
<1>3. QED
  BY <1>1, <1>2

(* What the reverse matrix does to a vector the camera's matrix has turned  *)
(* gives the vector back, for every matrix (inv, rotate_vector).            *)
THEOREM ReverseUndoes ==
  ASSUME NEW u \in Row, NEW v \in Row, NEW w \in Row, NEW n \in Int,
         NEW x \in Row, NEW o \in Int
  PROVE  LET m == [rows |-> <<u, v, w>>, of |-> n]
             r == [at |-> x, of |-> o]
         IN  Same(rotate_vector(rotate_vector(r, m), inv(m)), r)
<1> DEFINE m == [rows |-> <<u, v, w>>, of |-> n]
           r == [at |-> x, of |-> o]
           D == det(u, v, w)
           P == Minors(u, v, w)
           y == <<dot(u, x), dot(v, x), dot(w, x)>>
<1>1. /\ u[1] \in Int /\ u[2] \in Int /\ u[3] \in Int
      /\ v[1] \in Int /\ v[2] \in Int /\ v[3] \in Int
      /\ w[1] \in Int /\ w[2] \in Int /\ w[3] \in Int
      /\ x[1] \in Int /\ x[2] \in Int /\ x[3] \in Int
  BY RowParts
<1>2. D \in Int /\ y[1] \in Int /\ y[2] \in Int /\ y[3] \in Int
  BY <1>1 DEF det, dot
<1>3. /\ P[1][1] \in Int /\ P[1][2] \in Int /\ P[1][3] \in Int
      /\ P[2][1] \in Int /\ P[2][2] \in Int /\ P[2][3] \in Int
      /\ P[3][1] \in Int /\ P[3][2] \in Int /\ P[3][3] \in Int
  BY <1>1 DEF Minors
<1>4. /\ P[1][1] * y[1] + P[1][2] * y[2] + P[1][3] * y[3] = D * x[1]
      /\ P[2][1] * y[1] + P[2][2] * y[2] + P[2][3] * y[3] = D * x[2]
      /\ P[3][1] * y[1] + P[3][2] * y[2] + P[3][3] * y[3] = D * x[3]
  BY <1>1, <1>2, Cofactors DEF Minors, dot, det
<1>5. rotate_vector(r, m) = [at |-> y, of |-> n * o]
  BY DEF rotate_vector
<1>6. inv(m) = [rows |-> <<Times(n, P[1]), Times(n, P[2]), Times(n, P[3])>>, of |-> D]
  BY DEF inv
<1>7. rotate_vector([at |-> y, of |-> n * o], inv(m)) =
        [at |-> <<(n * P[1][1]) * y[1] + (n * P[1][2]) * y[2] + (n * P[1][3]) * y[3],
                  (n * P[2][1]) * y[1] + (n * P[2][2]) * y[2] + (n * P[2][3]) * y[3],
                  (n * P[3][1]) * y[1] + (n * P[3][2]) * y[2] + (n * P[3][3]) * y[3]>>,
         of |-> D * (n * o)]
  <2> HIDE DEF P, y, D, m
  <2>1. QED
    BY <1>6 DEF rotate_vector, dot, Times
<1>8. \A k \in 1 .. 3 :
        ((n * P[k][1]) * y[1] + (n * P[k][2]) * y[2] + (n * P[k][3]) * y[3]) * o
          = x[k] * (D * (n * o))
  <2> DEFINE a == y[1]
             b == y[2]
             c == y[3]
  <2>1. a \in Int /\ b \in Int /\ c \in Int /\ D \in Int
    BY <1>2
  <2> HIDE DEF P, D, m, a, b, c
  <2>2. ASSUME NEW p \in Int, NEW q \in Int, NEW t \in Int, NEW z \in Int,
               p * a + q * b + t * c = D * z
        PROVE  ((n * p) * a + (n * q) * b + (n * t) * c) * o = z * (D * (n * o))
    BY <2>1, <2>2, Scaled
  <2>3. ASSUME NEW k \in 1 .. 3
        PROVE  ((n * P[k][1]) * a + (n * P[k][2]) * b + (n * P[k][3]) * c) * o
                 = x[k] * (D * (n * o))
    <3>1. /\ P[k][1] \in Int /\ P[k][2] \in Int /\ P[k][3] \in Int /\ x[k] \in Int
          /\ P[k][1] * a + P[k][2] * b + P[k][3] * c = D * x[k]
      BY <1>1, <1>3, <1>4 DEF a, b, c
    <3> DEFINE p == P[k][1]
               q == P[k][2]
               t == P[k][3]
               z == x[k]
    <3>2. p \in Int /\ q \in Int /\ t \in Int /\ z \in Int /\ p * a + q * b + t * c = D * z
      BY <3>1
    <3> HIDE DEF p, q, t, z
    <3>3. ((n * p) * a + (n * q) * b + (n * t) * c) * o = z * (D * (n * o))
      BY <3>2, <2>2
    <3>4. QED
      BY <3>3 DEF p, q, t, z
  <2>4. QED
    BY <2>3 DEF a, b, c
<1>9. QED
  <2> HIDE DEF P, y, D, m
  <2>1. Same(rotate_vector(rotate_vector(r, m), inv(m)), r)
    BY <1>5, <1>7, <1>8 DEF Same
  <2>2. QED
    BY <2>1 DEF m

LEMMA Squares ==
  ASSUME NEW s \in Int, NEW c \in Int, NEW n \in Int, s * s + c * c = n * n,
         NEW a \in Int, NEW b \in Int
  PROVE  /\ (a * s) * (b * s) + (a * c) * (b * c) = (a * b) * (n * n)
         /\ (s * a) * (s * b) + (c * a) * (c * b) = (a * b) * (n * n)
<1>1. /\ (a * s) * (b * s) + (a * c) * (b * c) = (a * b) * (s * s + c * c)
      /\ (s * a) * (s * b) + (c * a) * (c * b) = (a * b) * (s * s + c * c)
  OBVIOUS
<1>2. QED
  BY <1>1

(* The camera's matrix turns and does nothing else, at every angle.         *)
THEOREM ViewsRotate ==
  ASSUME NEW alpha \in Angle, NEW theta \in Angle
  PROVE  Rotates(compute_matrix(alpha, theta))
<1> DEFINE sa == alpha.sin   ca == alpha.cos   an == alpha.of
           st == theta.sin   ct == theta.cos   tn == theta.of
           m == compute_matrix(alpha, theta)
<1>1. /\ sa \in Int /\ ca \in Int /\ an \in Int /\ sa * sa + ca * ca = an * an
      /\ st \in Int /\ ct \in Int /\ tn \in Int /\ st * st + ct * ct = tn * tn
  BY DEF Angle
<1>2. /\ m.rows[1] = <<ca * tn, sa * st, sa * ct>>
      /\ m.rows[2] = <<0, an * ct, -(an * st)>>
      /\ m.rows[3] = <<-(sa * tn), st * ca, ca * ct>>
      /\ m.of = an * tn
  BY DEF compute_matrix
<1> HIDE DEF sa, ca, an, st, ct, tn, m
<1>3. dot(m.rows[1], m.rows[1]) = m.of * m.of
  <2>1. (sa * st) * (sa * st) + (sa * ct) * (sa * ct) = (sa * sa) * (tn * tn)
    BY <1>1, Squares
  <2>2. (sa * tn) * (sa * tn) + (ca * tn) * (ca * tn) = (tn * tn) * (an * an)
    BY <1>1, Squares
  <2>3. (sa * tn) * (sa * tn) = (sa * sa) * (tn * tn) /\ (an * tn) * (an * tn) = (tn * tn) * (an * an)
    BY <1>1
  <2>4. QED
    BY <1>1, <1>2, <2>1, <2>2, <2>3 DEF dot
<1>4. dot(m.rows[2], m.rows[2]) = m.of * m.of
  <2>1. (an * st) * (an * st) + (an * ct) * (an * ct) = (an * an) * (tn * tn)
    BY <1>1, Squares
  <2>2. /\ (-(an * st)) * (-(an * st)) = (an * st) * (an * st)
        /\ (an * tn) * (an * tn) = (an * an) * (tn * tn)
    BY <1>1
  <2>3. QED
    BY <1>1, <1>2, <2>1, <2>2 DEF dot
<1>5. dot(m.rows[3], m.rows[3]) = m.of * m.of
  <2>1. (ca * st) * (ca * st) + (ca * ct) * (ca * ct) = (ca * ca) * (tn * tn)
    BY <1>1, Squares
  <2>2. (sa * tn) * (sa * tn) + (ca * tn) * (ca * tn) = (tn * tn) * (an * an)
    BY <1>1, Squares
  <2>3. /\ (ca * tn) * (ca * tn) = (ca * ca) * (tn * tn)
        /\ (an * tn) * (an * tn) = (tn * tn) * (an * an)
        /\ (-(sa * tn)) * (-(sa * tn)) = (sa * tn) * (sa * tn)
        /\ (st * ca) * (st * ca) = (ca * st) * (ca * st)
    BY <1>1
  <2>4. dot(m.rows[3], m.rows[3]) =
          (-(sa * tn)) * (-(sa * tn)) + (st * ca) * (st * ca) + (ca * ct) * (ca * ct)
    BY <1>2 DEF dot
  <2>5. (-(sa * tn)) * (-(sa * tn)) + (st * ca) * (st * ca) + (ca * ct) * (ca * ct)
          = (an * tn) * (an * tn)
    <3> DEFINE A == (sa * tn) * (sa * tn)
               B == (ca * ca) * (tn * tn)
    <3>1. A \in Int /\ B \in Int
      BY <1>1
    <3>2. A + B = (an * tn) * (an * tn)
      BY <2>2, <2>3
    <3>3. (-(sa * tn)) * (-(sa * tn)) = A
      BY <2>3
    <3>4. (st * ca) * (st * ca) + (ca * ct) * (ca * ct) = B
      BY <2>1, <2>3
    <3>5. (st * ca) * (st * ca) \in Int /\ (ca * ct) * (ca * ct) \in Int
      BY <1>1
    <3> HIDE DEF A, B
    <3>6. QED
      BY <3>1, <3>2, <3>3, <3>4, <3>5
  <2>6. QED
    BY <1>2, <2>4, <2>5
<1>6. dot(m.rows[1], m.rows[2]) = 0 /\ dot(m.rows[2], m.rows[1]) = 0
  <2>1. (sa * st) * (an * ct) = (sa * ct) * (an * st)
    BY <1>1
  <2>2. /\ (sa * ct) * (-(an * st)) = -((sa * ct) * (an * st))
        /\ (-(an * st)) * (sa * ct) = -((sa * ct) * (an * st))
        /\ (an * ct) * (sa * st) = (sa * st) * (an * ct)
    BY <1>1
  <2>3. QED
    BY <1>1, <1>2, <2>1, <2>2 DEF dot
<1>7. dot(m.rows[2], m.rows[3]) = 0 /\ dot(m.rows[3], m.rows[2]) = 0
  <2>1. /\ (an * ct) * (st * ca) = (an * st) * (ca * ct)
        /\ (st * ca) * (an * ct) = (an * st) * (ca * ct)
        /\ (-(an * st)) * (ca * ct) = -((an * st) * (ca * ct))
        /\ (ca * ct) * (-(an * st)) = -((an * st) * (ca * ct))
    BY <1>1
  <2>2. QED
    BY <1>1, <1>2, <2>1 DEF dot
<1>8. dot(m.rows[1], m.rows[3]) = 0 /\ dot(m.rows[3], m.rows[1]) = 0
  <2>1. (sa * st) * (ca * st) + (sa * ct) * (ca * ct) = (sa * ca) * (tn * tn)
    BY <1>1, Squares
  <2>2. /\ (ca * tn) * (-(sa * tn)) = -((sa * ca) * (tn * tn))
        /\ (-(sa * tn)) * (ca * tn) = -((sa * ca) * (tn * tn))
        /\ (sa * st) * (st * ca) = (sa * st) * (ca * st)
        /\ (st * ca) * (sa * st) = (sa * st) * (ca * st)
        /\ (ca * ct) * (sa * ct) = (sa * ct) * (ca * ct)
    BY <1>1
  <2>3. QED
    BY <1>1, <1>2, <2>1, <2>2 DEF dot
<1>9. QED
  <2>1. \A j, k \in {1, 2, 3} :
          dot(m.rows[j], m.rows[k]) = IF j = k THEN m.of * m.of ELSE 0
    BY <1>3, <1>4, <1>5, <1>6, <1>7, <1>8
  <2>2. 1 .. 3 = {1, 2, 3}
    OBVIOUS
  <2>3. QED
    BY <2>1, <2>2 DEF Rotates, m

LEMMA RootOfSquare ==
  ASSUME NEW n \in Nat, IsSquare(n)
  PROVE  Root(n) \in Nat /\ Root(n) * Root(n) = n
<1>1. \E r \in 0 .. n : r * r = n
  BY DEF IsSquare
<1>2. Root(n) \in 0 .. n /\ Root(n) * Root(n) = n
  BY <1>1 DEF Root
<1>3. QED
  BY <1>2

LEMMA SumOfSquares ==
  ASSUME NEW a \in Int, NEW b \in Int
  PROVE  a * a \in Nat /\ (a * a + b * b = 0 => a = 0 /\ b = 0)
OBVIOUS

LEMMA ThirdColumn ==
  ASSUME NEW alpha \in [sin : Int, cos : Int, of : Int],
         NEW theta \in [sin : Int, cos : Int, of : Int]
  PROVE  rotate_vector(Ahead, compute_matrix(alpha, theta)) =
           [at |-> <<alpha.sin * theta.cos, -(alpha.of * theta.sin), alpha.cos * theta.cos>>,
            of |-> alpha.of * theta.of]
<1> DEFINE m == compute_matrix(alpha, theta)
<1>1. m.of * 1 = alpha.of * theta.of
  BY DEF compute_matrix
<1>2. dot(m.rows[1], <<0, 0, 1>>) = alpha.sin * theta.cos
  BY DEF compute_matrix, dot
<1>3. dot(m.rows[2], <<0, 0, 1>>) = -(alpha.of * theta.sin)
  BY DEF compute_matrix, dot
<1>4. dot(m.rows[3], <<0, 0, 1>>) = alpha.cos * theta.cos
  BY DEF compute_matrix, dot
<1> HIDE DEF m
<1>5. QED
  BY <1>1, <1>2, <1>3, <1>4 DEF rotate_vector, Ahead, m

(* A camera looks in the direction that the scene file gives it, a vertical *)
(* one included (compute_angles, compute_matrix).                           *)
THEOREM CamerasLookWhereTold ==
  ASSUME NEW d \in Row, d # <<0, 0, 0>>,
         IsSquare(d[3] * d[3] + d[1] * d[1]), IsSquare(dot(d, d))
  PROVE  Same(rotate_vector(Ahead, camera_s(d)), [at |-> d, of |-> Root(dot(d, d))])
<1> DEFINE x == d[1]
           y == d[2]
           z == d[3]
           h == Root(z * z + x * x)
           l == Root(dot(d, d))
<1>1. x \in Int /\ y \in Int /\ z \in Int /\ d = <<x, y, z>>
  BY RowParts
<1>2. /\ z * z + x * x \in Nat /\ dot(d, d) \in Nat
      /\ dot(d, d) = x * x + y * y + z * z
  BY <1>1, SumOfSquares DEF dot
<1>3. /\ h \in Nat /\ h * h = z * z + x * x
      /\ l \in Nat /\ l * l = x * x + y * y + z * z
  BY <1>2, RootOfSquare
<1>4. h = 0 => x = 0 /\ z = 0
  BY <1>1, <1>3, SumOfSquares
<1>5. l # 0
  <2>1. SUFFICES ASSUME l = 0 PROVE FALSE
    OBVIOUS
  <2>2. x * x \in Nat /\ y * y \in Nat /\ z * z \in Nat /\ x * x + y * y + z * z = 0
    BY <2>1, <1>1, <1>3, SumOfSquares
  <2>3. x * x + y * y = 0 /\ z * z + x * x = 0
    BY <2>2
  <2>4. x = 0 /\ y = 0 /\ z = 0
    BY <2>3, <1>1, SumOfSquares
  <2>5. QED
    BY <2>4, <1>1
<1>6. compute_angles(d).theta = [sin |-> -y, cos |-> h, of |-> l]
  BY <1>5 DEF compute_angles, atan2, Opposite
<1>7. compute_angles(d).alpha = IF h = 0 THEN [sin |-> 0, cos |-> 1, of |-> 1]
                                ELSE [sin |-> x, cos |-> z, of |-> h]
  BY DEF compute_angles, atan2
<1> HIDE DEF x, y, z, h, l
<1> DEFINE alpha == compute_angles(d).alpha
           theta == compute_angles(d).theta
           v == rotate_vector(Ahead, camera_s(d))
<1>8. /\ alpha \in [sin : Int, cos : Int, of : Int]
      /\ theta \in [sin : Int, cos : Int, of : Int]
  BY <1>1, <1>3, <1>6, <1>7
<1>9. v = [at |-> <<alpha.sin * theta.cos, -(alpha.of * theta.sin), alpha.cos * theta.cos>>,
           of |-> alpha.of * theta.of]
  BY <1>8, ThirdColumn DEF camera_s
<1>10. CASE h = 0
  <2>1. v.at[1] = 0 /\ v.at[2] = y /\ v.at[3] = 0 /\ v.of = l
    BY <1>1, <1>3, <1>6, <1>7, <1>9, <1>10
  <2>2. \A k \in 1 .. 3 : v.at[k] = d[k]
    BY <2>1, <1>1, <1>4, <1>10
  <2>3. QED
    BY <2>1, <2>2 DEF Same, l
<1>11. CASE h # 0
  <2>1. /\ v.at[1] = x * h /\ v.at[2] = -(h * (-y)) /\ v.at[3] = z * h
        /\ v.of = h * l
    BY <1>6, <1>7, <1>9, <1>11
  <2>2. /\ v.at[1] * l = x * (h * l)
        /\ v.at[2] * l = y * (h * l)
        /\ v.at[3] * l = z * (h * l)
    <3>1. /\ (x * h) * l = x * (h * l)
          /\ (-(h * (-y))) * l = y * (h * l)
          /\ (z * h) * l = z * (h * l)
      BY <1>1, <1>3
    <3>2. QED
      BY <2>1, <3>1
  <2>3. \A k \in 1 .. 3 : v.at[k] * l = d[k] * v.of
    BY <2>1, <2>2, <1>1
  <2>4. QED
    BY <2>3 DEF Same, l
<1>12. QED
  BY <1>10, <1>11


(* The camera of every direction is a rotation, that of no direction as     *)
(* well (compute_angles).                                                   *)
LEMMA AnglesOfDirections ==
  ASSUME NEW d \in Exact
  PROVE  compute_angles(d).alpha \in Angle /\ compute_angles(d).theta \in Angle
<1> DEFINE x == d[1]
           y == d[2]
           z == d[3]
           h == Root(z * z + x * x)
           l == Root(dot(d, d))
<1>1. x \in Int /\ y \in Int /\ z \in Int
  BY DEF Exact
<1>2. /\ z * z + x * x \in Nat /\ dot(d, d) \in Nat
      /\ dot(d, d) = x * x + y * y + z * z
  BY <1>1, SumOfSquares DEF dot
<1>3. /\ h \in Nat /\ h * h = z * z + x * x
      /\ l \in Nat /\ l * l = x * x + y * y + z * z
  BY <1>2, RootOfSquare DEF Exact
<1>4. compute_angles(d).alpha = IF h = 0 THEN [sin |-> 0, cos |-> 1, of |-> 1]
                                ELSE [sin |-> x, cos |-> z, of |-> h]
  BY DEF compute_angles, atan2
<1>5. compute_angles(d).theta = IF l = 0 THEN [sin |-> -0, cos |-> 1, of |-> 1]
                                ELSE [sin |-> -y, cos |-> h, of |-> l]
  BY DEF compute_angles, atan2, Opposite
<1> HIDE DEF x, y, z, h, l
<1>6. /\ x * x + z * z = h * h
      /\ (-y) * (-y) + h * h = l * l
  BY <1>1, <1>3
<1>7. [sin |-> 0, cos |-> 1, of |-> 1] \in Angle /\ [sin |-> -0, cos |-> 1, of |-> 1] \in Angle
  BY DEF Angle
<1>8. h # 0 => [sin |-> x, cos |-> z, of |-> h] \in Angle
  BY <1>1, <1>3, <1>6 DEF Angle
<1>9. l # 0 => [sin |-> -y, cos |-> h, of |-> l] \in Angle
  BY <1>1, <1>3, <1>6 DEF Angle
<1>10. QED
  BY <1>4, <1>5, <1>7, <1>8, <1>9

(* A turn keeps volumes: the camera's matrix has a reverse, whose           *)
(* denominator is positive.                                                 *)
LEMMA ViewsKeepVolume ==
  ASSUME NEW alpha \in Angle, NEW theta \in Angle
  PROVE  LET m == compute_matrix(alpha, theta)
         IN  /\ m.of \in Nat \ {0}
             /\ \A k \in 1 .. 3 : m.rows[k] \in Row
             /\ m = [rows |-> <<m.rows[1], m.rows[2], m.rows[3]>>, of |-> m.of]
             /\ det(m.rows[1], m.rows[2], m.rows[3]) \in Nat \ {0}
<1> DEFINE sa == alpha.sin   ca == alpha.cos   an == alpha.of
           st == theta.sin   ct == theta.cos   tn == theta.of
           m == compute_matrix(alpha, theta)
           D == det(m.rows[1], m.rows[2], m.rows[3])
<1>1. /\ sa \in Int /\ ca \in Int /\ an \in Nat \ {0} /\ sa * sa + ca * ca = an * an
      /\ st \in Int /\ ct \in Int /\ tn \in Nat \ {0} /\ st * st + ct * ct = tn * tn
  BY DEF Angle
<1>2. /\ m.rows = <<<<ca * tn, sa * st, sa * ct>>,
                    <<0, an * ct, -(an * st)>>,
                    <<-(sa * tn), st * ca, ca * ct>>>>
      /\ m.of = an * tn
      /\ m = [rows |-> m.rows, of |-> m.of]
  BY DEF compute_matrix
<1>3. /\ m.rows[1] = <<ca * tn, sa * st, sa * ct>>
      /\ m.rows[2] = <<0, an * ct, -(an * st)>>
      /\ m.rows[3] = <<-(sa * tn), st * ca, ca * ct>>
      /\ m.rows = <<m.rows[1], m.rows[2], m.rows[3]>>
  BY <1>2
<1> HIDE DEF sa, ca, an, st, ct, tn, m
<1>4. \A k \in 1 .. 3 : m.rows[k] \in Row
  <2>1. /\ ca * tn \in Int /\ sa * st \in Int /\ sa * ct \in Int
        /\ 0 \in Int /\ an * ct \in Int /\ -(an * st) \in Int
        /\ -(sa * tn) \in Int /\ st * ca \in Int /\ ca * ct \in Int
    BY <1>1
  <2>2. m.rows[1] \in Row /\ m.rows[2] \in Row /\ m.rows[3] \in Row
    BY <1>3, <2>1 DEF Row
  <2>3. QED
    BY <2>2
<1>5. D = (ca * tn) * ((an * ct) * (ca * ct) - (-(an * st)) * (st * ca))
          - (sa * st) * (0 * (ca * ct) - (-(an * st)) * (-(sa * tn)))
          + (sa * ct) * (0 * (st * ca) - (an * ct) * (-(sa * tn)))
  BY <1>3 DEF det
<1>6. D = ((an * tn) * (an * tn)) * (an * tn)
  <2>1. (an * ct) * (ca * ct) - (-(an * st)) * (st * ca) = (an * ca) * (st * st + ct * ct)
    BY <1>1
  <2>2. 0 * (ca * ct) - (-(an * st)) * (-(sa * tn)) = -((an * st) * (sa * tn))
    BY <1>1
  <2>3. 0 * (st * ca) - (an * ct) * (-(sa * tn)) = (an * ct) * (sa * tn)
    BY <1>1
  <2>4. D = (ca * tn) * ((an * ca) * (tn * tn))
            - (sa * st) * (-((an * st) * (sa * tn))) + (sa * ct) * ((an * ct) * (sa * tn))
    BY <1>1, <1>5, <2>1, <2>2, <2>3
  <2>5. (ca * tn) * ((an * ca) * (tn * tn)) = (an * tn) * ((tn * tn) * (ca * ca))
    BY <1>1
  <2>6. /\ -((sa * st) * (-((an * st) * (sa * tn)))) = (an * tn) * ((sa * sa) * (st * st))
        /\ (sa * ct) * ((an * ct) * (sa * tn)) = (an * tn) * ((sa * sa) * (ct * ct))
    BY <1>1
  <2>7. (an * tn) * ((sa * sa) * (st * st)) + (an * tn) * ((sa * sa) * (ct * ct))
          = (an * tn) * ((sa * sa) * (tn * tn))
    <3>1. (an * tn) * ((sa * sa) * (st * st)) + (an * tn) * ((sa * sa) * (ct * ct))
            = (an * tn) * ((sa * sa) * (st * st + ct * ct))
      BY <1>1
    <3>2. QED
      BY <1>1, <3>1
  <2>8. (an * tn) * ((tn * tn) * (ca * ca)) + (an * tn) * ((sa * sa) * (tn * tn))
          = (an * tn) * ((tn * tn) * (an * an))
    <3>1. (an * tn) * ((tn * tn) * (ca * ca)) + (an * tn) * ((sa * sa) * (tn * tn))
            = (an * tn) * ((tn * tn) * (sa * sa + ca * ca))
      BY <1>1
    <3>2. QED
      BY <1>1, <3>1
  <2>9. (an * tn) * ((tn * tn) * (an * an)) = ((an * tn) * (an * tn)) * (an * tn)
    BY <1>1
  <2> DEFINE A == (ca * tn) * ((an * ca) * (tn * tn))
             B == (sa * st) * (-((an * st) * (sa * tn)))
             C == (sa * ct) * ((an * ct) * (sa * tn))
  <2>10. A \in Int /\ B \in Int /\ C \in Int /\ D = A - B + C
    BY <1>1, <2>4
  <2>11. /\ (an * tn) * ((tn * tn) * (ca * ca)) = A
         /\ (an * tn) * ((sa * sa) * (st * st)) = -B
         /\ (an * tn) * ((sa * sa) * (ct * ct)) = C
    BY <2>5, <2>6
  <2>12. (an * tn) * ((sa * sa) * (tn * tn)) = -B + C
    BY <2>7, <2>11
  <2>13. A + (-B + C) = (an * tn) * ((tn * tn) * (an * an))
    BY <2>8, <2>11, <2>12
  <2> HIDE DEF A, B, C, D
  <2>14. D = (an * tn) * ((tn * tn) * (an * an))
    BY <2>10, <2>13
  <2>15. QED
    BY <2>9, <2>14
<1>7. \A i, j \in Nat \ {0} : i * j \in Nat \ {0}
  OBVIOUS
<1>8. an * tn \in Nat \ {0} /\ D \in Nat \ {0}
  <2>1. an * tn \in Nat \ {0}
    BY <1>1, <1>7
  <2>2. ((an * tn) * (an * tn)) * (an * tn) \in Nat \ {0}
    BY <1>7, <2>1
  <2>3. QED
    BY <1>6, <2>1, <2>2
<1>9. QED
  BY <1>2, <1>3, <1>4, <1>8 DEF m

LEMMA Quotient ==
  ASSUME NEW a \in Nat, NEW b \in Nat \ {0}
  PROVE  /\ Cast(a, b) \in Nat
         /\ b * Cast(a, b) <= a
         /\ \A n \in Nat : b * n <= a => n <= Cast(a, b)
<1>1. Cast(a, b) = a \div b
  <2>1. Sgn(a) = 1 /\ Abs(a) = a /\ a \div b \in Int
    BY DEF Sgn, Abs
  <2>2. QED
    BY <2>1 DEF Cast
<1>2. a \div b \in Nat /\ b * (a \div b) <= a /\ a < b * (a \div b) + b
  OBVIOUS
<1>3. ASSUME NEW n \in Nat, b * n <= a, a \div b + 1 <= n PROVE FALSE
  <2>1. b * (a \div b + 1) <= b * n
    BY <1>2, <1>3, Monotone
  <2>2. b * (a \div b + 1) = b * (a \div b) + b
    BY <1>2, Distributes
  <2> DEFINE e == b * (a \div b)
             g == b * n
  <2>3. e \in Nat /\ g \in Nat /\ e + b <= g /\ g <= a /\ a < e + b
    BY <1>2, <1>3, <2>1, <2>2
  <2> HIDE DEF e, g
  <2>4. QED
    BY <2>3
<1>4. QED
  BY <1>1, <1>2, <1>3

(* Along one axis of the image: the pixel of a direction that is X/R of the *)
(* way across, where the pixel p is (2 * p - N) / N, lies between p and the *)
(* middle, because R is the length of a vector at least as long as the axis.*)
LEMMA PixelBetween ==
  ASSUME NEW N \in Nat \ {0}, NEW M \in Nat \ {0}, NEW p \in 0 .. N - 1,
         NEW R \in Nat, 2 * (N * M) <= R,
         NEW X \in Int, NEW c \in Nat \ {0}, X * R = ((2 * p - N) * M) * c
  PROVE  LET q == Cast((2 * X + c) * N, 2 * c)
         IN  q \in Nat /\ Between(q, p, N \div 2)
<1> DEFINE d == 2 * p - N
           a == (2 * X + c) * N
           b == 2 * c
           q == Cast(a, b)
           h == N \div 2
<1>1. \A i, j \in Nat \ {0} : i * j \in Nat \ {0}
  OBVIOUS
<1>2. N * M \in Nat \ {0} /\ R \in Nat \ {0} /\ d \in Int
  BY <1>1
<1>3. a = 2 * (X * N) + c * N
  OBVIOUS
\* The sight is no longer than the axis allows, and on the same side.
<1>4. /\ d >= 0 => 0 <= X * N /\ 2 * (X * N) <= d * c
      /\ d < 0 => X * N <= 0 /\ d * c <= 2 * (X * N)
  <2> DEFINE Y == IF d >= 0 THEN X ELSE -X
             e == IF d >= 0 THEN d ELSE -d
  <2>1. e \in Nat /\ Y \in Int /\ Y * R = (e * M) * c
    <3>1. CASE d >= 0
      BY <1>2, <3>1
    <3>2. CASE ~(d >= 0)
      <4>1. (-X) * R = -(X * R) /\ ((-d) * M) * c = -((d * M) * c)
        BY <1>2
      <4>2. X * R = (d * M) * c
        OBVIOUS
      <4>3. Y = -X /\ e = -d
        BY <3>2
      <4>4. e \in Nat
        BY <1>2, <3>2
      <4> HIDE DEF d, e, Y
      <4>5. QED
        BY <4>1, <4>2, <4>3, <4>4
    <3>3. QED
      BY <3>1, <3>2
  <2> HIDE DEF Y, e, d
  <2>2. Y >= 0
    <3>1. SUFFICES ASSUME Y < 0 PROVE FALSE
      BY <2>1
    <3>2. R * Y <= R * (-1)
      BY <2>1, <3>1, Monotone
    <3>3. R * Y = Y * R /\ R * (-1) = -R
      BY <2>1
    <3>4. (e * M) * c \in Nat
      BY <2>1
    <3>5. QED
      BY <1>2, <2>1, <3>2, <3>3, <3>4
  <2>3. Y \in Nat
    BY <2>1, <2>2
  \* Twice N times Y is at most e times c: both times M are.
  <2>4. M * (2 * (Y * N)) <= M * (e * c)
    <3>1. Y * (2 * (N * M)) <= Y * R
      BY <1>2, <2>3, Monotone
    <3>2. Y * (2 * (N * M)) = M * (2 * (Y * N)) /\ (e * M) * c = M * (e * c)
      BY <2>1, <2>3
    <3>3. QED
      BY <2>1, <3>1, <3>2
  <2>5. 2 * (Y * N) <= e * c
    <3> DEFINE i == 2 * (Y * N)
               j == e * c
    <3>1. i \in Nat /\ j \in Nat
      BY <2>1, <2>3
    <3> HIDE DEF i, j
    <3>2. SUFFICES ASSUME j + 1 <= i PROVE FALSE
      BY <3>1 DEF i, j
    <3>3. M * (j + 1) <= M * i /\ M * (j + 1) = M * j + M
      BY <3>1, <3>2, Monotone, Distributes
    <3>4. M * i <= M * j
      BY <2>4 DEF i, j
    <3>5. M * i \in Nat /\ M * j \in Nat
      BY <3>1
    <3>6. QED
      BY <3>3, <3>4, <3>5
  <2>6. Y * N \in Nat
    BY <2>3
  <2>7. CASE d >= 0
    <3>1. Y = X /\ e = d
      BY <2>7 DEF Y, e
    <3>2. QED
      BY <1>2, <2>5, <2>6, <2>7, <3>1
  <2>8. CASE d < 0
    <3>1. Y = -X /\ e = -d
      BY <1>2, <2>8 DEF Y, e
    <3>2. Y * N = -(X * N) /\ e * c = -(d * c)
      BY <1>2, <3>1
    <3> DEFINE i == X * N
               j == d * c
    <3>3. /\ i \in Int /\ j \in Int /\ d \in Int
          /\ 2 * (-i) <= -j /\ -i >= 0
      BY <1>2, <2>5, <2>6, <3>2
    <3> HIDE DEF i, j
    <3>4. i <= 0 /\ j <= 2 * i
      BY <3>3
    <3>5. QED
      BY <2>8, <3>3, <3>4 DEF i, j
  <2>9. QED
    BY <2>7, <2>8
<1>5. d * c = 2 * (c * p) - c * N
  OBVIOUS
<1>6. b * p = 2 * (c * p) /\ c * p \in Nat /\ c * N \in Nat /\ X * N \in Int
  OBVIOUS
<1>7. h \in Nat /\ b * h <= c * N /\ N <= 2 * h + 1
  <2>1. h \in Nat /\ 2 * h <= N /\ N <= 2 * h + 1
    OBVIOUS
  <2>2. c * (2 * h) <= c * N
    BY <2>1, Monotone
  <2>3. c * (2 * h) = b * h
    BY <2>1
  <2>4. QED
    BY <2>1, <2>2, <2>3
<1>8. p \in Nat /\ b \in Nat \ {0}
  OBVIOUS
<1>9. CASE d >= 0
  <2>1. c * N <= a /\ a <= b * p
    BY <1>3, <1>4, <1>5, <1>6, <1>9
  <2>2. a \in Nat
    BY <1>3, <1>6, <2>1
  <2> HIDE DEF a, b, q, h, d
  <2>3. q \in Nat /\ b * q <= a /\ \A n \in Nat : b * n <= a => n <= q
    BY <1>8, <2>2, Quotient DEF q
  <2>4. h <= q
    <3>1. b * h \in Nat
      BY <1>7, <1>8
    <3>2. b * h <= a
      BY <1>6, <1>7, <2>1, <2>2, <3>1
    <3>3. QED
      BY <1>7, <2>3, <3>2
  <2>5. q <= p
    <3>1. SUFFICES ASSUME p + 1 <= q PROVE FALSE
      BY <1>8, <2>3
    <3>2. b * (p + 1) <= b * q /\ b * (p + 1) = b * p + b
      BY <1>8, <2>3, <3>1, Monotone, Distributes
    <3>3. b * p \in Nat /\ b * q \in Nat
      BY <1>8, <2>3
    <3>4. QED
      BY <1>8, <2>1, <2>2, <2>3, <3>2, <3>3
  <2>6. QED
    BY <2>3, <2>4, <2>5 DEF Between, q, a, b, h
<1>10. CASE d < 0
  <2>1. b * p <= a /\ a <= c * N
    BY <1>3, <1>4, <1>5, <1>6, <1>10
  <2>2. a \in Nat
    BY <1>3, <1>6, <2>1
  <2> HIDE DEF a, b, q, h, d
  <2>3. q \in Nat /\ b * q <= a /\ \A n \in Nat : b * n <= a => n <= q
    BY <1>8, <2>2, Quotient DEF q
  <2>4. p <= q
    BY <1>8, <2>1, <2>3
  <2>5. q <= h
    <3>1. SUFFICES ASSUME h + 1 <= q PROVE FALSE
      BY <1>7, <2>3
    <3>2. N + 1 <= 2 * q
      BY <1>7, <2>3, <3>1
    <3>3. c * (N + 1) <= c * (2 * q) /\ c * (N + 1) = c * N + c
      BY <2>3, <3>2, Monotone, Distributes
    <3>4. c * (2 * q) = b * q
      BY <2>3 DEF b
    <3>5. b * q \in Nat
      BY <1>8, <2>3
    <3>6. QED
      BY <1>6, <2>1, <2>2, <2>3, <3>3, <3>4, <3>5
  <2>6. QED
    BY <2>3, <2>4, <2>5 DEF Between, q, a, b, h
<1>11. QED
  BY <1>2, <1>9, <1>10 DEF q

\* The image's middle and the rows counted from its top.
LEMMA Mirrored ==
  ASSUME NEW a \in Int, NEW b \in Int, NEW c \in Int, NEW n \in Int, Between(a, b, c)
  PROVE  Between(n - a, n - b, n - c)
BY DEF Between

(* The handle of an object lies between the middle of the image and the     *)
(* pixel whose ray meets it, in every view (sel_c, vec3_from_pixpos).       *)
THEOREM HandlesAreOnObjects == HandlesOnObjects
<1>1. ASSUME NEW m \in Views, NEW p \in Pixels, IsSquare(dot(Sight(p), Sight(p)))
      PROVE  LET handle == sel_c(rotate_vector(vec3_from_pixpos(p), m), m)
             IN  /\ Between(handle[1], p[1], Width \div 2)
                 /\ Between(handle[2], Height - p[2], Height - Height \div 2)
  <2> DEFINE S == Sight(p)
             R == Root(dot(S, S))
             v == vec3_from_pixpos(p)
             r == rotate_vector(rotate_vector(v, m), inv(m))
             D == det(m.rows[1], m.rows[2], m.rows[3])
             u == m.rows[1]
             t == m.rows[2]
             w == m.rows[3]
  <2>1. /\ m.of \in Nat \ {0} /\ D \in Nat \ {0}
        /\ u \in Row /\ t \in Row /\ w \in Row
        /\ m = [rows |-> <<u, t, w>>, of |-> m.of]
    <3>1. PICK alpha \in Angle, theta \in Angle : m = compute_matrix(alpha, theta)
      BY ProjectionAssumption DEF Views
    <3>2. /\ m.of \in Nat \ {0}
          /\ \A k \in 1 .. 3 : m.rows[k] \in Row
          /\ m = [rows |-> <<m.rows[1], m.rows[2], m.rows[3]>>, of |-> m.of]
          /\ det(m.rows[1], m.rows[2], m.rows[3]) \in Nat \ {0}
      BY <3>1, ViewsKeepVolume
    <3>3. QED
      BY <3>2
  <2>2. /\ Width \in Nat \ {0} /\ Height \in Nat \ {0}
        /\ p[1] \in 0 .. Width - 1 /\ p[2] \in 0 .. Height - 1
    BY OverlayAssumption DEF Pixels
  <2>3. /\ S[1] = (2 * p[1] - Width) * Height /\ S[2] = (2 * p[2] - Height) * Width
        /\ S[3] = 2 * (Width * Height)
        /\ S = <<S[1], S[2], S[3]>>
    <3>1. 2 * Width * Height = 2 * (Width * Height)
      BY <2>2
    <3>2. QED
      BY <3>1 DEF Sight
  <2>4. S[1] \in Int /\ S[2] \in Int /\ S[3] \in Nat \ {0} /\ S \in Row
    <3>1. \A i, j \in Nat \ {0} : i * j \in Nat \ {0}
      OBVIOUS
    <3>2. Width * Height \in Nat \ {0}
      BY <2>2, <3>1
    <3>3. S[1] \in Int /\ S[2] \in Int /\ S[3] \in Nat \ {0}
      BY <2>2, <2>3, <3>2
    <3>4. QED
      BY <2>3, <3>3 DEF Row
  <2>5. R \in Nat /\ S[3] <= R
    <3> DEFINE i == S[1]   j == S[2]   k == S[3]
    <3>1. dot(S, S) = i * i + j * j + k * k
      BY DEF dot
    <3>2. i * i \in Nat /\ j * j \in Nat /\ k * k \in Nat
      BY <2>4
    <3>3. dot(S, S) \in Nat
      BY <3>1, <3>2
    <3>4. R \in Nat /\ R * R = dot(S, S)
      BY <1>1, <3>3, RootOfSquare
    <3>5. k * k <= R * R
      BY <3>1, <3>2, <3>4
    <3>6. k \in Nat
      BY <2>4
    <3> HIDE DEF R, k, S
    <3>7. SUFFICES ASSUME R + 1 <= k PROVE FALSE
      BY <3>4, <3>6 DEF k
    <3>8. k * (R + 1) <= k * k /\ k * (R + 1) = k * R + k
      BY <3>4, <3>6, <3>7, Monotone, Distributes
    <3>9. R * (R + 1) <= R * k /\ R * (R + 1) = R * R + R /\ R * k = k * R
      BY <3>4, <3>6, <3>7, Monotone, Distributes
    <3>10. k * R \in Nat /\ R * R \in Nat /\ k * k \in Nat
      BY <3>4, <3>6
    <3>11. QED
      BY <3>4, <3>5, <3>6, <3>7, <3>8, <3>9, <3>10
  <2>6. v = [at |-> S, of |-> R]
    BY DEF vec3_from_pixpos
  <2>7. Same(r, v)
    <3> HIDE DEF S, R, v, r, D, u, t, w
    <3> DEFINE n == m.of
               m2 == [rows |-> <<u, t, w>>, of |-> n]
               v2 == [at |-> S, of |-> R]
    <3>1. n \in Int /\ R \in Int
      BY <2>1, <2>5
    <3> HIDE DEF n
    <3>2. Same(rotate_vector(rotate_vector(v2, m2), inv(m2)), v2)
      BY <2>1, <2>4, <3>1, ReverseUndoes
    <3>3. m = m2 /\ v = v2
      BY <2>1, <2>6 DEF n
    <3>4. QED
      BY <3>2, <3>3 DEF r
  <2>8. r.of = D * (m.of * R)
    BY <2>6 DEF rotate_vector, inv
  <2>9. r.of \in Nat \ {0}
    <3>1. \A i, j \in Nat \ {0} : i * j \in Nat \ {0}
      OBVIOUS
    <3>2. R \in Nat \ {0}
      BY <2>4, <2>5
    <3> HIDE DEF R, D, r
    <3>3. m.of * R \in Nat \ {0}
      BY <2>1, <3>1, <3>2
    <3>4. QED
      BY <2>1, <2>8, <3>1, <3>3
  <2>10. /\ r.at[1] * R = S[1] * r.of /\ r.at[2] * R = S[2] * r.of
    BY <2>6, <2>7 DEF Same
  <2>11. r.at[1] \in Int /\ r.at[2] \in Int
    <3> DEFINE y == rotate_vector(v, m).at
               n == inv(m).rows
    <3>1. \A a, b \in Row : dot(a, b) \in Int
      BY DEF Row, dot
    <3>2. y \in Row
      <4>1. v.at = S
        BY <2>6
      <4>2. y = <<dot(u, S), dot(t, S), dot(w, S)>>
        BY <4>1 DEF rotate_vector
      <4> HIDE DEF u, t, w, S, y
      <4>3. dot(u, S) \in Int /\ dot(t, S) \in Int /\ dot(w, S) \in Int
        BY <2>1, <2>4, <3>1
      <4>4. QED
        BY <4>2, <4>3 DEF Row
    <3>3. n[1] \in Row /\ n[2] \in Row
      <4>1. \A a, b, c \in Row : \A k \in 1 .. 3 : Minors(a, b, c)[k] \in Row
        BY DEF Row, Minors
      <4>2. n = <<Times(m.of, Minors(u, t, w)[1]), Times(m.of, Minors(u, t, w)[2]),
                  Times(m.of, Minors(u, t, w)[3])>>
        BY DEF inv
      <4>3. \A i \in Int, a \in Row : Times(i, a) \in Row
        BY DEF Row, Times
      <4> HIDE DEF u, t, w, n
      <4>4. Minors(u, t, w)[1] \in Row /\ Minors(u, t, w)[2] \in Row /\ m.of \in Int
        BY <2>1, <4>1
      <4>5. QED
        BY <4>2, <4>3, <4>4
    <3>4. r.at[1] = dot(n[1], y) /\ r.at[2] = dot(n[2], y)
      BY DEF rotate_vector
    <3> HIDE DEF r, n, y
    <3>5. QED
      BY <3>1, <3>2, <3>3, <3>4
  <2> DEFINE handle == pixpos_from_vec3(r)
             x == Cast((2 * r.at[1] + r.of) * Width, 2 * r.of)
             z == Cast((2 * r.at[2] + r.of) * Height, 2 * r.of)
  <2>12. handle[1] = x /\ handle[2] = Height - z
    BY DEF pixpos_from_vec3
  <2> HIDE DEF r, R, S
  <2>13. x \in Nat /\ Between(x, p[1], Width \div 2)
    <3>1. 2 * (Width * Height) <= R /\ r.at[1] * R = ((2 * p[1] - Width) * Height) * r.of
      BY <2>3, <2>5, <2>10
    <3>2. QED
      BY <2>2, <2>5, <2>9, <2>11, <3>1, PixelBetween
  <2>14. z \in Nat /\ Between(z, p[2], Height \div 2)
    <3>1. 2 * (Height * Width) <= R /\ r.at[2] * R = ((2 * p[2] - Height) * Width) * r.of
      BY <2>2, <2>3, <2>5, <2>10
    <3>2. QED
      BY <2>2, <2>5, <2>9, <2>11, <3>1, PixelBetween
  <2>15. Between(handle[2], Height - p[2], Height - Height \div 2)
    <3>1. Height \in Int /\ Height \div 2 \in Int /\ p[2] \in Int /\ z \in Int
      BY <2>2, <2>14
    <3> HIDE DEF z, handle
    <3>2. QED
      BY <2>12, <2>14, <3>1, Mirrored
  <2>16. sel_c(rotate_vector(vec3_from_pixpos(p), m), m) = handle
    BY DEF sel_c, recompute_reverse_matrix, r
  <2> HIDE DEF handle, x, z
  <2>17. QED
    BY <2>12, <2>13, <2>15, <2>16
<1>2. QED
  BY <1>1 DEF HandlesOnObjects

(* The ray of a click goes through a pixel at most one row from the one     *)
(* that was hit (object_at_pos, ray_tracer).                                *)
THEOREM ClicksPickNearby == PicksNearby
<1>1. ASSUME NEW p \in Pixels
      PROVE  LET q == Clicked(Written(p)[1], Written(p)[2])
             IN  /\ Written(p) \in Pixels
                 /\ q[1] = p[1] /\ Abs(q[2] - p[2]) <= 1
  <2>1. /\ Width \in Nat /\ Height \in Nat
        /\ p[1] \in 0 .. Width - 1 /\ p[2] \in 0 .. Height - 1
    BY OverlayAssumption DEF Pixels
  <2>2. Written(p)[1] = p[1] /\ Written(p)[2] = Height - p[2] - 1
    BY DEF Written
  <2>3. Height - p[2] - 1 \in 0 .. Height - 1 /\ Height - (Height - p[2] - 1) = p[2] + 1
    BY <2>1
  <2>4. Written(p) \in Pixels
    BY <2>1, <2>3 DEF Written, Pixels
  <2>5. Clicked(Written(p)[1], Written(p)[2]) = <<p[1], p[2] + 1>>
    BY <2>2, <2>3 DEF Clicked
  <2>6. Abs((p[2] + 1) - p[2]) <= 1
    BY <2>1 DEF Abs
  <2>7. QED
    BY <2>4, <2>5, <2>6
<1>2. QED
  BY <1>1 DEF PicksNearby

LEMMA ViewHolds == ViewIsSound
<1>1. LooksWhereTold
  <2>1. ASSUME NEW d \in Directions \ {<<0, 0, 0>>}
        PROVE  Same(rotate_vector(Ahead, camera_s(d)), [at |-> d, of |-> Root(dot(d, d))])
    <3>1. /\ d \in Row /\ d # <<0, 0, 0>>
          /\ IsSquare(d[3] * d[3] + d[1] * d[1]) /\ IsSquare(dot(d, d))
      BY ProjectionAssumption DEF Exact, Row
    <3>2. QED
      BY <3>1, CamerasLookWhereTold
  <2>2. QED
    BY <2>1 DEF LooksWhereTold
<1>2. IsRotation
  <2>1. ASSUME NEW d \in Directions PROVE Rotates(camera_s(d))
    BY ProjectionAssumption, AnglesOfDirections, ViewsRotate DEF camera_s
  <2>2. ASSUME NEW m \in Views PROVE Rotates(m)
    BY ProjectionAssumption, ViewsRotate DEF Views
  <2>3. QED
    BY <2>1, <2>2 DEF IsRotation
<1>3. QED
  BY <1>1, <1>2, HandlesAreOnObjects, ClicksPickNearby DEF ViewIsSound

-----------------------------------------------------------------------------
(* The session.                                                             *)

(* Whenever handles are on the screen, wherever they are: what is drawn is  *)
(* in the image, its lines are straight and its squares can be grabbed      *)
(* (draw_line, draw_rect, mousepress_hook).                                 *)
THEOREM SpecOverlayIsSound == Spec => []OverlayIsSound
<1>1. OverlayIsSound
  BY DrawingHolds DEF OverlayIsSound
<1>2. QED
  BY <1>1, PTL

(* Whenever handles are on the screen, at every angle and direction of the  *)
(* camera: it looks where it was told and its matrix is a rotation, handles *)
(* lie between the middle and their objects, and clicks pick the pixel they *)
(* hit or its neighbour (camera_s, inv, pixpos_from_vec3, object_at_pos).   *)
THEOREM SpecHandlesFollowView == Spec => []HandlesFollowView
<1>1. HandlesFollowView
  BY ViewHolds DEF HandlesFollowView
<1>2. QED
  BY <1>1, PTL
=============================================================================

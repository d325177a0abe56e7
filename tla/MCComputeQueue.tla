--------------------------- MODULE MCComputeQueue ---------------------------
(***************************************************************************)
(* Two figures, two poses and two pixels: enough for a frame that is half  *)
(* rendered from the last drag or pose.                                    *)
(***************************************************************************)
EXTENDS ComputeQueue

CONSTANTS ball, wall, p1, p2   \* figures and pixels

=============================================================================

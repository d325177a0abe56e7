---------------------------- MODULE MCEventHooks ----------------------------
(***************************************************************************)
(* Small sessions for TLC: who is in the scene, and what the user touches. *)
(***************************************************************************)
EXTENDS EventHooks

CONSTANTS ball, ball2, tri, wall   \* figures

(* Two spheres share a refill; a triangle is dragged its own way; a plane  *)
(* cannot be resized.                                                      *)
MCTypeOf ==
  [o \in Objects |-> CASE o \in {ball, ball2} -> "SPHERE"
                       [] o = tri -> "TRIANGLE"
                       [] o = wall -> "PLANE"]

=============================================================================

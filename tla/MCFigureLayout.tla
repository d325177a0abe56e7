-------------------------- MODULE MCFigureLayout --------------------------
(***************************************************************************)
(* A scene in which some types are missing, one has two figures, and the   *)
(* sizes of neighbouring types differ.                                     *)
(***************************************************************************)
EXTENDS FigureLayout

MCCount ==
  [SPHERE |-> 2, PLANE |-> 0, TRIANGLE |-> 1, CONE |-> 1, CYLINDER |-> 1,
   TOR |-> 0, BOX |-> 1]

MCItemSize ==
  [SPHERE |-> 2, PLANE |-> 3, TRIANGLE |-> 3, CONE |-> 2, CYLINDER |-> 1,
   TOR |-> 2, BOX |-> 3]

=============================================================================

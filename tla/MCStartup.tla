----------------------------- MODULE MCStartup -----------------------------
(***************************************************************************)
(* Both builds, and scenes with and without figures and unions.            *)
(***************************************************************************)
EXTENDS Startup

AllGuards == BOOLEAN
AllScenes == {s \in [figures : BOOLEAN, unions : BOOLEAN] : s.unions => s.figures}
=============================================================================

\* A frame call by call, with whatever the GPU's memory held before.
CONSTANTS
  p1 = p1
  p2 = p2
  ball = ball
  wall = wall
  Pixels = {p1, p2}
  Objects = {ball, wall}
  Geometry = {0, 1}
  Camera = {0, 1}
  Blank = Blank
SPECIFICATION FairSpec
INVARIANTS
  IdleBetweenHooks
PROPERTIES
  PictureIsWhole
  NoChangeUnderCommand
  HooksReturn
  ImplementsViewer
\* The close button ends the program.
CHECK_DEADLOCK FALSE

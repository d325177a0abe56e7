\* Key strokes and the left button: opposite keys, three keys on one axis.
CONSTANTS
  ball = ball
  ball2 = ball2
  tri = tri
  wall = wall
  Objects = {ball}
  NoObj = NoObj
  Nothing = Nothing
  TypeOf <- MCTypeOf
  Tracer = "RAY_MARCHER"
  Keys = {"W", "D", "SPACE", "LCTRL", "RCTRL", "UP", "RIGHT", "UNBOUND", "ESCAPE"}
  Buttons = {"LEFT"}
  FocusMoves = FALSE
  Places = {0}
  Sizes = {0}
  Positions = {0}
  Angles = {0}
  UpdateBound = 8
SPECIFICATION Spec
INVARIANTS
  NoDrift
  HeldKeyMoves
  IdleWhenReleased
\* ESC ends the program.
CHECK_DEADLOCK FALSE

\* Keys, mouse, a third button and focus changes together.
CONSTANTS
  ball = ball
  ball2 = ball2
  tri = tri
  wall = wall
  Objects = {ball}
  NoObj = NoObj
  Nothing = Nothing
  TypeOf <- MCTypeOf
  Tracer = "RAY_TRACER"
  Keys = {"W", "P"}
  Buttons = {"LEFT", "RIGHT", "OTHER"}
  FocusMoves = TRUE
  Places = {0}
  Sizes = {0, 1}
  Positions = {0, 1}
  Angles = {0}
  UpdateBound = 2
  Width = 9
  Height = 6
  Points <- PointsAround
  Side = 2
  Bearings <- SomeBearings
  Directions <- SomeDirections
SPECIFICATION Spec
INVARIANTS
  TypeOK
  NoRunawayDrag
  DragIsSafe
  OverlayIsSound
  HandlesFollowView
\* ESC and the close button end the program.
CHECK_DEADLOCK FALSE

\* Selections and drags of three kinds of figures with the left and right buttons.
CONSTANTS
  ball = ball
  ball2 = ball2
  tri = tri
  wall = wall
  Objects = {ball, tri}
  NoObj = NoObj
  Nothing = Nothing
  TypeOf <- MCTypeOf
  Tracer = "RAY_TRACER"
  Keys = {}
  Buttons = {"LEFT", "RIGHT"}
  FocusMoves = FALSE
  Places = {0, 1}
  Sizes = {0}
  Positions = {0}
  Angles = {0, 1}
  UpdateBound = 2
SPECIFICATION FairSpec
INVARIANTS
  HandlesOnScreen
  StaleIsPending
  DeviceMirrorsHost
PROPERTIES
  DragEndsWithButton
  EditsAreShown
  ImplementsViewer
\* Closing the window ends the program.
CHECK_DEADLOCK FALSE

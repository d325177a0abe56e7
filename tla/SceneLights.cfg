\* The same files: is there a light when parse_scene ends?
CONSTANT
  Files <- AllFiles
SPECIFICATION Spec
INVARIANT
  LightsExist
CHECK_DEADLOCK FALSE

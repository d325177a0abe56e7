\* Nothing is bounded: the program takes finitely many steps but for frames.
CONSTANTS
  Guards <- AllGuards
  Scenes <- AllScenes
  Null = Null
SPECIFICATION Spec
INVARIANTS
  OneOwner
  ArgumentsMatchKernel
  FreedAtExit
PROPERTIES
  NothingDeadIsUsed

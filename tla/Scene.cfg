\* Scene files with complete, incomplete and contradictory items.
CONSTANT
  Files <- AllFiles
SPECIFICATION Spec
INVARIANTS
  SceneIsFile
  FlagsTell
  UnionsCounted
  SettingsFromFile
CHECK_DEADLOCK FALSE

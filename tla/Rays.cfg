\* A pixel of a scene with glass, mirrors, shadows and the glare of a light.
CONSTANTS
  EPS = 1
  INFINITY = 9
  NaN = 99
  Figures <- Scene
  Lights <- Lamps
  Lines <- SceneLines
  LightDistances = {3}
  Builds <- FlagSets
  Layouts = {"prod"}
  RECURSION_DEPTH = 6
  BOUNCES = 4
  Unit = 10
  Full = 10000
  Garbage = Garbage
SPECIFICATION Spec
INVARIANTS
  RaysHaveData
  NearestIsFound
  NormalOfHit
  LitIffVisible
  StrayRaysAreDark
  LightIsAccounted

\* One ray through a scene without unions, and every such scene.
CONSTANTS
  a = a
  b = b
  c = c
  p = p
  q = q
  w1 = w1
  w2 = w2
  Points = {p, q}
  HIT_DISTANCE = 1
  MISS_DISTANCE = 2
  INFINITY = 4
  NULLPTR = NULLPTR
  Garbage = Garbage
  WorkItems = {w1}
  Lists <- ThreeFigures
  UnionNum <- NoUnion
  Distances = {0, 1, 2, 3}
  RTX_RECURSION_DEPTH = 3
  Probes = 2
  Frames = 0
SPECIFICATION Spec
INVARIANTS
  DistanceIsMin
  HitIsReal
CHECK_DEADLOCK FALSE

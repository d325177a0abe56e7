\* Two work-items race over one union, in range of the buffer.
CONSTANTS
  a = a
  b = b
  c = c
  p = p
  q = q
  w1 = w1
  w2 = w2
  Points = {p, q}
  HIT_DISTANCE = 1
  MISS_DISTANCE = 2
  INFINITY = 4
  NULLPTR = NULLPTR
  Garbage = Garbage
  WorkItems = {w1, w2}
  Lists <- TwoFigures
  UnionNum <- UnionZero
  Distances = {0, 2}
  RTX_RECURSION_DEPTH = 2
  Probes = 1
  Frames = 1
SPECIFICATION FairSpec
INVARIANTS
  PointersAreSet
PROPERTIES
  MarchEnds
CHECK_DEADLOCK FALSE

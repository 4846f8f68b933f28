CONSTANTS
  t1 = t1
  t2 = t2
  b1 = b1
  b2 = b2
  p1 = p1
  p2 = p2
  s1 = s1
  s2 = s2
  None = None
  Threads = {t1, t2}
  Buffers = {b1, b2}
  Pools = {p1, p2}
  PipelineKeys = {1, 2}
  Samplers = {s1, s2}
  Layouts <- TwoPipelines
  kMaxRecycledPools = 1
  Capacity = 1
  MaxSets = 2
SPECIFICATION Spec
SYMMETRY Symmetry
INVARIANTS TypeOK SetsNotShared SetsOfPipeline

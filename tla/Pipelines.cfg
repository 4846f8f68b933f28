CONSTANTS
  g1 = g1
  g2 = g2
  c1 = c1
  a = a
  b = b
  w = w
  owner = owner
  None = None
  Graphics = {g1, g2}
  Compute = {c1}
  Clients = {a, b}
  Workers = {w}
  Owner = owner
  MaxKey = 2
SPECIFICATION FairSpec
INVARIANTS TypeOK EveryJobOnce QueuedJobsHaveTakers
PROPERTIES LibraryUnlocks WaitersReturn
CHECK_DEADLOCK FALSE

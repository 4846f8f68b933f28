CONSTANTS
  w1 = w1
  w2 = w2
  owner = owner
  client = client
  k1 = k1
  k2 = k2
  b1 = b1
  Workers = {w1, w2}
  Clients = {owner, client}
  Owner = owner
  Tasks = {k1, k2}
  Broadcasts = {b1}
SPECIFICATION FairSpec
INVARIANTS TypeOK EveryTaskOnce NoTaskWithoutWorker EarlyBroadcastsRun
PROPERTIES ImplementsExecutor DestructorReturns
CHECK_DEADLOCK FALSE

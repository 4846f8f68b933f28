CONSTANTS
  owner = owner
  client = client
  s1 = s1
  s2 = s2
  p1 = p1
  p2 = p2
  Clients = {owner, client}
  Owner = owner
  Waiter = waiterThread
  Manager = managerThread
  Subs = {s1, s2}
  ThreadOf <- MCThreadOf
  Pools = {p1, p2}
  None = none
SPECIFICATION FairSpec
INVARIANTS TypeOK PoolIdleWhenReset CompletedIsTrue NoSelfJoin ShutdownDrains ManagerCollectsAll
PROPERTIES CallbackComes
CHECK_DEADLOCK FALSE

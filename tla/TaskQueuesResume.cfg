CONSTANTS
  q1 = q1
  q2 = q2
  Unmerged = Unmerged
  Queues = {q1, q2}
  Threads = {q1}
  Polled = {}
  DartQueues = {q2}
  Mortal = {}
  MaxTasks = 1
  MaxTime = 1
SPECIFICATION Spec
INVARIANT WakesForEveryTask
CHECK_DEADLOCK FALSE

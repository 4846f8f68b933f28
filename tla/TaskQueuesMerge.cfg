CONSTANTS
  q1 = q1
  q2 = q2
  q3 = q3
  Unmerged = Unmerged
  Queues = {q1, q2, q3}
  Threads = {q1}
  Polled = {}
  Mortal = {q2}
  DartQueues = {q3}
  MaxTasks = 2
  MaxTime = 1
SPECIFICATION Spec
SYMMETRY Symmetry
INVARIANTS TypeOK MergeStates WakesInTime NoOvertaking
CHECK_DEADLOCK FALSE

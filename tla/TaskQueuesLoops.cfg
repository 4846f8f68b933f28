CONSTANTS
  q1 = q1
  q2 = q2
  
  Unmerged = Unmerged
  Queues = {q1, q2}
  Threads = {q1, q2}
  Polled = {q1}
  Mortal = {q2}
  DartQueues = {}
  MaxTasks = 2
  MaxTime = 1
CHECK_DEADLOCK FALSE
SPECIFICATION FairSpec

PROPERTIES ImplementsTaskService TerminationTakesEffect DueTasksAreServed

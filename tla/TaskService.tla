---------------------------- MODULE TaskService ----------------------------
(***************************************************************************)
(* What posting a task to a fml::MessageLoop promises, whatever loop comes *)
(* to run it: a task is invoked at most once and not before its time, the  *)
(* tasks of one queue and grade in the order of their target times and,    *)
(* within one instant, of their posting; a paused secondary source yields  *)
(* none; tasks are destroyed unrun by whole queues only.  There is no      *)
(* merging here, no waking and no loop.                                    *)
(***************************************************************************)
EXTENDS Integers

CONSTANTS Queues, MaxTime

VARIABLES
  pending,      \* tasks posted and neither invoked nor destroyed
  ran,          \* tasks invoked
  dropped,      \* tasks destroyed without being invoked
  pauses,       \* the pause requests on the secondary source of each queue
  order,        \* the number of tasks posted so far
  now

tasks == <<pending, ran, dropped, order>>
vars == <<pending, ran, dropped, pauses, order, now>>

Task == [queue: Queues, source: {"primary", "secondary"}, time: 0 .. MaxTime,
         order: Nat]

Init ==
  /\ pending = {} /\ ran = {} /\ dropped = {}
  /\ pauses = [q \in Queues |-> 0]
  /\ order = 0
  /\ now = 0

Post(task) ==
  /\ task.order = order
  /\ order' = order + 1
  /\ pending' = pending \cup {task}
  /\ UNCHANGED <<ran, dropped, pauses, now>>

Before(t, u) == t.time < u.time \/ (t.time = u.time /\ t.order < u.order)

Invoke(task) ==
  /\ task \in pending
  /\ task.time <= now
  /\ task.source = "secondary" => pauses[task.queue] = 0
  /\ \A u \in pending \ {task} :
       u.queue = task.queue /\ u.source = task.source => Before(task, u)
  /\ pending' = pending \ {task}
  /\ ran' = ran \cup {task}
  /\ UNCHANGED <<dropped, pauses, order, now>>

Destroy(closed) ==
  LET gone == {t \in pending : t.queue \in closed}
  IN  /\ pending' = pending \ gone
      /\ dropped' = dropped \cup gone
      /\ UNCHANGED <<ran, pauses, order, now>>

SetPauses(q, n) ==
  /\ pauses' = [pauses EXCEPT ![q] = n]
  /\ UNCHANGED <<tasks, now>>

Tick ==
  /\ now' = now + 1
  /\ UNCHANGED <<tasks, pauses>>

Next ==
  \/ \E task \in [queue: Queues, source: {"primary", "secondary"},
                  time: 0 .. MaxTime, order: {order}] : Post(task)
  \/ \E task \in pending : Invoke(task)
  \/ \E closed \in SUBSET Queues : Destroy(closed)
  \/ \E q \in Queues : \E n \in {pauses[q] - 1, pauses[q] + 1} \cap Nat : SetPauses(q, n)
  \/ Tick

Spec == Init /\ [][Next]_vars
=============================================================================

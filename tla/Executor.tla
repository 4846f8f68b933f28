------------------------------ MODULE Executor ------------------------------
(***************************************************************************)
(* What fml::ConcurrentTaskRunner promises to whoever posts to it, with no *)
(* workers, queue or wake-ups: a task is executed at most once, by some    *)
(* thread, and as long as the pool is not shut down every task comes to be *)
(* executed.  After the shutdown a task may be left over.                  *)
(***************************************************************************)
CONSTANT Tasks

VARIABLES
  posted,     \* the tasks handed over
  executed,   \* those whose execution has ended
  closed      \* the pool has been shut down

vars == <<posted, executed, closed>>

Init == posted = {} /\ executed = {} /\ closed = FALSE

Post(k) ==
  /\ k \in Tasks \ posted
  /\ posted' = posted \cup {k}
  /\ UNCHANGED <<executed, closed>>

Execute(k) ==
  /\ k \in posted \ executed
  /\ executed' = executed \cup {k}
  /\ UNCHANGED <<posted, closed>>

Close == closed' = TRUE /\ UNCHANGED <<posted, executed>>

Next == Close \/ \E k \in Tasks : Post(k) \/ Execute(k)

SafeSpec == Init /\ [][Next]_vars

Spec ==
  /\ SafeSpec
  /\ \A k \in Tasks : WF_vars(~closed /\ Execute(k))
=============================================================================

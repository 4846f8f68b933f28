---------------------------- MODULE ConcurrentLoop ----------------------------
(***************************************************************************)
(* ConcurrentMessageLoop: a pool of worker threads that share one queue of *)
(* tasks, and ConcurrentTaskRunner, which posts to the loop while it lives.*)
(*                                                                         *)
(* Each critical section of tasks_mutex_ is one step.  What the code does  *)
(* outside the mutex is apart: the notify_one of PostTask, the execution   *)
(* of what a worker took, the reference to the loop that a call of the     *)
(* task runner holds meanwhile, and the join of the destructor.            *)
(*                                                                         *)
(* A task is a closure posted once, a broadcast one posted to all workers  *)
(* once.  Tasks return, and may post while they run.  The owner holds the  *)
(* one lasting reference to the loop.                                      *)
(***************************************************************************)
EXTENDS Integers, Sequences, FiniteSets

CONSTANTS
  Workers,      \* workers_
  Clients,      \* other threads, which post through the task runner
  Owner,        \* the client that owns the loop
  Tasks,        \* bound: the closures given to PostTask
  Broadcasts    \* bound: the closures given to PostTaskToAllWorkers

ASSUME ThreadsAssumption ==
  /\ IsFiniteSet(Workers)
  /\ Workers # {}
  /\ Workers \cap Clients = {}
  /\ Owner \in Clients
  /\ Tasks \cap Broadcasts = {}

Threads == Workers \cup Clients

VARIABLES
  tasks,          \* tasks_
  threadTasks,    \* thread_tasks_ of each worker
  shutdown,       \* shutdown_
  at,             \* where WorkerMain is: "check", "asleep", "running", "ended"
  job,            \* what the worker took and has not finished; the head is running
  exiting,        \* shutdown_now
  call,           \* the ConcurrentTaskRunner::PostTask each thread is in
  owned,          \* the owner has its reference
  destructor,     \* the thread in ~ConcurrentMessageLoop and its step
  posted,         \* history: closures posted so far
  ran,            \* history: how often each task has been executed
  late            \* history: broadcasts posted after the shutdown

loopVars == <<tasks, threadTasks, shutdown>>
workerVars == <<at, job, exiting>>
lifeVars == <<owned, destructor>>
vars == <<tasks, threadTasks, shutdown, at, job, exiting, call, owned,
          destructor, posted, ran, late>>

NoCall == [at |-> "none"]
NotDestroyed == [at |-> "none"]

TypeOK ==
  /\ tasks \in Seq(Tasks)
  /\ threadTasks \in [Workers -> Seq(Broadcasts)]
  /\ shutdown \in BOOLEAN
  /\ at \in [Workers -> {"check", "asleep", "running", "ended"}]
  /\ job \in [Workers -> Seq(Tasks \cup Broadcasts)]
  /\ exiting \in [Workers -> BOOLEAN]
  /\ call \in [Threads -> {NoCall} \cup
               [at: {"lock", "notify", "inline", "release", "orphan"}, task: Tasks]]
  /\ owned \in BOOLEAN
  /\ destructor \in {NotDestroyed} \cup [at: {"terminate", "join", "done"}, thread: Threads]
  /\ posted \subseteq Tasks \cup Broadcasts
  /\ ran \in [Tasks -> 0 .. 1]
  /\ late \subseteq Broadcasts

-----------------------------------------------------------------------------
(* References and condition variable.                                      *)

Calling(t) == call[t].at # "none"

\* weak_loop_.lock() has succeeded and its reference has not been dropped.
HoldsLoop(t) == call[t].at \in {"lock", "notify", "inline", "release"}

Alive == owned \/ \E t \in Threads : HoldsLoop(t)

\* A thread runs code that may post: a client, or a worker within a closure.
Free(t) ==
  /\ ~Calling(t)
  /\ t \in Workers => at[t] = "running" /\ job[t] # <<>>
  /\ destructor # NotDestroyed => destructor.thread # t \/ destructor.at = "done"

Asleep == {w \in Workers : at[w] = "asleep"}

WakeAll == [w \in Workers |-> IF at[w] = "asleep" THEN "check" ELSE at[w]]

-----------------------------------------------------------------------------
(* ConcurrentTaskRunner::PostTask and ConcurrentMessageLoop::PostTask.     *)

\* With the loop dead, the task is for the caller's thread.
RunnerPostTask(t, k) ==
  /\ Free(t)
  /\ k \in Tasks \ posted
  /\ posted' = posted \cup {k}
  /\ call' = [call EXCEPT ![t] = [at |-> IF Alive THEN "lock" ELSE "orphan", task |-> k]]
  /\ UNCHANGED <<loopVars, workerVars, lifeVars, ran, late>>

\* A fault: only the first task of a queue is announced.
NotifyIfFirst(t) ==
  /\ call[t].at = "lock"
  /\ call' = [call EXCEPT ![t].at = IF shutdown THEN "inline"
                                    ELSE IF tasks = <<>> THEN "notify" ELSE "release"]
  /\ tasks' = IF shutdown THEN tasks ELSE Append(tasks, call[t].task)
  /\ UNCHANGED <<threadTasks, shutdown, workerVars, lifeVars, posted, ran, late>>

LoopPostTask(t) ==
  /\ call[t].at = "lock"
  /\ call' = [call EXCEPT ![t].at = IF shutdown THEN "inline" ELSE "notify"]
  /\ tasks' = IF shutdown THEN tasks ELSE Append(tasks, call[t].task)
  /\ UNCHANGED <<threadTasks, shutdown, workerVars, lifeVars, posted, ran, late>>

\* A fault: nobody is notified.
NotifyNobody(t) ==
  /\ call[t].at = "notify"
  /\ call' = [call EXCEPT ![t].at = "release"]
  /\ UNCHANGED <<loopVars, workerVars, lifeVars, posted, ran, late>>

NotifyOne(t) ==
  /\ call[t].at = "notify"
  /\ call' = [call EXCEPT ![t].at = "release"]
  /\ \/ Asleep = {} /\ UNCHANGED at
     \/ \E w \in Asleep : at' = [at EXCEPT ![w] = "check"]
  /\ UNCHANGED <<loopVars, job, exiting, lifeVars, posted, ran, late>>

\* ExecuteTask of a loop that is shut down, or task() of a runner without loop.
ExecuteInline(t) ==
  /\ call[t].at \in {"inline", "orphan"}
  /\ ran' = [ran EXCEPT ![call[t].task] = @ + 1]
  /\ call' = [call EXCEPT ![t] = IF HoldsLoop(t) THEN [@ EXCEPT !.at = "release"] ELSE NoCall]
  /\ UNCHANGED <<loopVars, workerVars, lifeVars, posted, late>>

\* The last reference dropped is that of this thread: it destroys the loop.
Drop(t, stillOwned) ==
  destructor' = IF stillOwned \/ \E u \in Threads \ {t} : HoldsLoop(u) THEN destructor
                ELSE [at |-> "terminate", thread |-> t]

Release(t) ==
  /\ call[t].at = "release"
  /\ call' = [call EXCEPT ![t] = NoCall]
  /\ Drop(t, owned)
  /\ UNCHANGED <<loopVars, workerVars, owned, posted, ran, late>>

CallStep(t) == LoopPostTask(t) \/ NotifyOne(t) \/ ExecuteInline(t) \/ Release(t)

-----------------------------------------------------------------------------
(* WorkerMain.                                                             *)

\* The predicate of the wait.
Due(w) == tasks # <<>> \/ shutdown \/ threadTasks[w] # <<>>

Sleep(w) ==
  /\ at[w] = "check"
  /\ ~Due(w)
  /\ at' = [at EXCEPT ![w] = "asleep"]
  /\ UNCHANGED <<loopVars, job, exiting, call, lifeVars, posted, ran, late>>

SpuriousWake(w) ==
  /\ at[w] = "asleep"
  /\ at' = [at EXCEPT ![w] = "check"]
  /\ UNCHANGED <<loopVars, job, exiting, call, lifeVars, posted, ran, late>>

FirstTask == SubSeq(tasks, 1, IF tasks = <<>> THEN 0 ELSE 1)

\* A fault: the front of the queue is read and not popped.
TakeWithoutPop(w) ==
  /\ at[w] = "check"
  /\ Due(w)
  /\ exiting' = [exiting EXCEPT ![w] = shutdown]
  /\ job' = [job EXCEPT ![w] = FirstTask \o threadTasks[w]]
  /\ threadTasks' = [threadTasks EXCEPT ![w] = <<>>]
  /\ at' = [at EXCEPT ![w] = "running"]
  /\ UNCHANGED <<tasks, shutdown, call, lifeVars, posted, ran, late>>

\* A fault: two tasks are popped and one is executed.
TakeTwo(w) ==
  /\ at[w] = "check"
  /\ Due(w)
  /\ exiting' = [exiting EXCEPT ![w] = shutdown]
  /\ job' = [job EXCEPT ![w] = FirstTask \o threadTasks[w]]
  /\ tasks' = SubSeq(tasks, 3, Len(tasks))
  /\ threadTasks' = [threadTasks EXCEPT ![w] = <<>>]
  /\ at' = [at EXCEPT ![w] = "running"]
  /\ UNCHANGED <<shutdown, call, lifeVars, posted, ran, late>>

Take(w) ==
  /\ at[w] = "check"
  /\ Due(w)
  /\ exiting' = [exiting EXCEPT ![w] = shutdown]
  /\ job' = [job EXCEPT ![w] = FirstTask \o threadTasks[w]]
  /\ tasks' = SubSeq(tasks, 2, Len(tasks))
  /\ threadTasks' = [threadTasks EXCEPT ![w] = <<>>]
  /\ at' = [at EXCEPT ![w] = "running"]
  /\ UNCHANGED <<shutdown, call, lifeVars, posted, ran, late>>

\* The closure at the head of the job returns.
ExecuteTask(w) ==
  /\ at[w] = "running"
  /\ job[w] # <<>>
  /\ ~Calling(w)
  /\ job' = [job EXCEPT ![w] = Tail(@)]
  /\ ran' = [k \in Tasks |-> IF k = Head(job[w]) THEN ran[k] + 1 ELSE ran[k]]
  /\ UNCHANGED <<loopVars, at, exiting, call, lifeVars, posted, late>>

\* A fault: shutdown_ is read after the mutex is released.
ReadShutdownUnlocked(w) ==
  /\ at[w] = "running"
  /\ job[w] = <<>>
  /\ ~Calling(w)
  /\ at' = [at EXCEPT ![w] = IF shutdown THEN "ended" ELSE "check"]
  /\ UNCHANGED <<loopVars, job, exiting, call, lifeVars, posted, ran, late>>

EndOfLoop(w) ==
  /\ at[w] = "running"
  /\ job[w] = <<>>
  /\ ~Calling(w)
  /\ at' = [at EXCEPT ![w] = IF exiting[w] THEN "ended" ELSE "check"]
  /\ UNCHANGED <<loopVars, job, exiting, call, lifeVars, posted, ran, late>>

\* A worker that destroys the loop is stuck in the destructor.
WorkerStep(w) ==
  /\ destructor # NotDestroyed => destructor.thread # w
  /\ Sleep(w) \/ Take(w) \/ ExecuteTask(w) \/ EndOfLoop(w)

-----------------------------------------------------------------------------
(* The owner and the destructor.                                           *)

PostTaskToAllWorkers(b) ==
  /\ owned
  /\ b \in Broadcasts \ posted
  /\ posted' = posted \cup {b}
  /\ threadTasks' = [w \in Workers |-> Append(threadTasks[w], b)]
  /\ at' = WakeAll
  /\ late' = IF shutdown THEN late \cup {b} ELSE late
  /\ UNCHANGED <<tasks, shutdown, job, exiting, call, lifeVars, ran>>

\* A fault: one worker is notified, as for a task.
TerminateNotifyOne ==
  /\ shutdown' = TRUE
  /\ \/ Asleep = {} /\ UNCHANGED at
     \/ \E w \in Asleep : at' = [at EXCEPT ![w] = "check"]
  /\ UNCHANGED <<tasks, threadTasks, job, exiting, call, posted, ran, late>>

Terminate ==
  /\ shutdown' = TRUE
  /\ at' = WakeAll
  /\ UNCHANGED <<tasks, threadTasks, job, exiting, call, posted, ran, late>>

OwnerTerminates == owned /\ ~shutdown /\ Terminate /\ UNCHANGED lifeVars

OwnerReleases ==
  /\ owned
  /\ ~Calling(Owner)
  /\ owned' = FALSE
  /\ Drop(Owner, FALSE)
  /\ UNCHANGED <<loopVars, workerVars, call, posted, ran, late>>

DestructorTerminates ==
  /\ destructor.at = "terminate"
  /\ destructor' = [destructor EXCEPT !.at = "join"]
  /\ Terminate
  /\ UNCHANGED owned

\* A worker that joins itself never gets here.
DestructorJoins ==
  /\ destructor.at = "join"
  /\ \A w \in Workers : at[w] = "ended"
  /\ destructor' = [destructor EXCEPT !.at = "done"]
  /\ UNCHANGED <<loopVars, workerVars, call, owned, posted, ran, late>>

-----------------------------------------------------------------------------
Init ==
  /\ tasks = <<>>
  /\ threadTasks = [w \in Workers |-> <<>>]
  /\ shutdown = FALSE
  /\ at = [w \in Workers |-> "check"]
  /\ job = [w \in Workers |-> <<>>]
  /\ exiting = [w \in Workers |-> FALSE]
  /\ call = [t \in Threads |-> NoCall]
  /\ owned = TRUE
  /\ destructor = NotDestroyed
  /\ posted = {}
  /\ ran = [k \in Tasks |-> 0]
  /\ late = {}

Next ==
  \/ \E t \in Threads, k \in Tasks : RunnerPostTask(t, k)
  \/ \E t \in Threads : CallStep(t)
  \/ \E w \in Workers : WorkerStep(w) \/ SpuriousWake(w)
  \/ \E b \in Broadcasts : PostTaskToAllWorkers(b)
  \/ OwnerTerminates
  \/ OwnerReleases
  \/ DestructorTerminates
  \/ DestructorJoins

Spec == Init /\ [][Next]_vars

\* Threads that have something to do are run; the owner need not let go.
FairSpec ==
  /\ Spec
  /\ \A t \in Threads : WF_vars(CallStep(t))
  /\ \A w \in Workers : WF_vars(WorkerStep(w))
  /\ WF_vars(DestructorTerminates)
  /\ WF_vars(DestructorJoins)

-----------------------------------------------------------------------------
(* Properties.                                                             *)

InSeq(x, s) == Cardinality({i \in DOMAIN s : s[i] = x})

\* Where a posted task is: with its caller, queued, taken by a worker.
WithCaller(k) ==
  {t \in Threads : call[t].at \in {"lock", "inline", "orphan"} /\ call[t].task = k}
TakenBy(k) == {w \in Workers : InSeq(k, job[w]) > 0}

(* Every posted task is in one place, or has been executed, once: the      *)
(* queue, the callers that execute inline after a shutdown and the workers *)
(* neither lose nor share a task.                                          *)
EveryTaskOnce ==
  \A k \in Tasks :
    Cardinality(WithCaller(k)) + InSeq(k, tasks) + Cardinality(TakenBy(k)) + ran[k]
      = IF k \in posted THEN 1 ELSE 0

(* No worker sleeps through a task: while one sleeps, there is for every   *)
(* queued task a notify_one to come or a worker about to look, although    *)
(* PostTask notifies after it has released the mutex and a worker takes    *)
(* one task at a time.                                                     *)
NoTaskWithoutWorker ==
  Asleep # {} =>
    Len(tasks) <= Cardinality({t \in Threads : call[t].at = "notify"})
                  + Cardinality({w \in Workers : at[w] = "check"})

(* A worker ends with nothing of what was posted to it before the          *)
(* shutdown: shutdown_ is read in the critical section that takes the      *)
(* thread tasks.                                                           *)
EarlyBroadcastsRun ==
  \A w \in Workers :
    at[w] = "ended" => \A i \in DOMAIN threadTasks[w] : threadTasks[w][i] \in late

(* The loop is the Executor its task runner promises: whichever worker,    *)
(* caller or orphaned runner executes a task, each is executed at most     *)
(* once, and if the loop is never shut down every posted one is, although  *)
(* notify_one comes after the mutex is released and workers sleep.         *)
Promise == INSTANCE Executor WITH
  posted <- posted \cap Tasks,
  executed <- {k \in Tasks : ran[k] = 1},
  closed <- shutdown

ImplementsExecutor == Promise!Spec

(* A thread that is not a worker gets out of the destructor: the           *)
(* termination reaches every worker, asleep or not, and each then ends.    *)
DestructorReturns ==
  (destructor # NotDestroyed /\ destructor.thread \in Clients) ~> destructor.at = "done"
=============================================================================

----------------------------- MODULE Pipelines -----------------------------
(***************************************************************************)
(* PipelineLibrary, PipelineCompileQueue and the handles that wait for a   *)
(* pipeline, over the worker pool of the Context, which is the Executor    *)
(* that ConcurrentLoop is shown to implement.                              *)
(*                                                                         *)
(* A job is one generation task with its promise.  A graphics job waits in *)
(* pending_jobs_ under its descriptor while the pool has a task that will  *)
(* take some job of the queue; a client in need of a pipeline takes the    *)
(* job itself.  Each critical section of pending_jobs_mutex_ is one step,  *)
(* except where the code runs a task inside; so is each of                 *)
(* pipelines_mutex_, which GetPipeline holds while it posts and while it   *)
(* runs what a closed pool gives back to it.                               *)
(*                                                                         *)
(* Clients keep the Context alive while they call the library or the       *)
(* queue, not while they wait.  The library is valid: Context::Setup fails *)
(* with one that is not.                                                   *)
(***************************************************************************)
EXTENDS Integers, FiniteSets

CONSTANTS
  Graphics, Compute,   \* the descriptors
  Clients, Workers,
  Owner,               \* the thread that destroys the Context
  MaxKey,              \* bound: the last value of pipeline_key_
  None

ASSUME ThreadsAssumption ==
  /\ Graphics \cap Compute = {} /\ None \notin Graphics \cup Compute
  /\ Clients \cap Workers = {} /\ Owner \notin Clients \cup Workers
  /\ MaxKey \in Nat
  /\ IsFiniteSet(Clients \cup Workers)

Descriptors == Graphics \cup Compute
Threads == Clients \cup Workers \cup {Owner}
Jobs == [desc: Descriptors, key: 1 .. MaxKey]

\* What is posted to the pool: a job itself, or DoOneJob on behalf of a job.
Tasks == [kind: {"job", "one"}, job: Jobs]

ASSUME NoneAssumption == None \notin Jobs /\ None \notin Tasks

VARIABLES
  pipelines,        \* pipelines_ and compute_pipelines_: the job of each entry
  pending,          \* pending_jobs_
  promise,          \* of each job: "none" before it exists, "unset", "set", "broken"
  thread,           \* what each thread does
  life,             \* of the Context: "alive", "joining", "finishing", "gone"
  posted, executed, closed      \* the pool

libraryVars == <<pipelines, pending>>
poolVars == <<posted, executed, closed>>
vars == <<pipelines, pending, promise, thread, life, posted, executed, closed>>

Pool == INSTANCE Executor

Idle == [at |-> "idle", job |-> None, task |-> None, locks |-> {}, future |-> None,
         eager |-> FALSE]

TypeOK ==
  /\ pipelines \in [Descriptors -> Jobs \cup {None}]
  /\ pending \in [Graphics -> Jobs \cup {None}]
  /\ promise \in [Jobs -> {"none", "unset", "set", "broken"}]
  /\ thread \in [Threads ->
       [at: {"idle", "post", "announce", "take", "run", "perform", "wait", "ended"},
        job: Jobs \cup {None}, task: Tasks \cup {None},
        locks: SUBSET {"pipelines", "pending"}, future: Jobs \cup {None}, eager: BOOLEAN]]
  /\ life \in {"alive", "joining", "finishing", "gone"}
  /\ posted \in SUBSET Tasks /\ executed \in SUBSET posted /\ closed \in BOOLEAN

-----------------------------------------------------------------------------
Free(lock) == \A t \in Threads : lock \notin thread[t].locks

\* pending_jobs_mutex_ can be taken now.
QueueFree == Free("pending")

Set(t, record) == thread' = [thread EXCEPT ![t] = record]

\* A call of the library or of the queue returns: to the wait of WaitAndGet if
\* it was made there.
Returned(t) ==
  [thread[t] EXCEPT !.at = IF @ \in {"run", "perform"} /\ thread[t].eager THEN "wait" ELSE "idle",
                    !.job = None, !.task = None, !.locks = {}]

Unstarted == {k \in posted \ executed : \A t \in Threads : thread[t].task # k}

\* ConcurrentTaskRunner::PostTask: a closed pool has the caller execute the task.
PostTask(t, kind, job) ==
  LET k == [kind |-> kind, job |-> job]
  IN  /\ Pool!Post(k)
      /\ Set(t, IF ~closed THEN Returned(t)
                ELSE IF kind = "one" THEN [thread[t] EXCEPT !.at = "take", !.task = k]
                ELSE [thread[t] EXCEPT !.at = "run", !.job = job, !.task = k])

\* The task that a thread executes, if any, ends with this step.
EndTask(t) ==
  IF thread[t].task = None THEN UNCHANGED poolVars ELSE Pool!Execute(thread[t].task)

-----------------------------------------------------------------------------
(* PipelineLibrary.                                                        *)

\* A fault: the first key is its own negation, that of the pipeline's variants.
NextKeyFromZero == Cardinality({j \in Jobs : promise[j] # "none"})

\* pipeline_key_, which numbers the jobs of all descriptors.
NextKey == 1 + Cardinality({j \in Jobs : promise[j] # "none"})

GetPipeline(t, d, async) ==
  /\ life = "alive"
  /\ thread[t].at = "idle"
  /\ Free("pipelines")
  /\ \/ /\ pipelines[d] # None
        /\ Set(t, [Idle EXCEPT !.future = pipelines[d]])
        /\ UNCHANGED <<pipelines, promise, poolVars>>
     \/ /\ pipelines[d] = None
        /\ NextKey <= MaxKey
        /\ LET j == [desc |-> d, key |-> NextKey]
               locked == [Idle EXCEPT !.job = j, !.locks = {"pipelines"}, !.future = j]
           IN  /\ promise' = [promise EXCEPT ![j] = "unset"]
               /\ pipelines' = [pipelines EXCEPT ![d] = j]
               /\ Set(t, [locked EXCEPT !.at = IF async THEN "post" ELSE "run"])
               /\ UNCHANGED poolVars
  /\ UNCHANGED <<pending, life>>

\* The worker pool gets the job of a compute pipeline itself.
PostComputeJob(t) ==
  /\ thread[t].at = "post"
  /\ thread[t].job.desc \in Compute
  /\ PostTask(t, "job", thread[t].job)
  /\ UNCHANGED <<libraryVars, promise, life>>

RemovePipelinesWithEntryPoint(t, d) ==
  /\ life = "alive"
  /\ thread[t].at = "idle"
  /\ Free("pipelines")
  /\ pipelines[d] # None
  /\ pipelines' = [pipelines EXCEPT ![d] = None]
  /\ UNCHANGED <<pending, promise, thread, life, poolVars>>

-----------------------------------------------------------------------------
(* PipelineCompileQueue.                                                   *)

\* A fault: the task is announced with pending_jobs_mutex_ held.
InsertJobLocked(t) ==
  LET j == thread[t].job
  IN  /\ thread[t].at = "post"
      /\ j.desc \in Graphics
      /\ QueueFree
      /\ pending[j.desc] = None
      /\ pending' = [pending EXCEPT ![j.desc] = j]
      /\ Set(t, [thread[t] EXCEPT !.at = "announce", !.locks = @ \cup {"pending"}])
      /\ UNCHANGED <<pipelines, promise, life, poolVars>>

\* PostJobForDescriptor, when the queue has no job for the descriptor.
InsertJob(t) ==
  LET j == thread[t].job
  IN  /\ thread[t].at = "post"
      /\ j.desc \in Graphics
      /\ QueueFree
      /\ pending[j.desc] = None
      /\ pending' = [pending EXCEPT ![j.desc] = j]
      /\ Set(t, [thread[t] EXCEPT !.at = "announce"])
      /\ UNCHANGED <<pipelines, promise, life, poolVars>>

\* A fault: the first job of the descriptor is replaced.
ReplaceJob(t) ==
  LET j == thread[t].job
  IN  /\ thread[t].at = "post"
      /\ j.desc \in Graphics
      /\ QueueFree
      /\ pending[j.desc] # None
      /\ pending' = [pending EXCEPT ![j.desc] = j]
      /\ Set(t, [thread[t] EXCEPT !.at = "announce"])
      /\ UNCHANGED <<pipelines, promise, life, poolVars>>

\* PostJobForDescriptor, when the queue still has the job of a pipeline that was
\* removed from the library: the pool gets, or gives back, the second one with
\* the mutex held.
PostSecondJob(t) ==
  LET j == thread[t].job
      k == [kind |-> "job", job |-> j]
  IN  /\ thread[t].at = "post"
      /\ j.desc \in Graphics
      /\ QueueFree
      /\ pending[j.desc] # None
      /\ Pool!Post(k)
      /\ Set(t, IF ~closed THEN Returned(t)
                ELSE [thread[t] EXCEPT !.at = "run", !.locks = @ \cup {"pending"}, !.task = k])
      /\ UNCHANGED <<libraryVars, promise, life>>

\* A fault: the pool is asked only when the queue was empty.
AnnounceFirst(t) ==
  /\ thread[t].at = "announce"
  /\ IF \A d \in Graphics : pending[d] # None => d = thread[t].job.desc
     THEN PostTask(t, "one", thread[t].job)
     ELSE Set(t, Returned(t)) /\ UNCHANGED poolVars
  /\ UNCHANGED <<libraryVars, promise, life>>

\* The job is in the queue; the pool is asked to DoOneJob.
AnnounceJob(t) ==
  /\ thread[t].at = "announce"
  /\ PostTask(t, "one", thread[t].job)
  /\ UNCHANGED <<libraryVars, promise, life>>

\* TakeNextJob of DoOneJob: whichever the map has first.
TakeNextJob(t) ==
  /\ thread[t].at = "take"
  /\ QueueFree
  /\ \/ /\ \A d \in Graphics : pending[d] = None
        /\ EndTask(t)
        /\ Set(t, Returned(t))
        /\ UNCHANGED pending
     \/ \E d \in Graphics :
          /\ pending[d] # None
          /\ pending' = [pending EXCEPT ![d] = None]
          /\ Set(t, [thread[t] EXCEPT !.at = "run", !.job = pending[d]])
          /\ UNCHANGED poolVars
  /\ UNCHANGED <<pipelines, promise, life>>

\* A fault: the waiter performs some job.
TakeAnyJob(t) ==
  /\ thread[t].at = "perform"
  /\ QueueFree
  /\ \/ (\A d \in Graphics : pending[d] = None) /\ Set(t, Returned(t)) /\ UNCHANGED pending
     \/ \E d \in Graphics :
          /\ pending[d] # None
          /\ pending' = [pending EXCEPT ![d] = None]
          /\ Set(t, [thread[t] EXCEPT !.at = "run", !.job = pending[d]])
  /\ UNCHANGED <<pipelines, promise, life, poolVars>>

\* TakeJob of PerformJobEagerly: the job of the descriptor, whoever asked for it.
TakeJob(t) ==
  LET d == thread[t].future.desc
  IN  /\ thread[t].at = "perform"
      /\ QueueFree
      /\ pending' = [pending EXCEPT ![d] = None]
      /\ Set(t, IF pending[d] = None THEN Returned(t)
                ELSE [thread[t] EXCEPT !.at = "run", !.job = pending[d]])
      /\ UNCHANGED <<pipelines, promise, life, poolVars>>

\* The generation task: to null without a library or when Create fails, else
\* to the pipeline, it sets its promise on every path.
RunJob(t) ==
  /\ thread[t].at = "run"
  /\ promise' = [promise EXCEPT ![thread[t].job] = "set"]
  /\ EndTask(t)
  /\ Set(t, Returned(t))
  /\ UNCHANGED <<libraryVars, life>>

-----------------------------------------------------------------------------
(* WaitAndGet, of a graphics handle with or without a queue, or of a       *)
(* compute handle.                                                         *)

WaitAndGet(t, eager) ==
  /\ thread[t].at = "idle"
  /\ thread[t].future # None
  /\ eager => thread[t].future.desc \in Graphics /\ life = "alive"
  /\ Set(t, [thread[t] EXCEPT !.at = IF eager THEN "perform" ELSE "wait", !.eager = eager])
  /\ UNCHANGED <<libraryVars, promise, life, poolVars>>

FutureGet(t) ==
  /\ thread[t].at = "wait"
  /\ promise[thread[t].future] # "unset"
  /\ Set(t, Idle)
  /\ UNCHANGED <<libraryVars, promise, life, poolVars>>

-----------------------------------------------------------------------------
(* The pool's workers and the end of the Context.                          *)

\* The queue outlives the pool, so that DoOneJob always finds it.
StartTask(w) ==
  /\ thread[w] = Idle
  /\ \E k \in Unstarted :
       Set(w, [Idle EXCEPT !.task = k, !.at = IF k.kind = "one" THEN "take" ELSE "run",
                           !.job = IF k.kind = "one" THEN None ELSE k.job])
  /\ UNCHANGED <<libraryVars, promise, life, poolVars>>

EndWorker(w) ==
  /\ closed
  /\ thread[w] = Idle
  /\ Set(w, [Idle EXCEPT !.at = "ended"])
  /\ UNCHANGED <<libraryVars, promise, life, poolVars>>

Shutdown ==
  /\ life = "alive"
  /\ ~closed
  /\ Pool!Close
  /\ UNCHANGED <<libraryVars, promise, thread, life>>

\* ~Context destroys the pool first, which shuts down and joins its workers.
DestroyPool ==
  /\ life = "alive"
  /\ \A t \in Clients : thread[t].at \in {"idle", "wait"}
  /\ life' = "joining"
  /\ Pool!Close
  /\ UNCHANGED <<libraryVars, promise, thread>>

\* Tasks left in the pool are destroyed: the promise of a graphics job then
\* completes itself, a std::promise breaks.  The library goes next.
PoolJoined ==
  /\ life = "joining"
  /\ \A w \in Workers : thread[w].at = "ended"
  /\ life' = "finishing"
  /\ promise' = [j \in Jobs |->
       IF [kind |-> "job", job |-> j] \notin Unstarted THEN promise[j]
       ELSE IF j.desc \in Graphics THEN "set" ELSE "broken"]
  /\ UNCHANGED <<libraryVars, thread, poolVars>>

\* ~PipelineCompileQueue: DoOneJob until the queue is empty.
FinishAllJobs ==
  /\ life = "finishing"
  /\ thread[Owner].at = "idle"
  /\ IF \A d \in Graphics : pending[d] = None
     THEN life' = "gone" /\ UNCHANGED thread
     ELSE Set(Owner, [Idle EXCEPT !.at = "take"]) /\ UNCHANGED life
  /\ UNCHANGED <<libraryVars, promise, poolVars>>

-----------------------------------------------------------------------------
Init ==
  /\ pipelines = [d \in Descriptors |-> None]
  /\ pending = [d \in Graphics |-> None]
  /\ promise = [j \in Jobs |-> "none"]
  /\ thread = [t \in Threads |-> Idle]
  /\ life = "alive"
  /\ Pool!Init

\* What a thread does once it is in a call.
Step(t) ==
  \/ PostComputeJob(t) \/ InsertJob(t) \/ PostSecondJob(t)
  \/ AnnounceJob(t) \/ TakeNextJob(t) \/ TakeJob(t) \/ RunJob(t) \/ FutureGet(t)

WorkerStep(w) == StartTask(w) \/ EndWorker(w)

Request(t) ==
  \/ \E d \in Descriptors, async \in BOOLEAN : GetPipeline(t, d, async)
  \/ \E d \in Graphics : RemovePipelinesWithEntryPoint(t, d)
  \/ \E eager \in BOOLEAN : WaitAndGet(t, eager)

Next ==
  \/ \E t \in Threads : Step(t)
  \/ \E w \in Workers : WorkerStep(w)
  \/ \E t \in Clients : Request(t)
  \/ Shutdown
  \/ DestroyPool
  \/ PoolJoined
  \/ FinishAllJobs

Spec == Init /\ [][Next]_vars

\* Threads run what they have begun; the pool keeps its promise of Executor.
\* Nobody need ask, shut down or destroy.
FairSpec ==
  /\ Spec
  /\ \A t \in Threads : WF_vars(Step(t))
  /\ \A w \in Workers : WF_vars(WorkerStep(w))
  /\ WF_vars(PoolJoined)
  /\ WF_vars(FinishAllJobs)

-----------------------------------------------------------------------------
(* Properties.                                                             *)

Queued(j) == j.desc \in Graphics /\ pending[j.desc] = j
InPool(j) == [kind |-> "job", job |-> j] \in Unstarted
CarriedBy(j) == {t \in Threads : thread[t].job = j /\ thread[t].at \in {"post", "run"}}

(* A job is in one place, and is gone when its promise is set: the worker  *)
(* that takes any job, the waiter that takes the one of its descriptor,    *)
(* the second job of a descriptor that is posted beside the queue, and the *)
(* flush by the destructor neither lose a promise nor complete one twice.  *)
EveryJobOnce ==
  \A j \in Jobs :
    Cardinality(CarriedBy(j)) + (IF Queued(j) THEN 1 ELSE 0)
      + (IF InPool(j) /\ life \in {"alive", "joining"} THEN 1 ELSE 0)
        = IF promise[j] = "unset" THEN 1 ELSE 0

(* Every job in the queue has a task of the pool to come for it, although  *)
(* a task takes any job and waiters take jobs without their tasks.         *)
QueuedJobsHaveTakers ==
  life \in {"alive", "joining"} =>
    Cardinality({d \in Graphics : pending[d] # None})
      <= Cardinality({k \in Unstarted : k.kind = "one"})
         + Cardinality({t \in Threads : thread[t].at \in {"announce", "take"}})

(* GetPipeline gives pipelines_mutex_ back, even when the closed pool has  *)
(* it run the job, or another's, on the spot.                              *)
LibraryUnlocks ==
  \A t \in Clients : "pipelines" \in thread[t].locks ~> thread[t].locks = {}

\* A task of a closed pool that no worker need execute.
LeftOver(j) == closed /\ (InPool(j) \/ Queued(j))

(* A client gets its pipeline or null.  What can keep it waiting is a job  *)
(* that a shut-down pool has left over, and never one of the queue if the  *)
(* client was eager.                                                       *)
WaitersReturn ==
  \A t \in Clients :
    thread[t].at = "wait" ~>
      \/ thread[t].at # "wait"
      \/ LeftOver(thread[t].future) /\ (thread[t].eager => ~Queued(thread[t].future))
=============================================================================

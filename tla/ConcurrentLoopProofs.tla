------------------------ MODULE ConcurrentLoopProofs ------------------------
(***************************************************************************)
(* Proofs about ConcurrentLoop.                                            *)
(***************************************************************************)
EXTENDS ConcurrentLoop, FiniteSetTheorems, SequenceTheorems, TLAPS

\* The types of what EarlyBroadcastsRun speaks of.
LoopTypes ==
  /\ threadTasks \in [Workers -> Seq(Broadcasts)]
  /\ shutdown \in BOOLEAN
  /\ at \in [Workers -> {"check", "asleep", "running", "ended"}]
  /\ exiting \in [Workers -> BOOLEAN]

\* A worker ends because it has seen the shutdown, and one that has seen it
\* took in the same critical section all that was posted to it before.
ExitSeen ==
  \A w \in Workers :
    /\ at[w] = "ended" => exiting[w]
    /\ exiting[w] => shutdown /\ \A i \in DOMAIN threadTasks[w] : threadTasks[w][i] \in late

LoopInv == LoopTypes /\ ExitSeen

\* No step of a call, nor of the references, touches what LoopInv is about but
\* the notification of a sleeping worker.
LEMMA CallStepHolds ==
  ASSUME LoopInv, NEW t \in Threads, CallStep(t)
  PROVE  LoopInv'
<1>1. CASE LoopPostTask(t)
  BY <1>1 DEF LoopPostTask, LoopInv, LoopTypes, ExitSeen, workerVars
<1>2. CASE NotifyOne(t)
  <2>1. UNCHANGED <<threadTasks, shutdown, exiting, late>>
    BY <1>2 DEF NotifyOne, loopVars
  <2>2. UNCHANGED at \/ \E w \in Asleep : at' = [at EXCEPT ![w] = "check"]
    BY <1>2 DEF NotifyOne
  <2> QED BY <2>1, <2>2 DEF LoopInv, LoopTypes, ExitSeen, Asleep
<1>3. CASE ExecuteInline(t)
  BY <1>3 DEF ExecuteInline, LoopInv, LoopTypes, ExitSeen, loopVars, workerVars
<1>4. CASE Release(t)
  BY <1>4 DEF Release, LoopInv, LoopTypes, ExitSeen, loopVars, workerVars
<1> QED BY <1>1, <1>2, <1>3, <1>4 DEF CallStep

\* A worker reads shutdown_ and takes its thread tasks at once.
LEMMA WorkerStepHolds ==
  ASSUME LoopInv, NEW w \in Workers, WorkerStep(w) \/ SpuriousWake(w)
  PROVE  LoopInv'
<1>1. CASE Sleep(w)
  BY <1>1 DEF Sleep, LoopInv, LoopTypes, ExitSeen, loopVars
<1>2. CASE SpuriousWake(w)
  BY <1>2 DEF SpuriousWake, LoopInv, LoopTypes, ExitSeen, loopVars
<1>3. CASE Take(w)
  <2>1. <<>> \in Seq(Broadcasts) /\ DOMAIN <<>> = {}
    OBVIOUS
  <2>2. LoopTypes'
    BY <1>3, <2>1 DEF Take, LoopInv, LoopTypes
  <2>3. ASSUME NEW v \in Workers
        PROVE  /\ at'[v] = "ended" => exiting'[v]
               /\ exiting'[v] => /\ shutdown'
                                 /\ \A i \in DOMAIN threadTasks'[v] : threadTasks'[v][i] \in late'
    <3>1. CASE v = w
      BY <1>3, <2>1, <3>1 DEF Take, LoopInv, LoopTypes
    <3>2. CASE v # w
      BY <1>3, <3>2 DEF Take, LoopInv, LoopTypes, ExitSeen
    <3> QED BY <3>1, <3>2
  <2> QED BY <2>2, <2>3 DEF LoopInv, ExitSeen
<1>4. CASE ExecuteTask(w)
  BY <1>4 DEF ExecuteTask, LoopInv, LoopTypes, ExitSeen, loopVars
<1>5. CASE EndOfLoop(w)
  BY <1>5 DEF EndOfLoop, LoopInv, LoopTypes, ExitSeen, loopVars
<1> QED BY <1>1, <1>2, <1>3, <1>4, <1>5 DEF WorkerStep

\* Waking all the workers ends none of them.
LEMMA WakeAllHolds ==
  ASSUME LoopTypes
  PROVE  /\ WakeAll \in [Workers -> {"check", "asleep", "running", "ended"}]
         /\ \A w \in Workers : WakeAll[w] = "ended" => at[w] = "ended"
BY DEF LoopTypes, WakeAll

\* What is posted after the shutdown is late; before it, no worker leaves.
LEMMA BroadcastHolds ==
  ASSUME LoopInv, NEW b \in Broadcasts, PostTaskToAllWorkers(b)
  PROVE  LoopInv'
<1>1. UNCHANGED <<shutdown, exiting>> /\ at' = WakeAll
  BY DEF PostTaskToAllWorkers
<1>2. threadTasks' = [w \in Workers |-> Append(threadTasks[w], b)]
  BY DEF PostTaskToAllWorkers
<1>3. LoopTypes'
  <2>1. \A w \in Workers : Append(threadTasks[w], b) \in Seq(Broadcasts)
    BY DEF LoopInv, LoopTypes
  <2> QED BY <1>1, <1>2, <2>1, WakeAllHolds DEF LoopInv, LoopTypes
<1>4. ASSUME NEW w \in Workers, exiting'[w]
      PROVE  shutdown' /\ \A i \in DOMAIN threadTasks'[w] : threadTasks'[w][i] \in late'
  <2>1. shutdown /\ \A i \in DOMAIN threadTasks[w] : threadTasks[w][i] \in late
    BY <1>1, <1>4 DEF LoopInv, ExitSeen
  <2>2. late' = late \cup {b}
    BY <2>1 DEF PostTaskToAllWorkers
  <2>3. threadTasks[w] \in Seq(Broadcasts) /\ threadTasks'[w] = Append(threadTasks[w], b)
    BY <1>2 DEF LoopInv, LoopTypes
  <2>4. ASSUME NEW i \in DOMAIN threadTasks'[w]
        PROVE  threadTasks'[w][i] \in late'
    <3>1. i \in 1 .. Len(threadTasks[w]) + 1
      BY <2>3, <2>4
    <3>2. CASE i = Len(threadTasks[w]) + 1
      BY <2>2, <2>3, <3>2
    <3>3. CASE i \in DOMAIN threadTasks[w]
      BY <2>1, <2>2, <2>3, <3>3
    <3> QED BY <2>3, <3>1, <3>2, <3>3
  <2> QED BY <1>1, <2>1, <2>4
<1>5. \A w \in Workers : at'[w] = "ended" => exiting'[w]
  BY <1>1, WakeAllHolds DEF LoopInv, ExitSeen
<1> QED BY <1>3, <1>4, <1>5 DEF LoopInv, ExitSeen

\* A termination only adds to what the workers may see.
LEMMA TerminateHolds ==
  ASSUME LoopInv, Terminate
  PROVE  LoopInv'
<1>1. shutdown' = TRUE /\ at' = WakeAll /\ UNCHANGED <<threadTasks, exiting, late>>
  BY DEF Terminate
<1>2. LoopTypes'
  BY <1>1, WakeAllHolds DEF LoopInv, LoopTypes
<1>3. ExitSeen'
  BY <1>1, WakeAllHolds DEF LoopInv, ExitSeen
<1> QED BY <1>2, <1>3 DEF LoopInv

\* WorkerMain ends with no thread task left that was posted before the
\* shutdown, for any number of workers, clients, tasks and broadcasts.
THEOREM EarlyBroadcastsRunInvariant == Spec => []EarlyBroadcastsRun
<1>1. Init => LoopInv
  <2> SUFFICES ASSUME Init PROVE LoopInv
    OBVIOUS
  <2>1. <<>> \in Seq(Broadcasts)
    OBVIOUS
  <2> QED BY <2>1 DEF Init, LoopInv, LoopTypes, ExitSeen
<1>2. LoopInv /\ [Next]_vars => LoopInv'
  <2> SUFFICES ASSUME LoopInv, [Next]_vars PROVE LoopInv'
    OBVIOUS
  <2>1. ASSUME NEW t \in Threads, NEW k \in Tasks, RunnerPostTask(t, k) PROVE LoopInv'
    BY <2>1 DEF RunnerPostTask, LoopInv, LoopTypes, ExitSeen, loopVars, workerVars
  <2>2. CASE OwnerTerminates
    BY <2>2, TerminateHolds DEF OwnerTerminates
  <2>3. CASE OwnerReleases
    BY <2>3 DEF OwnerReleases, LoopInv, LoopTypes, ExitSeen, loopVars, workerVars
  <2>4. CASE DestructorTerminates
    BY <2>4, TerminateHolds DEF DestructorTerminates
  <2>5. CASE DestructorJoins
    BY <2>5 DEF DestructorJoins, LoopInv, LoopTypes, ExitSeen, loopVars, workerVars
  <2>6. CASE UNCHANGED vars
    BY <2>6 DEF vars, LoopInv, LoopTypes, ExitSeen
  <2> QED BY <2>1, <2>2, <2>3, <2>4, <2>5, <2>6, CallStepHolds, WorkerStepHolds,
             BroadcastHolds DEF Next
<1>3. LoopInv => EarlyBroadcastsRun
  BY DEF LoopInv, ExitSeen, EarlyBroadcastsRun
<1> QED BY <1>1, <1>2, <1>3, PTL DEF Spec

-----------------------------------------------------------------------------
(* Types, and where a task is.                                             *)

CallRecords == [at: {"lock", "notify", "inline", "release", "orphan"}, task: Tasks]
DestructorRecords == [at: {"terminate", "join", "done"}, thread: Threads]

Queued(k) == {i \in DOMAIN tasks : tasks[i] = k}
Heads(k) == {w \in Workers : job[w] # <<>> /\ job[w][1] = k}

\* A worker has a job only while it runs one, and a task only at its head:
\* what follows was posted to the worker.
JobsInv ==
  \A w \in Workers :
    /\ at[w] # "running" => job[w] = <<>>
    /\ \A i \in 2 .. Len(job[w]) : job[w][i] \in Broadcasts

\* A task is nowhere, with one caller, at one place of the queue, the task of
\* one worker, or executed.
Nowhere(k) == k \notin posted /\ WithCaller(k) = {} /\ Queued(k) = {} /\ Heads(k) = {} /\ ran[k] = 0
AtCaller(k) ==
  /\ k \in posted /\ Queued(k) = {} /\ Heads(k) = {} /\ ran[k] = 0
  /\ \E t \in Threads : WithCaller(k) = {t}
InQueue(k) ==
  /\ k \in posted /\ WithCaller(k) = {} /\ Heads(k) = {} /\ ran[k] = 0
  /\ \E i \in DOMAIN tasks : Queued(k) = {i}
AtWorker(k) ==
  /\ k \in posted /\ WithCaller(k) = {} /\ Queued(k) = {} /\ ran[k] = 0
  /\ \E w \in Workers : Heads(k) = {w}
Executed(k) == k \in posted /\ WithCaller(k) = {} /\ Queued(k) = {} /\ Heads(k) = {} /\ ran[k] = 1

Placed(k) == Nowhere(k) \/ AtCaller(k) \/ InQueue(k) \/ AtWorker(k) \/ Executed(k)
PlacesInv == \A k \in Tasks : Placed(k)

IInv == TypeOK /\ JobsInv /\ PlacesInv

\* A task none of whose places changes stays where it is.
LEMMA PlaceStays ==
  ASSUME NEW k, Placed(k), WithCaller(k)' = WithCaller(k), Queued(k)' = Queued(k),
         DOMAIN tasks \subseteq (DOMAIN tasks)',
         Heads(k)' = Heads(k), ran[k]' = ran[k], (k \in posted)' <=> k \in posted
  PROVE  Placed(k)'
BY DEF Placed, Nowhere, AtCaller, InQueue, AtWorker, Executed

\* A call in progress is a record with the task of the caller.
LEMMA CallTypes ==
  ASSUME TypeOK, NEW t \in Threads, call[t].at # "none"
  PROVE  call[t] \in CallRecords /\ call[t].task \in Tasks
BY DEF TypeOK, CallRecords, NoCall

\* A step of a call moves its record on.
LEMMA CallMoves ==
  ASSUME TypeOK, NEW t \in Threads, call[t].at # "none",
         NEW a \in {"lock", "notify", "inline", "release", "orphan"},
         call' = [call EXCEPT ![t].at = a]
  PROVE  /\ call' \in [Threads -> {NoCall} \cup CallRecords]
         /\ call'[t] = [at |-> a, task |-> call[t].task]
         /\ \A u \in Threads \ {t} : call'[u] = call[u]
<1>1. call[t] \in CallRecords
  BY CallTypes
<1>2. call'[t] = [at |-> a, task |-> call[t].task]
  BY <1>1 DEF TypeOK, CallRecords
<1>3. call'[t] \in CallRecords
  BY <1>1, <1>2 DEF CallRecords
<1>4. \A u \in Threads \ {t} : call'[u] = call[u]
  BY DEF TypeOK
<1>5. call \in [Threads -> {NoCall} \cup CallRecords]
  BY DEF TypeOK, CallRecords
<1> QED BY <1>2, <1>3, <1>4, <1>5

\* ConcurrentTaskRunner::PostTask: the caller has the task.
LEMMA RunnerPostTaskHolds ==
  ASSUME IInv, NEW t \in Threads, NEW k \in Tasks, RunnerPostTask(t, k)
  PROVE  IInv'
<1> DEFINE c == [at |-> IF Alive THEN "lock" ELSE "orphan", task |-> k]
<1>1. call' = [call EXCEPT ![t] = c] /\ c \in CallRecords
      /\ c.at \in {"lock", "inline", "orphan"} /\ c.task = k
  BY DEF RunnerPostTask, CallRecords
<1>2. call[t].at = "none" /\ k \notin posted /\ posted' = posted \cup {k}
  BY DEF RunnerPostTask, Free, Calling
<1> HIDE DEF c
<1>3. call'[t] = c /\ \A u \in Threads \ {t} : call'[u] = call[u]
  BY <1>1 DEF IInv, TypeOK
<1>4. TypeOK'
  <2>1. call' \in [Threads -> {NoCall} \cup CallRecords]
    BY <1>1 DEF IInv, TypeOK, CallRecords
  <2> QED BY <2>1, <1>2 DEF RunnerPostTask, IInv, TypeOK, CallRecords, loopVars, workerVars,
             lifeVars
<1>5. JobsInv'
  BY DEF RunnerPostTask, IInv, JobsInv, workerVars
<1>6. ASSUME NEW j \in Tasks PROVE Placed(j)'
  <2>1. Queued(j)' = Queued(j) /\ Heads(j)' = Heads(j) /\ ran'[j] = ran[j] /\ tasks' = tasks
    BY DEF RunnerPostTask, Queued, Heads, loopVars, workerVars
  <2>2. CASE j = k
    <3>1. Nowhere(k)
      BY <1>2 DEF IInv, PlacesInv, Placed, Nowhere, AtCaller, InQueue, AtWorker, Executed
    <3>2. WithCaller(k)' = {t}
      BY <1>1, <1>3, <3>1 DEF Nowhere, WithCaller
    <3> QED BY <1>2, <2>1, <2>2, <3>1, <3>2 DEF Nowhere, AtCaller, Placed
  <2>3. CASE j # k
    <3>1. WithCaller(j)' = WithCaller(j)
      BY <1>1, <1>2, <1>3, <2>3 DEF WithCaller
    <3> QED BY <1>2, <2>1, <2>3, <3>1, PlaceStays DEF IInv, PlacesInv
  <2> QED BY <2>2, <2>3
<1> QED BY <1>4, <1>5, <1>6 DEF IInv, PlacesInv

\* ConcurrentMessageLoop::PostTask: the task goes to the end of the queue, or
\* stays with the caller when the loop is shut down.
LEMMA LoopPostTaskHolds ==
  ASSUME IInv, NEW t \in Threads, LoopPostTask(t)
  PROVE  IInv'
<1> DEFINE k == call[t].task
           a == IF shutdown THEN "inline" ELSE "notify"
<1>1. /\ TypeOK /\ call[t].at = "lock" /\ k \in Tasks
      /\ a \in {"lock", "notify", "inline", "release", "orphan"}
      /\ call' = [call EXCEPT ![t].at = a]
  BY CallTypes DEF LoopPostTask, IInv
<1>2. /\ call' \in [Threads -> {NoCall} \cup CallRecords]
      /\ call'[t] = [at |-> a, task |-> k]
      /\ \A u \in Threads \ {t} : call'[u] = call[u]
  <2> HIDE DEF a
  <2> QED BY <1>1, CallMoves
<1>3. tasks \in Seq(Tasks) /\ tasks' = IF shutdown THEN tasks ELSE Append(tasks, k)
  BY <1>1 DEF LoopPostTask, TypeOK
<1>4. tasks' \in Seq(Tasks)
  BY <1>1, <1>3
<1>5. TypeOK'
  BY <1>1, <1>2, <1>4 DEF LoopPostTask, TypeOK, CallRecords, workerVars, lifeVars
<1>6. JobsInv'
  BY DEF LoopPostTask, IInv, JobsInv, workerVars
<1>7. ASSUME NEW j \in Tasks PROVE Placed(j)'
  <2>1. Heads(j)' = Heads(j) /\ ran'[j] = ran[j] /\ posted' = posted
    BY DEF LoopPostTask, Heads, workerVars
  <2>2. CASE shutdown
    <3>1. WithCaller(j)' = WithCaller(j)
      <4>1. call'[t].at = "inline" /\ call'[t].task = call[t].task
        BY <1>2, <2>2
      <4>2. t \in WithCaller(j)' <=> t \in WithCaller(j)
        BY <1>1, <4>1 DEF WithCaller
      <4>3. \A u \in Threads \ {t} : u \in WithCaller(j)' <=> u \in WithCaller(j)
        BY <1>2 DEF WithCaller
      <4> QED BY <4>2, <4>3 DEF WithCaller
    <3>2. Queued(j)' = Queued(j) /\ tasks' = tasks
      BY <1>3, <2>2 DEF Queued
    <3> QED BY <2>1, <3>1, <3>2, PlaceStays DEF IInv, PlacesInv
  <2>3. CASE ~shutdown
    <3>1. /\ tasks' = Append(tasks, k) /\ Len(tasks) \in Nat
          /\ DOMAIN tasks' = 1 .. Len(tasks) + 1 /\ DOMAIN tasks = 1 .. Len(tasks)
          /\ tasks'[Len(tasks) + 1] = k
          /\ \A i \in DOMAIN tasks : tasks'[i] = tasks[i]
      BY <1>1, <1>3, <2>3
    <3>2. Queued(j)' = IF j = k THEN Queued(j) \cup {Len(tasks) + 1} ELSE Queued(j)
      BY <3>1 DEF Queued
    <3>3. CASE j = k
      <4>1. t \in WithCaller(k)
        BY <1>1 DEF WithCaller
      <4>2. AtCaller(k)
        BY <1>1, <4>1 DEF IInv, PlacesInv, Placed, Nowhere, AtCaller, InQueue, AtWorker,
           Executed
      <4>3. WithCaller(k) = {t}
        BY <4>1, <4>2 DEF AtCaller
      <4>4. WithCaller(j)' = {}
        BY <1>1, <1>2, <2>3, <3>3, <4>3 DEF WithCaller
      <4>5. Queued(j)' = {Len(tasks) + 1} /\ Len(tasks) + 1 \in DOMAIN tasks'
        BY <3>1, <3>2, <3>3, <4>2 DEF AtCaller
      <4> QED BY <2>1, <3>3, <4>2, <4>4, <4>5 DEF AtCaller, InQueue, Placed
    <3>4. CASE j # k
      <4>1. WithCaller(j)' = WithCaller(j)
        BY <1>1, <1>2, <2>3, <3>4 DEF WithCaller
      <4> QED BY <2>1, <3>1, <3>2, <3>4, <4>1, PlaceStays DEF IInv, PlacesInv
    <3> QED BY <3>3, <3>4
  <2> QED BY <2>2, <2>3
<1> QED BY <1>5, <1>6, <1>7 DEF IInv, PlacesInv

\* NotifyOne wakes a sleeper, and the call is about to return.
LEMMA NotifyOneHolds ==
  ASSUME IInv, NEW t \in Threads, NotifyOne(t)
  PROVE  IInv'
<1>1. TypeOK /\ call[t].at = "notify" /\ call' = [call EXCEPT ![t].at = "release"]
  BY DEF NotifyOne, IInv
<1>2. /\ call' \in [Threads -> {NoCall} \cup CallRecords]
      /\ call'[t] = [at |-> "release", task |-> call[t].task]
      /\ \A u \in Threads \ {t} : call'[u] = call[u]
  BY <1>1, CallMoves
<1>3. /\ at' \in [Workers -> {"check", "asleep", "running", "ended"}]
      /\ \A w \in Workers : at'[w] = "running" <=> at[w] = "running"
  <2>1. UNCHANGED at \/ \E w \in Asleep : at' = [at EXCEPT ![w] = "check"]
    BY DEF NotifyOne
  <2> QED BY <1>1, <2>1 DEF Asleep, TypeOK
<1>4. TypeOK'
  BY <1>1, <1>2, <1>3 DEF NotifyOne, TypeOK, CallRecords, loopVars, lifeVars
<1>5. JobsInv'
  BY <1>3 DEF NotifyOne, IInv, JobsInv
<1>6. ASSUME NEW j \in Tasks PROVE Placed(j)'
  <2>1. Heads(j)' = Heads(j) /\ ran'[j] = ran[j] /\ posted' = posted
    BY DEF NotifyOne, Heads
  <2>2. Queued(j)' = Queued(j) /\ tasks' = tasks
    BY DEF NotifyOne, Queued, loopVars
  <2>3. WithCaller(j)' = WithCaller(j)
    BY <1>1, <1>2 DEF WithCaller
  <2> QED BY <2>1, <2>2, <2>3, PlaceStays DEF IInv, PlacesInv
<1> QED BY <1>4, <1>5, <1>6 DEF IInv, PlacesInv

\* A task the caller executes itself has not been executed.
LEMMA InlineTask ==
  ASSUME IInv, NEW t \in Threads, ExecuteInline(t)
  PROVE  /\ call[t].task \in Tasks /\ call[t].task \in posted /\ ran[call[t].task] = 0
         /\ AtCaller(call[t].task) /\ WithCaller(call[t].task) = {t}
<1>1. call[t].task \in Tasks
  BY CallTypes DEF ExecuteInline, IInv
<1>2. t \in WithCaller(call[t].task)
  BY DEF ExecuteInline, WithCaller
<1>3. AtCaller(call[t].task)
  BY <1>1, <1>2 DEF IInv, PlacesInv, Placed, Nowhere, AtCaller, InQueue, AtWorker, Executed
<1> QED BY <1>1, <1>2, <1>3 DEF AtCaller

\* A caller of the shut-down pool executes its task.
LEMMA ExecuteInlineHolds ==
  ASSUME IInv, NEW t \in Threads, ExecuteInline(t)
  PROVE  IInv'
<1> DEFINE k == call[t].task
           c == IF HoldsLoop(t) THEN [call[t] EXCEPT !.at = "release"] ELSE NoCall
<1>1. /\ TypeOK /\ call[t].at \in {"inline", "orphan"} /\ call' = [call EXCEPT ![t] = c]
      /\ call[t] \in CallRecords /\ k \in Tasks
  BY CallTypes DEF ExecuteInline, IInv, TypeOK
<1>2. c \in {NoCall} \cup CallRecords /\ c.at \in {"none", "release"}
  BY <1>1 DEF CallRecords, NoCall
<1> HIDE DEF c
<1>3. /\ call' \in [Threads -> {NoCall} \cup CallRecords]
      /\ call'[t] = c /\ \A u \in Threads \ {t} : call'[u] = call[u]
  BY <1>1, <1>2 DEF TypeOK, CallRecords
<1>4. ran' = [ran EXCEPT ![k] = 1] /\ ran' \in [Tasks -> 0 .. 1]
  <2>1. ran' = [ran EXCEPT ![k] = ran[k] + 1] /\ ran \in [Tasks -> 0 .. 1]
    BY <1>1 DEF ExecuteInline, TypeOK
  <2>2. ran[k] + 1 = 1
    BY InlineTask
  <2>3. k \in Tasks /\ ran' = [ran EXCEPT ![k] = 1]
    BY <1>1, <2>1, <2>2
  <2>4. [ran EXCEPT ![k] = 1] \in [Tasks -> 0 .. 1]
    BY <2>1, <2>3
  <2> QED BY <2>3, <2>4
<1>5. TypeOK'
  BY <1>1, <1>3, <1>4 DEF ExecuteInline, TypeOK, CallRecords, loopVars, workerVars, lifeVars
<1>6. JobsInv'
  BY DEF ExecuteInline, IInv, JobsInv, workerVars
<1>7. ASSUME NEW j \in Tasks PROVE Placed(j)'
  <2>1. Heads(j)' = Heads(j) /\ Queued(j)' = Queued(j) /\ tasks' = tasks /\ posted' = posted
    BY DEF ExecuteInline, Heads, Queued, loopVars, workerVars
  <2>2. CASE j = k
    <3>1. WithCaller(j)' = {}
      BY <1>2, <1>3, <2>2, InlineTask DEF WithCaller
    <3>2. ran'[j] = 1
      BY <1>1, <1>4, <2>2 DEF TypeOK
    <3> QED BY <2>1, <2>2, <3>1, <3>2, InlineTask DEF AtCaller, Executed, Placed
  <2>3. CASE j # k
    <3>1. WithCaller(j)' = WithCaller(j)
      BY <1>1, <1>2, <1>3, <2>3 DEF WithCaller
    <3>2. ran'[j] = ran[j]
      BY <1>1, <1>4, <2>3 DEF TypeOK
    <3> QED BY <2>1, <3>1, <3>2, PlaceStays DEF IInv, PlacesInv
  <2> QED BY <2>2, <2>3
<1> QED BY <1>5, <1>6, <1>7 DEF IInv, PlacesInv

\* Who drops the last reference is in the destructor.
LEMMA DropTypes ==
  ASSUME TypeOK, NEW t \in Threads, NEW o, Drop(t, o)
  PROVE  destructor' \in {NotDestroyed} \cup DestructorRecords
BY DEF Drop, TypeOK, DestructorRecords

\* A call gives up its reference to the loop.
LEMMA ReleaseHolds ==
  ASSUME IInv, NEW t \in Threads, Release(t)
  PROVE  IInv'
<1>1. TypeOK /\ call[t].at = "release" /\ call' = [call EXCEPT ![t] = NoCall]
  BY DEF Release, IInv
<1>2. /\ call' \in [Threads -> {NoCall} \cup CallRecords]
      /\ call'[t] = NoCall /\ \A u \in Threads \ {t} : call'[u] = call[u]
  BY <1>1 DEF TypeOK, CallRecords
<1>3. destructor' \in {NotDestroyed} \cup DestructorRecords
  BY <1>1, DropTypes DEF Release
<1>4. TypeOK'
  BY <1>1, <1>2, <1>3 DEF Release, TypeOK, CallRecords, DestructorRecords, loopVars, workerVars
<1>5. JobsInv'
  BY DEF Release, IInv, JobsInv, workerVars
<1>6. ASSUME NEW j \in Tasks PROVE Placed(j)'
  <2>1. Heads(j)' = Heads(j) /\ Queued(j)' = Queued(j) /\ tasks' = tasks
    BY DEF Release, Heads, Queued, loopVars, workerVars
  <2>2. ran'[j] = ran[j] /\ posted' = posted
    BY DEF Release
  <2>3. WithCaller(j)' = WithCaller(j)
    BY <1>1, <1>2 DEF WithCaller, NoCall
  <2> QED BY <2>1, <2>2, <2>3, PlaceStays DEF IInv, PlacesInv
<1> QED BY <1>4, <1>5, <1>6 DEF IInv, PlacesInv

\* What a worker takes: the head of the queue, if any, and its thread tasks.
LEMMA Taken ==
  ASSUME TypeOK, NEW w \in Workers, NEW q, NEW j,
         q = SubSeq(tasks, 2, Len(tasks)), j = FirstTask \o threadTasks[w]
  PROVE  /\ q \in Seq(Tasks) /\ j \in Seq(Tasks \cup Broadcasts)
         /\ tasks = <<>> => q = <<>> /\ \A i \in DOMAIN j : j[i] \in Broadcasts
         /\ tasks # <<>> => /\ Len(tasks) \in Nat \ {0} /\ DOMAIN tasks = 1 .. Len(tasks)
                            /\ Len(q) = Len(tasks) - 1
                            /\ \A i \in DOMAIN q : q[i] = tasks[i + 1]
                            /\ j # <<>> /\ j[1] = tasks[1] /\ tasks[1] \in Tasks
                            /\ \A i \in 2 .. Len(j) : j[i] \in Broadcasts
<1> DEFINE tt == threadTasks[w]
<1>1. tasks \in Seq(Tasks) /\ tt \in Seq(Broadcasts) /\ Len(tasks) \in Nat /\ Len(tt) \in Nat
  BY DEF TypeOK
<1> HIDE DEF tt
<1>2. CASE tasks = <<>>
  <2>1. FirstTask = <<>> /\ q = <<>>
    BY <1>2 DEF FirstTask
  <2>2. j = tt
    BY <1>1, <2>1 DEF tt
  <2>3. j \in Seq(Tasks \cup Broadcasts) /\ \A i \in DOMAIN j : j[i] \in Broadcasts
    BY <1>1, <2>2
  <2> QED BY <1>2, <2>1, <2>3
<1>3. CASE tasks # <<>>
  <2>1. Len(tasks) \in Nat \ {0} /\ DOMAIN tasks = 1 .. Len(tasks) /\ tasks[1] \in Tasks
    BY <1>1, <1>3, EmptySeq
  <2>2. FirstTask = SubSeq(tasks, 1, 1)
    BY <1>3 DEF FirstTask
  <2>3. FirstTask \in Seq(Tasks) /\ Len(FirstTask) = 1 /\ FirstTask[1] = tasks[1]
    BY <1>1, <2>1, <2>2
  <2>4. /\ q \in Seq(Tasks) /\ Len(q) = Len(tasks) - 1
        /\ \A i \in DOMAIN q : q[i] = tasks[i + 1]
    BY <1>1, <2>1
  <2>5. /\ j \in Seq(Tasks \cup Broadcasts) /\ Len(j) = 1 + Len(tt)
        /\ j[1] = FirstTask[1]
        /\ \A i \in 2 .. Len(j) : j[i] = tt[i - 1]
    <3>1. FirstTask \in Seq(Tasks \cup Broadcasts) /\ tt \in Seq(Tasks \cup Broadcasts)
      BY <1>1, <2>3
    <3>2. /\ j \in Seq(Tasks \cup Broadcasts) /\ Len(j) = 1 + Len(tt)
          /\ \A i \in 1 .. 1 + Len(tt) : j[i] = IF i <= 1 THEN FirstTask[i] ELSE tt[i - 1]
      <4>1. j = FirstTask \o tt
        BY DEF tt
      <4>2. /\ FirstTask \o tt \in Seq(Tasks \cup Broadcasts)
            /\ Len(FirstTask \o tt) = Len(FirstTask) + Len(tt)
            /\ \A i \in 1 .. Len(FirstTask) + Len(tt) : (FirstTask \o tt)[i] =
                 IF i <= Len(FirstTask) THEN FirstTask[i] ELSE tt[i - Len(FirstTask)]
        BY <3>1, ConcatProperties
      <4> QED BY <2>3, <4>1, <4>2
    <3>3. Len(tt) \in Nat
      BY <3>1, LenProperties
    <3>4. 1 \in 1 .. 1 + Len(tt) /\ \A i \in 2 .. Len(j) : i \in 1 .. 1 + Len(tt) /\ ~(i <= 1)
      BY <3>2, <3>3
    <3> QED BY <3>2, <3>4
  <2>6. j # <<>>
    BY <1>1, <2>5
  <2>7. ASSUME NEW i \in 2 .. Len(j) PROVE j[i] \in Broadcasts
    <3>1. i - 1 \in 1 .. Len(tt)
      BY <1>1, <2>5
    <3> QED BY <1>1, <2>5, <3>1, ElementOfSeq
  <2> QED BY <1>3, <2>1, <2>3, <2>4, <2>5, <2>6, <2>7
<1> QED BY <1>2, <1>3

\* A worker takes a task, or its thread tasks.
LEMMA TakeHolds ==
  ASSUME IInv, NEW w \in Workers, Take(w)
  PROVE  IInv'
<1> DEFINE j == FirstTask \o threadTasks[w]
           q == SubSeq(tasks, 2, Len(tasks))
<1>1. /\ TypeOK /\ job' = [job EXCEPT ![w] = j] /\ tasks' = q
      /\ at[w] = "check" /\ at' = [at EXCEPT ![w] = "running"]
  BY DEF Take, IInv
<1>2. /\ q \in Seq(Tasks) /\ j \in Seq(Tasks \cup Broadcasts)
      /\ tasks = <<>> => q = <<>> /\ \A i \in DOMAIN j : j[i] \in Broadcasts
      /\ tasks # <<>> => /\ Len(tasks) \in Nat \ {0} /\ DOMAIN tasks = 1 .. Len(tasks)
                         /\ Len(q) = Len(tasks) - 1
                         /\ \A i \in DOMAIN q : q[i] = tasks[i + 1]
                         /\ j # <<>> /\ j[1] = tasks[1] /\ tasks[1] \in Tasks
                         /\ \A i \in 2 .. Len(j) : j[i] \in Broadcasts
  BY <1>1, Taken
<1> HIDE DEF j, q
<1>3. /\ job[w] = <<>> /\ job'[w] = j /\ at'[w] = "running"
      /\ \A v \in Workers \ {w} : job'[v] = job[v] /\ at'[v] = at[v]
  BY <1>1 DEF IInv, TypeOK, JobsInv
<1>4. TypeOK'
  <2>1. threadTasks' \in [Workers -> Seq(Broadcasts)]
    BY <1>1 DEF Take, TypeOK
  <2>2. /\ job' \in [Workers -> Seq(Tasks \cup Broadcasts)]
        /\ at' \in [Workers -> {"check", "asleep", "running", "ended"}]
    BY <1>1, <1>2 DEF TypeOK
  <2>3. exiting' \in [Workers -> BOOLEAN]
    BY <1>1 DEF Take, TypeOK
  <2> QED BY <1>1, <1>2, <2>1, <2>2, <2>3 DEF Take, TypeOK, lifeVars
<1>5. JobsInv'
  <2>1. \A i \in 2 .. Len(j) : j[i] \in Broadcasts
    BY <1>2
  <2> QED BY <1>3, <2>1 DEF IInv, JobsInv
<1>6. ASSUME NEW k \in Tasks PROVE Placed(k)'
  <2>1. WithCaller(k)' = WithCaller(k) /\ ran'[k] = ran[k] /\ posted' = posted
    BY DEF Take, WithCaller
  <2>2. w \notin Heads(k)
    BY <1>3 DEF Heads
  <2>3. CASE tasks = <<>>
    <3>1. w \notin Heads(k)'
      BY <1>2, <1>3, <2>3, ThreadsAssumption DEF Heads
    <3>2. Heads(k)' = Heads(k)
      BY <1>3, <2>2, <3>1 DEF Heads
    <3>3. tasks' = tasks /\ Queued(k)' = Queued(k)
      BY <1>1, <1>2, <2>3 DEF Queued
    <3> QED BY <2>1, <3>2, <3>3, PlaceStays DEF IInv, PlacesInv
  <2>4. CASE tasks # <<>>
    <3>1. /\ Len(tasks) \in Nat \ {0} /\ DOMAIN tasks = 1 .. Len(tasks)
          /\ DOMAIN tasks' = 1 .. Len(tasks) - 1
          /\ \A i \in DOMAIN tasks' : tasks'[i] = tasks[i + 1]
          /\ j # <<>> /\ j[1] = tasks[1]
      BY <1>1, <1>2, <2>4
    <3>2. \A i \in Queued(k)' : i + 1 \in Queued(k)
      BY <3>1 DEF Queued
    <3>3. \A i \in Queued(k) : i = 1 \/ i - 1 \in Queued(k)'
      BY <3>1 DEF Queued
    <3>4. CASE k = tasks[1]
      <4>1. 1 \in Queued(k)
        BY <3>1, <3>4 DEF Queued
      <4>2. InQueue(k) /\ Queued(k) = {1}
        BY <4>1 DEF IInv, PlacesInv, Placed, Nowhere, AtCaller, InQueue, AtWorker, Executed
      <4>3. Queued(k)' = {}
        BY <3>1, <3>2, <4>2 DEF Queued
      <4>4. Heads(k)' = {w}
        BY <1>3, <3>1, <3>4, <4>2 DEF Heads, InQueue
      <4> QED BY <2>1, <4>2, <4>3, <4>4 DEF InQueue, AtWorker, Placed
    <3>5. CASE k # tasks[1]
      <4>1. Heads(k)' = Heads(k)
        BY <1>3, <2>2, <3>1, <3>5 DEF Heads
      <4>2. 1 \notin Queued(k)
        BY <3>5 DEF Queued
      <4>3. CASE Queued(k) = {}
        <5>1. Queued(k)' = {}
          BY <3>2, <4>3
        <5> QED BY <2>1, <4>1, <4>3, <5>1 DEF IInv, PlacesInv, Placed, Nowhere, AtCaller,
                   InQueue, AtWorker, Executed
      <4>4. CASE Queued(k) # {}
        <5>1. InQueue(k)
          BY <4>4 DEF IInv, PlacesInv, Placed, Nowhere, AtCaller, InQueue, AtWorker, Executed
        <5>2. PICK i \in DOMAIN tasks : Queued(k) = {i}
          BY <5>1 DEF InQueue
        <5>3. i - 1 \in Queued(k)' /\ i - 1 \in DOMAIN tasks'
          BY <3>3, <4>2, <5>2 DEF Queued
        <5>4. Queued(k)' = {i - 1}
          BY <3>1, <3>2, <5>2, <5>3 DEF Queued
        <5> QED BY <2>1, <4>1, <5>1, <5>3, <5>4 DEF InQueue, Placed
      <4> QED BY <4>3, <4>4
    <3> QED BY <3>4, <3>5
  <2> QED BY <2>3, <2>4
<1> QED BY <1>4, <1>5, <1>6 DEF IInv, PlacesInv

\* A task at the head of a job is the worker's only, and has not been executed.
LEMMA HeadTask ==
  ASSUME IInv, NEW w \in Workers, job[w] # <<>>, job[w][1] \in Tasks
  PROVE  /\ job[w][1] \in posted /\ ran[job[w][1]] = 0
         /\ AtWorker(job[w][1]) /\ Heads(job[w][1]) = {w}
<1>1. w \in Heads(job[w][1])
  BY DEF Heads
<1>2. AtWorker(job[w][1])
  BY <1>1 DEF IInv, PlacesInv, Placed, Nowhere, AtCaller, InQueue, AtWorker, Executed
<1> QED BY <1>1, <1>2 DEF AtWorker

\* What is left of a job after its head was posted to the worker.
LEMMA JobTail ==
  ASSUME IInv, NEW w \in Workers, job[w] # <<>>
  PROVE  /\ Head(job[w]) = job[w][1]
         /\ Tail(job[w]) \in Seq(Tasks \cup Broadcasts)
         /\ \A i \in DOMAIN Tail(job[w]) : Tail(job[w])[i] \in Broadcasts
<1>1. job[w] \in Seq(Tasks \cup Broadcasts) /\ \A i \in 2 .. Len(job[w]) : job[w][i] \in Broadcasts
  BY DEF IInv, TypeOK, JobsInv
<1>2. /\ Len(job[w]) \in Nat \ {0} /\ Tail(job[w]) \in Seq(Tasks \cup Broadcasts)
      /\ Len(Tail(job[w])) = Len(job[w]) - 1
      /\ DOMAIN Tail(job[w]) = 1 .. Len(job[w]) - 1
      /\ \A i \in 1 .. Len(job[w]) - 1 : Tail(job[w])[i] = job[w][i + 1]
  BY <1>1, EmptySeq, HeadTailProperties
<1> QED BY <1>1, <1>2

\* What is left of a job is a job with no task.
LEMMA ExecuteTaskHolds ==
  ASSUME IInv, NEW w \in Workers, ExecuteTask(w)
  PROVE  IInv'
<1> DEFINE r == Tail(job[w])
           h == job[w][1]
<1>1. /\ TypeOK /\ job[w] # <<>> /\ at[w] = "running" /\ job' = [job EXCEPT ![w] = r]
      /\ r \in Seq(Tasks \cup Broadcasts) /\ \A i \in DOMAIN r : r[i] \in Broadcasts
      /\ h = Head(job[w])
  BY JobTail DEF ExecuteTask, IInv
<1>2. ran' = [k \in Tasks |-> IF k = h THEN ran[k] + 1 ELSE ran[k]]
  BY <1>1 DEF ExecuteTask
<1>3. h \in Tasks => h \in posted /\ ran[h] = 0 /\ AtWorker(h) /\ Heads(h) = {w}
  BY <1>1, HeadTask
<1> HIDE DEF r, h
<1>4. job'[w] = r /\ \A v \in Workers \ {w} : job'[v] = job[v]
  BY <1>1 DEF TypeOK
<1>5. TypeOK'
  <2>1. job' \in [Workers -> Seq(Tasks \cup Broadcasts)]
    BY <1>1 DEF TypeOK
  <2>2. ASSUME NEW k \in Tasks PROVE ran'[k] \in 0 .. 1
    BY <1>1, <1>2, <1>3 DEF TypeOK
  <2>3. ran' \in [Tasks -> 0 .. 1]
    BY <1>2, <2>2
  <2> QED BY <1>1, <2>1, <2>3 DEF ExecuteTask, TypeOK, loopVars, lifeVars
<1>6. JobsInv'
  <2>1. \A i \in 2 .. Len(r) : r[i] \in Broadcasts
    BY <1>1
  <2>2. at' = at
    BY DEF ExecuteTask
  <2> QED BY <1>1, <1>4, <2>1, <2>2 DEF IInv, JobsInv
<1>7. ASSUME NEW k \in Tasks PROVE Placed(k)'
  <2>1. WithCaller(k)' = WithCaller(k) /\ Queued(k)' = Queued(k) /\ tasks' = tasks /\ posted' = posted
    BY DEF ExecuteTask, WithCaller, Queued, loopVars
  <2>2. w \notin Heads(k)'
    <3>1. r # <<>> => r[1] \in Broadcasts
      BY <1>1, EmptySeq
    <3> QED BY <1>4, <3>1, ThreadsAssumption DEF Heads
  <2>3. CASE k = h
    <3>1. Heads(k)' = {}
      BY <1>3, <1>4, <2>2, <2>3 DEF Heads
    <3>2. ran'[k] = 1
      BY <1>2, <1>3, <2>3
    <3> QED BY <1>3, <2>1, <2>3, <3>1, <3>2 DEF AtWorker, Executed, Placed
  <2>4. CASE k # h
    <3>1. Heads(k)' = Heads(k)
      BY <1>4, <2>2, <2>4 DEF Heads, h
    <3>2. ran'[k] = ran[k]
      BY <1>2, <2>4
    <3> QED BY <2>1, <3>1, <3>2, PlaceStays DEF IInv, PlacesInv
  <2> QED BY <2>3, <2>4
<1> QED BY <1>5, <1>6, <1>7 DEF IInv, PlacesInv

\* A step that only moves workers that run nothing.
LEMMA WorkersMove ==
  ASSUME IInv, UNCHANGED <<tasks, job, call, posted, ran>>,
         \A w \in Workers : at'[w] = "running" \/ job[w] = <<>>
  PROVE  JobsInv' /\ PlacesInv'
<1>1. JobsInv'
  BY DEF IInv, JobsInv
<1>2. ASSUME NEW k \in Tasks PROVE Placed(k)'
  <2>1. WithCaller(k)' = WithCaller(k) /\ Queued(k)' = Queued(k) /\ Heads(k)' = Heads(k)
    BY DEF WithCaller, Queued, Heads
  <2> QED BY <2>1, PlaceStays DEF IInv, PlacesInv
<1> QED BY <1>1, <1>2 DEF PlacesInv

\* Steps that move no task.
LEMMA IdleStepHolds ==
  ASSUME IInv, NEW w \in Workers, Sleep(w) \/ SpuriousWake(w) \/ EndOfLoop(w)
  PROVE  IInv'
<1>1. /\ UNCHANGED <<tasks, threadTasks, shutdown, job, exiting, call, owned, destructor>>
      /\ UNCHANGED <<posted, ran, late>> /\ job[w] = <<>>
      /\ \E a \in {"check", "asleep", "ended"} : at' = [at EXCEPT ![w] = a]
  BY DEF Sleep, SpuriousWake, EndOfLoop, IInv, JobsInv, loopVars, lifeVars
<1>2. TypeOK'
  BY <1>1 DEF IInv, TypeOK
<1>3. \A v \in Workers : at'[v] = "running" \/ job[v] = <<>>
  BY <1>1 DEF IInv, TypeOK, JobsInv
<1> QED BY <1>1, <1>2, <1>3, WorkersMove DEF IInv

\* WakeAll lets who runs run.
LEMMA WakeAllMoves ==
  ASSUME IInv, at' = WakeAll
  PROVE  /\ at' \in [Workers -> {"check", "asleep", "running", "ended"}]
         /\ \A w \in Workers : at'[w] = "running" \/ job[w] = <<>>
BY DEF WakeAll, IInv, TypeOK, JobsInv

\* A broadcast gives every worker its thread task.
LEMMA PostTaskToAllWorkersHolds ==
  ASSUME IInv, NEW b \in Broadcasts, PostTaskToAllWorkers(b)
  PROVE  IInv'
<1>1. /\ threadTasks' = [w \in Workers |-> Append(threadTasks[w], b)]
      /\ UNCHANGED <<tasks, shutdown, job, exiting, call, owned, destructor, ran>>
      /\ posted' = posted \cup {b} /\ at' = WakeAll
      /\ late' = IF shutdown THEN late \cup {b} ELSE late
  BY DEF PostTaskToAllWorkers, lifeVars
<1>2. threadTasks' \in [Workers -> Seq(Broadcasts)]
  <2>1. \A w \in Workers : Append(threadTasks[w], b) \in Seq(Broadcasts)
    BY DEF IInv, TypeOK
  <2> QED BY <1>1, <2>1
<1>3. TypeOK'
  BY <1>1, <1>2, WakeAllMoves DEF IInv, TypeOK
<1>4. JobsInv'
  BY <1>1, WakeAllMoves DEF IInv, JobsInv
<1>5. ASSUME NEW k \in Tasks PROVE Placed(k)'
  <2>1. WithCaller(k)' = WithCaller(k) /\ Queued(k)' = Queued(k) /\ Heads(k)' = Heads(k)
    BY <1>1 DEF WithCaller, Queued, Heads
  <2>2. k \in posted' <=> k \in posted
    BY <1>1, ThreadsAssumption
  <2> QED BY <1>1, <2>1, <2>2, PlaceStays DEF IInv, PlacesInv
<1> QED BY <1>3, <1>4, <1>5 DEF IInv, PlacesInv

\* The owner, and the destructor.
LEMMA OwnerStepHolds ==
  ASSUME IInv, OwnerTerminates \/ OwnerReleases \/ DestructorTerminates \/ DestructorJoins
  PROVE  IInv'
<1>1. /\ UNCHANGED <<tasks, threadTasks, job, exiting, call, posted, ran, late>>
      /\ UNCHANGED at \/ at' = WakeAll
  BY DEF OwnerTerminates, OwnerReleases, DestructorTerminates, DestructorJoins, Terminate,
         loopVars, workerVars
<1>2. /\ at' \in [Workers -> {"check", "asleep", "running", "ended"}]
      /\ \A w \in Workers : at'[w] = "running" \/ job[w] = <<>>
  BY <1>1, WakeAllMoves DEF IInv, TypeOK, JobsInv
<1>3. shutdown' \in BOOLEAN /\ owned' \in BOOLEAN
  BY DEF OwnerTerminates, OwnerReleases, DestructorTerminates, DestructorJoins, Terminate,
         IInv, TypeOK, loopVars, lifeVars
<1>4. destructor' \in {NotDestroyed} \cup DestructorRecords
  <2>1. CASE OwnerTerminates
    BY <2>1 DEF OwnerTerminates, IInv, TypeOK, DestructorRecords, lifeVars
  <2>2. CASE OwnerReleases
    BY <2>2, DropTypes, ThreadsAssumption DEF OwnerReleases, IInv, Threads
  <2>3. CASE DestructorTerminates \/ DestructorJoins
    <3>1. destructor \in DestructorRecords
      BY <2>3 DEF DestructorTerminates, DestructorJoins, IInv, TypeOK, NotDestroyed,
         DestructorRecords
    <3>2. \E a \in {"join", "done"} : destructor' = [destructor EXCEPT !.at = a]
      BY <2>3 DEF DestructorTerminates, DestructorJoins
    <3> QED BY <3>1, <3>2 DEF DestructorRecords
  <2> QED BY <2>1, <2>2, <2>3
<1>5. TypeOK'
  BY <1>1, <1>2, <1>3, <1>4 DEF IInv, TypeOK, DestructorRecords
<1> QED BY <1>1, <1>2, <1>5, WorkersMove DEF IInv

\* The invariant holds initially ...
LEMMA InitHolds == Init => IInv
<1> SUFFICES ASSUME Init PROVE IInv
  OBVIOUS
<1>1. \A S : <<>> \in Seq(S)
  OBVIOUS
<1>2. TypeOK
  <2>1. tasks \in Seq(Tasks) /\ threadTasks \in [Workers -> Seq(Broadcasts)]
        /\ job \in [Workers -> Seq(Tasks \cup Broadcasts)]
    BY <1>1 DEF Init
  <2>2. call \in [Threads -> {NoCall} \cup CallRecords]
    BY DEF Init
  <2>3. ran \in [Tasks -> 0 .. 1] /\ exiting \in [Workers -> BOOLEAN]
        /\ at \in [Workers -> {"check", "asleep", "running", "ended"}]
    BY DEF Init
  <2> QED BY <2>1, <2>2, <2>3 DEF Init, TypeOK, CallRecords
<1>3. JobsInv
  BY DEF Init, JobsInv
<1>4. ASSUME NEW k \in Tasks PROVE Nowhere(k)
  BY DEF Init, Nowhere, WithCaller, Queued, Heads, NoCall
<1> QED BY <1>2, <1>3, <1>4 DEF IInv, PlacesInv, Placed

\* ... and every step preserves it.
LEMMA StepHolds ==
  ASSUME IInv, [Next]_vars
  PROVE  IInv'
<1>1. CASE UNCHANGED vars
  <2>1. UNCHANGED <<tasks, threadTasks, shutdown, at, job, exiting>>
    BY <1>1 DEF vars
  <2>2. UNCHANGED <<call, owned, destructor, posted, ran, late>>
    BY <1>1 DEF vars
  <2>3. TypeOK'
    BY <2>1, <2>2 DEF IInv, TypeOK
  <2>4. \A w \in Workers : at'[w] = "running" \/ job[w] = <<>>
    BY <2>1 DEF IInv, JobsInv
  <2> QED BY <2>1, <2>2, <2>3, <2>4, WorkersMove DEF IInv
<1>2. CASE \E t \in Threads, k \in Tasks : RunnerPostTask(t, k)
  BY <1>2, RunnerPostTaskHolds
<1>3. CASE \E t \in Threads : CallStep(t)
  BY <1>3, LoopPostTaskHolds, NotifyOneHolds, ExecuteInlineHolds, ReleaseHolds DEF CallStep
<1>4. CASE \E w \in Workers : WorkerStep(w) \/ SpuriousWake(w)
  BY <1>4, TakeHolds, ExecuteTaskHolds, IdleStepHolds DEF WorkerStep
<1>5. CASE \E b \in Broadcasts : PostTaskToAllWorkers(b)
  BY <1>5, PostTaskToAllWorkersHolds
<1>6. CASE OwnerTerminates \/ OwnerReleases \/ DestructorTerminates \/ DestructorJoins
  BY <1>6, OwnerStepHolds
<1> QED BY <1>1, <1>2, <1>3, <1>4, <1>5, <1>6 DEF Next

\* Every action keeps the invariant.
LEMMA IInvInvariant == Spec => []IInv
<1>1. IInv /\ [Next]_vars => IInv'
  BY StepHolds
<1> QED BY InitHolds, <1>1, PTL DEF Spec

(***************************************************************************)
(* Every variable of the loop keeps its type; a call of the task runner    *)
(* has a task until it returns, and no task has been executed twice.       *)
(***************************************************************************)
THEOREM TypeInvariant == Spec => []TypeOK
BY IInvInvariant, PTL DEF IInv

\* Where a task occurs in a job, it is the head; nowhere else.
LEMMA TakenIsHead ==
  ASSUME IInv, NEW k \in Tasks
  PROVE  TakenBy(k) = Heads(k)
<1> SUFFICES ASSUME NEW w \in Workers
             PROVE  InSeq(k, job[w]) > 0 <=> job[w] # <<>> /\ job[w][1] = k
  BY DEF TakenBy, Heads
<1> DEFINE S == {i \in DOMAIN job[w] : job[w][i] = k}
<1>1. /\ job[w] \in Seq(Tasks \cup Broadcasts) /\ Len(job[w]) \in Nat
      /\ DOMAIN job[w] = 1 .. Len(job[w])
      /\ \A i \in 2 .. Len(job[w]) : job[w][i] # k
  BY ThreadsAssumption DEF IInv, TypeOK, JobsInv
<1>2. S \subseteq {1} /\ (1 \in S <=> job[w] # <<>> /\ job[w][1] = k)
  BY <1>1, EmptySeq
<1>3. S = {} \/ S = {1}
  BY <1>2
<1>4. Cardinality({}) = 0 /\ Cardinality({1}) = 1
  BY FS_EmptySet, FS_Singleton
<1>5. InSeq(k, job[w]) = Cardinality(S)
  BY DEF InSeq
<1> HIDE DEF S
<1>6. CASE S = {}
  <2>1. InSeq(k, job[w]) = 0 /\ 1 \notin S
    BY <1>4, <1>5, <1>6
  <2> QED BY <1>2, <2>1
<1>7. CASE S = {1}
  <2>1. InSeq(k, job[w]) = 1 /\ 1 \in S
    BY <1>4, <1>5, <1>7
  <2> QED BY <1>2, <2>1
<1> QED BY <1>3, <1>6, <1>7

(***************************************************************************)
(* However many threads post, run tasks inline and work: a posted task is  *)
(* with one caller, in one place of tasks_ or taken by one worker, or has  *)
(* been executed once.                                                     *)
(***************************************************************************)
THEOREM EveryTaskOnceInvariant == Spec => []EveryTaskOnce
<1>1. IInv => EveryTaskOnce
  <2> SUFFICES ASSUME IInv, NEW k \in Tasks
               PROVE  Cardinality(WithCaller(k)) + InSeq(k, tasks) + Cardinality(TakenBy(k)) + ran[k]
                        = IF k \in posted THEN 1 ELSE 0
    BY DEF EveryTaskOnce
  <2>1. TakenBy(k) = Heads(k) /\ InSeq(k, tasks) = Cardinality(Queued(k))
    BY TakenIsHead DEF InSeq, Queued
  <2>2. Cardinality({}) = 0 /\ \A x : Cardinality({x}) = 1
    BY FS_EmptySet, FS_Singleton
  <2>3. Placed(k)
    BY DEF IInv, PlacesInv
  <2>4. CASE Nowhere(k) \/ Executed(k)
    BY <2>1, <2>2, <2>4 DEF Nowhere, Executed
  <2>5. CASE AtCaller(k)
    <3>1. /\ Cardinality(WithCaller(k)) = 1 /\ Cardinality(Queued(k)) = 0
          /\ Cardinality(Heads(k)) = 0 /\ ran[k] = 0 /\ k \in posted
      BY <2>2, <2>5 DEF AtCaller
    <3> QED BY <2>1, <3>1
  <2>6. CASE InQueue(k)
    <3>1. /\ Cardinality(WithCaller(k)) = 0 /\ Cardinality(Queued(k)) = 1
          /\ Cardinality(Heads(k)) = 0 /\ ran[k] = 0 /\ k \in posted
      BY <2>2, <2>6 DEF InQueue
    <3> QED BY <2>1, <3>1
  <2>7. CASE AtWorker(k)
    <3>1. /\ Cardinality(WithCaller(k)) = 0 /\ Cardinality(Queued(k)) = 0
          /\ Cardinality(Heads(k)) = 1 /\ ran[k] = 0 /\ k \in posted
      BY <2>2, <2>7 DEF AtWorker
    <3> QED BY <2>1, <3>1
  <2> QED BY <2>3, <2>4, <2>5, <2>6, <2>7 DEF Placed
<1> QED BY <1>1, IInvInvariant, PTL

-----------------------------------------------------------------------------
(* The loop implements the Executor, but for its fairness.                 *)

\* A step that neither posts nor executes a task is a shutdown or nothing.
LEMMA QuietStep ==
  ASSUME UNCHANGED ran, posted' \cap Tasks = posted \cap Tasks, shutdown' = TRUE \/ UNCHANGED shutdown
  PROVE  [Promise!Next]_(Promise!vars)
BY DEF Promise!Next, Promise!Close, Promise!vars

\* The execution of a posted task that was not executed.
LEMMA ExecuteStep ==
  ASSUME NEW k \in Tasks, k \in posted, ran \in [Tasks -> 0 .. 1], ran[k] = 0,
         ran' = [ran EXCEPT ![k] = 1], UNCHANGED <<posted, shutdown>>
  PROVE  Promise!Next
<1>1. {j \in Tasks : ran'[j] = 1} = {j \in Tasks : ran[j] = 1} \cup {k}
  OBVIOUS
<1>2. Promise!Execute(k)
  BY <1>1 DEF Promise!Execute
<1> QED BY <1>2 DEF Promise!Next

\* Each step is a step of Executor, or none.
LEMMA ExecutorStep ==
  ASSUME IInv, [Next]_vars
  PROVE  [Promise!Next]_(Promise!vars)
<1>1. CASE UNCHANGED vars
  BY <1>1, QuietStep DEF vars
<1>2. ASSUME NEW t \in Threads, NEW k \in Tasks, RunnerPostTask(t, k)
      PROVE  Promise!Next
  <2>1. /\ k \in Tasks \ (posted \cap Tasks)
        /\ posted' \cap Tasks = (posted \cap Tasks) \cup {k}
        /\ UNCHANGED <<ran, shutdown>>
    BY <1>2 DEF RunnerPostTask, loopVars
  <2>2. Promise!Post(k)
    BY <2>1 DEF Promise!Post
  <2> QED BY <2>2 DEF Promise!Next
<1>3. ASSUME NEW t \in Threads, CallStep(t)
      PROVE  [Promise!Next]_(Promise!vars)
  <2>1. CASE LoopPostTask(t) \/ NotifyOne(t) \/ Release(t)
    BY <2>1, QuietStep DEF LoopPostTask, NotifyOne, Release, loopVars
  <2>2. CASE ExecuteInline(t)
    <3>1. /\ call[t].task \in Tasks /\ call[t].task \in posted
          /\ ran[call[t].task] = 0 /\ ran \in [Tasks -> 0 .. 1]
      BY <2>2, InlineTask DEF IInv, TypeOK
    <3>2. ran' = [ran EXCEPT ![call[t].task] = 1] /\ UNCHANGED <<posted, shutdown>>
      BY <2>2, <3>1 DEF ExecuteInline, loopVars
    <3> QED BY <3>1, <3>2, ExecuteStep
  <2> QED BY <1>3, <2>1, <2>2 DEF CallStep
<1>4. ASSUME NEW w \in Workers, WorkerStep(w) \/ SpuriousWake(w)
      PROVE  [Promise!Next]_(Promise!vars)
  <2>1. CASE Sleep(w) \/ SpuriousWake(w) \/ Take(w) \/ EndOfLoop(w)
    BY <2>1, QuietStep DEF Sleep, SpuriousWake, Take, EndOfLoop, loopVars
  <2>2. CASE ExecuteTask(w)
    <3>1. /\ job[w] # <<>> /\ Head(job[w]) = job[w][1] /\ ran \in [Tasks -> 0 .. 1]
          /\ ran' = [k \in Tasks |-> IF k = job[w][1] THEN ran[k] + 1 ELSE ran[k]]
          /\ UNCHANGED <<posted, shutdown>>
      BY <2>2, JobTail DEF ExecuteTask, IInv, TypeOK, loopVars
    <3>2. CASE job[w][1] \in Tasks
      <4>1. job[w][1] \in posted /\ ran[job[w][1]] = 0
        BY <3>1, <3>2, HeadTask
      <4>2. ran' = [ran EXCEPT ![job[w][1]] = 1]
        <5> DEFINE h == job[w][1]
        <5>1. ran' = [k \in Tasks |-> IF k = h THEN ran[k] + 1 ELSE ran[k]]
          BY <3>1
        <5>2. ran[h] + 1 = 1 /\ ran \in [Tasks -> 0 .. 1]
          BY <3>1, <4>1
        <5> HIDE DEF h
        <5>3. ran' = [k \in Tasks |-> IF k = h THEN 1 ELSE ran[k]]
          BY <5>1, <5>2
        <5>4. ran' = [ran EXCEPT ![h] = 1]
          BY <5>2, <5>3
        <5> QED BY <5>4 DEF h
      <4> QED BY <3>1, <3>2, <4>1, <4>2, ExecuteStep
    <3>3. CASE job[w][1] \notin Tasks
      <4>1. UNCHANGED ran
        BY <3>1, <3>3
      <4> QED BY <3>1, <4>1, QuietStep
    <3> QED BY <3>2, <3>3
  <2> QED BY <1>4, <2>1, <2>2 DEF WorkerStep
<1>5. ASSUME NEW b \in Broadcasts, PostTaskToAllWorkers(b)
      PROVE  [Promise!Next]_(Promise!vars)
  <2>1. posted' \cap Tasks = posted \cap Tasks /\ UNCHANGED <<ran, shutdown>>
    BY <1>5, ThreadsAssumption DEF PostTaskToAllWorkers
  <2> QED BY <2>1, QuietStep
<1>6. CASE OwnerTerminates \/ OwnerReleases \/ DestructorTerminates \/ DestructorJoins
  BY <1>6, QuietStep DEF OwnerTerminates, OwnerReleases, DestructorTerminates, DestructorJoins,
                         Terminate, loopVars
<1> QED BY <1>1, <1>2, <1>3, <1>4, <1>5, <1>6 DEF Next

(***************************************************************************)
(* Every step of the loop, its callers and its workers is a step of the    *)
(* Executor that ConcurrentTaskRunner promises, or none: a task is posted  *)
(* once, and executed at most once and only after it was posted.           *)
(***************************************************************************)
THEOREM LoopRefinesExecutor == Spec => Promise!SafeSpec
<1>1. Init => Promise!Init
  BY DEF Init, Promise!Init
<1>2. IInv /\ [Next]_vars => [Promise!Next]_(Promise!vars)
  BY ExecutorStep
<1> QED BY <1>1, <1>2, IInvInvariant, PTL DEF Spec, Promise!SafeSpec

-----------------------------------------------------------------------------
(* No worker sleeps through a task.                                        *)

Notifying == {t \in Threads : call[t].at = "notify"}
Looking == {w \in Workers : at[w] = "check"}

\* The bound makes sense: the callers about to notify are finitely many.
AwakeInv == IsFiniteSet(Notifying) /\ NoTaskWithoutWorker

\* The workers about to look are finitely many.
LEMMA LookingFinite == IsFiniteSet(Looking) /\ IsFiniteSet(Looking')
BY FS_Subset, ThreadsAssumption DEF Looking

\* A step that neither posts nor notifies, nor makes a worker stop looking.
LEMMA BoundGrows ==
  ASSUME TypeOK, AwakeInv, tasks' = tasks, Notifying' = Notifying,
         Looking \subseteq Looking', Asleep' # {} => Asleep # {}
  PROVE  AwakeInv'
<1>1. Cardinality(Looking) <= Cardinality(Looking')
  BY LookingFinite, FS_Subset
<1>2. Cardinality(Notifying) \in Nat /\ Cardinality(Looking) \in Nat /\ Cardinality(Looking') \in Nat
  BY LookingFinite, FS_CardinalityType DEF AwakeInv
<1>3. Len(tasks) \in Nat
  BY DEF TypeOK
<1>4. Asleep # {} => Len(tasks) <= Cardinality(Notifying) + Cardinality(Looking)
  BY DEF AwakeInv, NoTaskWithoutWorker, Notifying, Looking
<1>5. Asleep' # {} => Len(tasks)' <= Cardinality(Notifying)' + Cardinality(Looking)'
  BY <1>1, <1>2, <1>3, <1>4
<1> QED BY <1>5 DEF AwakeInv, NoTaskWithoutWorker, Notifying, Looking

\* What the bound says, and that it is one of natural numbers.
LEMMA Bound ==
  ASSUME TypeOK, AwakeInv
  PROVE  /\ Cardinality(Notifying) \in Nat /\ Cardinality(Looking) \in Nat /\ Len(tasks) \in Nat
         /\ Asleep # {} => Len(tasks) <= Cardinality(Notifying) + Cardinality(Looking)
<1>1. Cardinality(Notifying) \in Nat /\ Cardinality(Looking) \in Nat
  BY LookingFinite, FS_CardinalityType DEF AwakeInv
<1>2. Len(tasks) \in Nat
  BY DEF TypeOK
<1> QED BY <1>1, <1>2 DEF AwakeInv, NoTaskWithoutWorker, Notifying, Looking

\* A task is queued by a caller that has yet to notify.
LEMMA LoopPostTaskAwake ==
  ASSUME TypeOK, AwakeInv, NEW t \in Threads, LoopPostTask(t)
  PROVE  AwakeInv'
<1>1. /\ call[t].at = "lock" /\ UNCHANGED at
      /\ call'[t].at = IF shutdown THEN "inline" ELSE "notify"
      /\ \A u \in Threads \ {t} : call'[u] = call[u]
  <2>1. call[t].at = "lock" /\ UNCHANGED at
    BY DEF LoopPostTask, workerVars
  <2>2. call[t] \in CallRecords
    BY <2>1, CallTypes
  <2> QED BY <2>1, <2>2 DEF LoopPostTask, TypeOK, CallRecords
<1>2. Looking' = Looking /\ Asleep' = Asleep
  BY <1>1 DEF Looking, Asleep
<1>3. CASE shutdown
  <2>1. Notifying' = Notifying
    BY <1>1, <1>3 DEF Notifying
  <2>2. tasks' = tasks
    BY <1>3 DEF LoopPostTask
  <2> QED BY <1>2, <2>1, <2>2, BoundGrows
<1>4. CASE ~shutdown
  <2>1. Notifying' = Notifying \cup {t} /\ t \notin Notifying
    BY <1>1, <1>4 DEF Notifying
  <2>2. IsFiniteSet(Notifying') /\ Cardinality(Notifying') = Cardinality(Notifying) + 1
    BY <2>1, FS_AddElement DEF AwakeInv
  <2>3. Len(tasks') = Len(tasks) + 1
    BY <1>1, <1>4, CallTypes DEF LoopPostTask, TypeOK
  <2>4. Asleep' # {} => Len(tasks') <= Cardinality(Notifying') + Cardinality(Looking')
    BY <1>2, <2>2, <2>3, Bound
  <2> QED BY <2>2, <2>4 DEF AwakeInv, NoTaskWithoutWorker, Notifying, Looking
<1> QED BY <1>3, <1>4

\* A notification is traded for a worker that looks, if any sleeps.
LEMMA NotifyOneAwake ==
  ASSUME TypeOK, AwakeInv, NEW t \in Threads, NotifyOne(t)
  PROVE  AwakeInv'
<1>1. /\ call[t].at = "notify" /\ tasks' = tasks /\ call'[t].at = "release"
      /\ \A u \in Threads \ {t} : call'[u] = call[u]
  <2>1. call[t].at = "notify" /\ tasks' = tasks
    BY DEF NotifyOne, loopVars
  <2>2. call[t] \in CallRecords
    BY <2>1, CallTypes
  <2> QED BY <2>1, <2>2 DEF NotifyOne, TypeOK, CallRecords
<1>2. Notifying' = Notifying \ {t} /\ t \in Notifying
  BY <1>1 DEF Notifying
<1>3. IsFiniteSet(Notifying') /\ Cardinality(Notifying') = Cardinality(Notifying) - 1
  BY <1>2, FS_RemoveElement DEF AwakeInv
<1>4. CASE Asleep = {} /\ UNCHANGED at
  <2>1. Asleep' = {}
    BY <1>4 DEF Asleep
  <2> QED BY <1>3, <2>1 DEF AwakeInv, NoTaskWithoutWorker
<1>5. CASE \E w \in Asleep : at' = [at EXCEPT ![w] = "check"]
  <2>1. PICK w \in Asleep : at' = [at EXCEPT ![w] = "check"]
    BY <1>5
  <2>2. Looking' = Looking \cup {w} /\ w \notin Looking
    BY <2>1 DEF Looking, Asleep, TypeOK
  <2>3. Cardinality(Looking') = Cardinality(Looking) + 1
    BY <2>2, LookingFinite, FS_AddElement
  <2>4. Len(tasks') <= Cardinality(Notifying') + Cardinality(Looking')
    BY <1>1, <1>3, <2>1, <2>3, Bound
  <2> QED BY <1>3, <2>4 DEF AwakeInv, NoTaskWithoutWorker, Notifying, Looking
<1> QED BY <1>4, <1>5 DEF NotifyOne

\* The other steps of a call are not about notifications.
LEMMA OtherCallAwake ==
  ASSUME TypeOK, AwakeInv, NEW t \in Threads,
         ExecuteInline(t) \/ Release(t) \/ \E k \in Tasks : RunnerPostTask(t, k)
  PROVE  AwakeInv'
<1>1. /\ UNCHANGED <<tasks, at>> /\ call[t].at # "notify"
      /\ \E c : c.at # "notify" /\ call' = [call EXCEPT ![t] = c]
  <2>1. CASE ExecuteInline(t)
    <3>1. call[t].at \in {"inline", "orphan"} /\ call[t] \in CallRecords
      BY <2>1, CallTypes DEF ExecuteInline
    <3> DEFINE c == IF HoldsLoop(t) THEN [call[t] EXCEPT !.at = "release"] ELSE NoCall
    <3>2. c.at # "notify" /\ call' = [call EXCEPT ![t] = c]
      BY <2>1, <3>1 DEF ExecuteInline, NoCall, CallRecords, TypeOK
    <3> QED BY <2>1, <3>1, <3>2 DEF ExecuteInline, loopVars, workerVars
  <2>2. CASE Release(t)
    <3>1. NoCall.at # "notify"
      BY DEF NoCall
    <3> QED BY <2>2, <3>1 DEF Release, loopVars, workerVars
  <2>3. ASSUME NEW k \in Tasks, RunnerPostTask(t, k)
        PROVE  /\ UNCHANGED <<tasks, at>> /\ call[t].at # "notify"
               /\ \E c : c.at # "notify" /\ call' = [call EXCEPT ![t] = c]
    <3> DEFINE c == [at |-> IF Alive THEN "lock" ELSE "orphan", task |-> k]
    <3>1. c.at # "notify" /\ call' = [call EXCEPT ![t] = c]
      BY <2>3 DEF RunnerPostTask
    <3> QED BY <2>3, <3>1 DEF RunnerPostTask, Free, Calling, loopVars, workerVars
  <2> QED BY <2>1, <2>2, <2>3
<1>2. Notifying' = Notifying
  BY <1>1 DEF Notifying, TypeOK
<1>3. Looking' = Looking /\ Asleep' = Asleep
  BY <1>1 DEF Looking, Asleep
<1> QED BY <1>1, <1>2, <1>3, BoundGrows

\* A worker stops looking with a task, or when there is none.
LEMMA WorkerAwake ==
  ASSUME TypeOK, AwakeInv, NEW w \in Workers, WorkerStep(w) \/ SpuriousWake(w)
  PROVE  AwakeInv'
<1>1. CASE Sleep(w)
  <2>1. tasks' = <<>> /\ Notifying' = Notifying /\ Len(<<>>) = 0
    BY <1>1 DEF Sleep, Due, Notifying, loopVars
  <2>2. Cardinality(Notifying') \in Nat /\ Cardinality(Looking') \in Nat
    BY <2>1, LookingFinite, FS_CardinalityType DEF AwakeInv
  <2>3. Len(tasks') <= Cardinality(Notifying') + Cardinality(Looking')
    BY <2>1, <2>2
  <2> QED BY <2>1, <2>3 DEF AwakeInv, NoTaskWithoutWorker, Notifying, Looking
<1>2. CASE Take(w)
  <2>1. /\ Notifying' = Notifying /\ at[w] = "check" /\ at' = [at EXCEPT ![w] = "running"]
        /\ tasks' = SubSeq(tasks, 2, Len(tasks))
    BY <1>2 DEF Take, Notifying
  <2>2. Looking' = Looking \ {w} /\ w \in Looking /\ Asleep' = Asleep
    BY <2>1 DEF Looking, Asleep, TypeOK
  <2>3. Cardinality(Looking') = Cardinality(Looking) - 1
    BY <2>2, LookingFinite, FS_RemoveElement
  <2>4. Cardinality(Looking') \in Nat
    BY LookingFinite, FS_CardinalityType
  <2>5. Len(tasks') = 0 \/ Len(tasks') = Len(tasks) - 1
    <3> DEFINE q == SubSeq(tasks, 2, Len(tasks))
               j == FirstTask \o threadTasks[w]
    <3>1. (tasks = <<>> => q = <<>>) /\ (tasks # <<>> => Len(q) = Len(tasks) - 1)
      BY Taken
    <3> QED BY <2>1, <3>1, EmptySeq
  <2>6. Asleep' # {} => Len(tasks') <= Cardinality(Notifying') + Cardinality(Looking')
    BY <2>1, <2>2, <2>3, <2>4, <2>5, Bound
  <2> QED BY <2>1, <2>6 DEF AwakeInv, NoTaskWithoutWorker, Notifying, Looking
<1>3. CASE SpuriousWake(w) \/ ExecuteTask(w) \/ EndOfLoop(w)
  <2>1. tasks' = tasks /\ Notifying' = Notifying
    BY <1>3 DEF SpuriousWake, ExecuteTask, EndOfLoop, Notifying, loopVars
  <2>2. \/ UNCHANGED at
        \/ at[w] # "check" /\ \E a \in {"check", "ended"} : at' = [at EXCEPT ![w] = a]
    BY <1>3 DEF SpuriousWake, ExecuteTask, EndOfLoop
  <2>3. Looking \subseteq Looking' /\ Asleep' \subseteq Asleep
    BY <2>2 DEF Looking, Asleep, TypeOK
  <2> QED BY <2>1, <2>3, BoundGrows
<1> QED BY <1>1, <1>2, <1>3 DEF WorkerStep

\* A broadcast and a termination leave nobody asleep.
LEMMA OwnerAwake ==
  ASSUME TypeOK, AwakeInv,
         \/ \E b \in Broadcasts : PostTaskToAllWorkers(b)
         \/ OwnerTerminates \/ OwnerReleases \/ DestructorTerminates \/ DestructorJoins
  PROVE  AwakeInv'
<1>1. tasks' = tasks /\ call' = call /\ (UNCHANGED at \/ at' = WakeAll)
  BY DEF PostTaskToAllWorkers, OwnerTerminates, OwnerReleases, DestructorTerminates,
         DestructorJoins, Terminate, loopVars, workerVars
<1>2. Notifying' = Notifying /\ Looking \subseteq Looking' /\ Asleep' \subseteq Asleep
  BY <1>1 DEF Notifying, Looking, Asleep, WakeAll
<1> QED BY <1>1, <1>2, BoundGrows

(***************************************************************************)
(* While a worker sleeps, there is for every queued task a notify_one to   *)
(* come or a worker about to look: PostTask may notify after it has        *)
(* released tasks_mutex_, and one at a time, and no wake-up is lost.       *)
(***************************************************************************)
THEOREM NoTaskWithoutWorkerInvariant == Spec => []NoTaskWithoutWorker
<1>1. Init => AwakeInv
  <2> SUFFICES ASSUME Init PROVE AwakeInv
    OBVIOUS
  <2>1. Notifying = {} /\ Asleep = {}
    BY DEF Init, Notifying, Asleep, NoCall
  <2> QED BY <2>1, FS_EmptySet DEF AwakeInv, NoTaskWithoutWorker
<1>2. TypeOK /\ AwakeInv /\ [Next]_vars => AwakeInv'
  <2> SUFFICES ASSUME TypeOK, AwakeInv, [Next]_vars PROVE AwakeInv'
    OBVIOUS
  <2>1. CASE UNCHANGED vars
    BY <2>1 DEF vars, AwakeInv, NoTaskWithoutWorker, Notifying, Asleep
  <2>2. CASE \E t \in Threads : CallStep(t) \/ \E k \in Tasks : RunnerPostTask(t, k)
    BY <2>2, LoopPostTaskAwake, NotifyOneAwake, OtherCallAwake DEF CallStep
  <2> QED BY <2>1, <2>2, WorkerAwake, OwnerAwake DEF Next
<1> QED BY <1>1, <1>2, TypeInvariant, PTL DEF Spec, AwakeInv
=============================================================================

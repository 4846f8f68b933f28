--------------------------- MODULE PipelinesProofs ---------------------------
(***************************************************************************)
(* Proofs about Pipelines.  The inductive invariant says where each job    *)
(* is, which task each thread executes, and that keys and tasks are never  *)
(* used again.                                                             *)
(***************************************************************************)
EXTENDS Pipelines, FiniteSetTheorems, TLAPS

Records ==
  [at: {"idle", "post", "announce", "take", "run", "perform", "wait", "ended"},
   job: Jobs \cup {None}, task: Tasks \cup {None},
   locks: SUBSET {"pipelines", "pending"}, future: Jobs \cup {None}, eager: BOOLEAN]

\* What a thread is at says what it has in hand, given the tasks of the pool
\* that are posted and not executed.
ThreadOK(r, open) ==
  /\ r.at \in {"post", "announce", "run"} => r.job \in Jobs
  /\ r.at \in {"perform", "wait"} \/ r.eager => r.future \in Jobs
  /\ r.at = "perform" => r.future.desc \in Graphics
  /\ r.task # None =>
       /\ r.task \in open
       /\ \/ r.at = "take" /\ r.task.kind = "one"
          \/ r.at = "run" /\ (r.task.kind = "job" => r.task.job = r.job)

\* A task of the pool is executed by one thread.
ThreadsInv ==
  /\ \A t \in Threads : ThreadOK(thread[t], posted \ executed)
  /\ \A t, u \in Threads : thread[t].task # None /\ thread[t].task = thread[u].task => t = u

\* Jobs come to the queue and to the pool while the Context is alive; the pool
\* is joined before what it left is destroyed.
LifeInv ==
  /\ \A t \in Threads : thread[t].at \in {"post", "announce"} => t \in Clients /\ life = "alive"
  /\ life \in {"finishing", "gone"} => \A w \in Workers : thread[w].at = "ended"

PendingInv == \A d \in Graphics : pending[d] # None => pending[d].desc = d

\* The jobs there have been, whose keys NextKey has passed.
Existing == {j \in Jobs : promise[j] # "none"}
KeysInv == IsFiniteSet(Existing) /\ \A j \in Existing : j.key <= Cardinality(Existing)

\* A job is carried by one thread, or in the queue, or in a pool that lives, as
\* long as its promise is unset.
Waits(j) == InPool(j) /\ life \in {"alive", "joining"}
Nowhere(j) == CarriedBy(j) = {} /\ ~Queued(j) /\ ~Waits(j)
Carried(j) == (\E t \in Threads : CarriedBy(j) = {t}) /\ ~Queued(j) /\ ~Waits(j)
InQueue(j) == CarriedBy(j) = {} /\ Queued(j) /\ ~Waits(j)
WithPool(j) == CarriedBy(j) = {} /\ ~Queued(j) /\ Waits(j)
Placed(j) ==
  \/ promise[j] # "unset" /\ Nowhere(j)
  \/ promise[j] = "unset" /\ (Carried(j) \/ InQueue(j) \/ WithPool(j))
JobsInv == \A j \in Jobs : Placed(j)

\* The sets QueuedJobsHaveTakers counts.
Pending == {d \in Graphics : pending[d] # None}
Takers == {k \in Unstarted : k.kind = "one"}
Taking == {t \in Threads : thread[t].at \in {"announce", "take"}}

TakersInv ==
  /\ IsFiniteSet(posted) /\ IsFiniteSet(Pending)
  /\ QueuedJobsHaveTakers

IInv == TypeOK /\ ThreadsInv /\ LifeInv /\ PendingInv /\ KeysInv /\ JobsInv /\ TakersInv

-----------------------------------------------------------------------------
(* What a step of one thread does to the sets the invariant speaks of.     *)

\* A thread gets a new record, and no other does.
LEMMA SetThread ==
  ASSUME TypeOK, NEW t \in Threads, NEW r \in Records, Set(t, r)
  PROVE  /\ thread' \in [Threads -> Records] /\ thread'[t] = r
         /\ \A u \in Threads \ {t} : thread'[u] = thread[u]
BY DEF Set, TypeOK, Records

\* What a thread does is a record.
LEMMA ThreadRecord ==
  ASSUME TypeOK, NEW t \in Threads
  PROVE  thread[t] \in Records
BY DEF TypeOK, Records

\* An idle thread has nothing.
LEMMA IdleRecord ==
  /\ Idle \in Records
  /\ Idle.at = "idle" /\ Idle.job = None /\ Idle.task = None /\ Idle.locks = {}
  /\ Idle.future = None /\ Idle.eager = FALSE
BY DEF Idle, Records

\* A call that returns leaves the thread without job and task.
LEMMA ReturnedRecord ==
  ASSUME TypeOK, NEW t \in Threads
  PROVE  LET r == Returned(t) IN
         /\ r \in Records
         /\ r.at \in {"idle", "wait"} /\ r.job = None /\ r.task = None
         /\ r.future = thread[t].future /\ r.eager = thread[t].eager
         /\ r.at = "wait" => thread[t].eager
<1> DEFINE r == Returned(t)
           a == IF thread[t].at \in {"run", "perform"} /\ thread[t].eager THEN "wait" ELSE "idle"
<1>1. thread[t] \in Records
  BY ThreadRecord
<1>2. a \in {"idle", "wait"} /\ (a = "wait" => thread[t].eager)
  OBVIOUS
<1>3. r = [thread[t] EXCEPT !.at = a, !.job = None, !.task = None, !.locks = {}]
  BY <1>1 DEF Returned
<1> HIDE DEF a, r
<1>4. /\ r.at = a /\ r.job = None /\ r.task = None /\ r.locks = {}
      /\ r.future = thread[t].future /\ r.eager = thread[t].eager
  BY <1>1, <1>3 DEF Records
<1>5. r \in Records
  BY <1>1, <1>2, <1>3 DEF Records
<1> QED BY <1>2, <1>4, <1>5 DEF r

\* Who carries a job after the step of a thread.
LEMMA CarriedMoves ==
  ASSUME NEW t \in Threads, NEW r, thread'[t] = r, NEW j,
         \A u \in Threads \ {t} : thread'[u] = thread[u]
  PROVE  CarriedBy(j)' = IF r.job = j /\ r.at \in {"post", "run"}
                         THEN CarriedBy(j) \cup {t} ELSE CarriedBy(j) \ {t}
BY DEF CarriedBy

\* A job none of whose places changes.
LEMMA PlaceStays ==
  ASSUME NEW j, Placed(j), CarriedBy(j)' = CarriedBy(j), Queued(j)' <=> Queued(j),
         Waits(j)' <=> Waits(j), promise[j]' = promise[j]
  PROVE  Placed(j)'
BY DEF Placed, Nowhere, Carried, InQueue, WithPool

\* The tasks of the pool nobody has begun: a step that leaves the pool and the
\* thread's task alone ...
LEMMA UnstartedStays ==
  ASSUME NEW t \in Threads, UNCHANGED poolVars, thread'[t].task = thread[t].task,
         \A u \in Threads \ {t} : thread'[u] = thread[u]
  PROVE  Unstarted' = Unstarted
BY DEF Unstarted, poolVars

\* ... the end of the thread's task ...
LEMMA UnstartedAtEnd ==
  ASSUME TypeOK, ThreadsInv, NEW t \in Threads, EndTask(t), thread'[t].task = None,
         \A u \in Threads \ {t} : thread'[u] = thread[u]
  PROVE  Unstarted' = Unstarted /\ posted' = posted
<1>1. CASE thread[t].task = None
  BY <1>1, UnstartedStays DEF EndTask, poolVars
<1>2. CASE thread[t].task # None
  <2> DEFINE k == thread[t].task
  <2>1. posted' = posted /\ executed' = executed \cup {k} /\ k \in posted
    BY <1>2 DEF EndTask, Pool!Execute
  <2>2. \A u \in Threads \ {t} : thread[u].task # k
    BY <1>2 DEF ThreadsInv
  <2>3. \A x \in posted : x # None
    BY NoneAssumption DEF TypeOK
  <2>4. Unstarted' \subseteq Unstarted
    BY <2>1, <2>3 DEF Unstarted
  <2>5. Unstarted \subseteq Unstarted'
    BY <2>1, <2>3 DEF Unstarted
  <2> QED BY <2>1, <2>4, <2>5
<1> QED BY <1>1, <1>2

\* ... a task begun by a thread that had none ...
LEMMA UnstartedAtStart ==
  ASSUME TypeOK, NEW t \in Threads, UNCHANGED poolVars, thread[t].task = None,
         NEW k, thread'[t].task = k, \A u \in Threads \ {t} : thread'[u] = thread[u]
  PROVE  Unstarted' = Unstarted \ {k}
<1>1. \A x \in posted : x # None
  BY NoneAssumption DEF TypeOK
<1>2. posted' = posted /\ executed' = executed
  BY DEF poolVars
<1>3. \A x : x \in Unstarted' <=> x \in Unstarted \ {k}
  BY <1>1, <1>2 DEF Unstarted
<1> QED BY <1>3

\* ... and a task posted, to the pool or to its caller.
LEMMA UnstartedAtPost ==
  ASSUME TypeOK, ThreadsInv, NEW t \in Threads, NEW k \in Tasks, Pool!Post(k), thread[t].task = None,
         thread'[t].task \in {None, k}, \A u \in Threads \ {t} : thread'[u] = thread[u]
  PROVE  /\ k \notin posted /\ posted' = posted \cup {k} /\ executed' = executed
         /\ \A u \in Threads : thread[u].task # k
         /\ Unstarted' = IF thread'[t].task = k THEN Unstarted ELSE Unstarted \cup {k}
<1>1. k \notin posted /\ posted' = posted \cup {k} /\ executed' = executed
  BY DEF Pool!Post
<1>2. k # None
  BY NoneAssumption
<1>3. \A u \in Threads : thread[u].task # k
  BY <1>1, <1>2 DEF ThreadsInv, ThreadOK
<1>4. k \notin executed
  BY <1>1 DEF TypeOK
<1>5. CASE thread'[t].task = k
  <2>1. \A x \in posted : x # None
    BY NoneAssumption DEF TypeOK
  <2>2. Unstarted' \subseteq Unstarted
    <3>1. \A x \in Unstarted' : x \in posted' /\ x \notin executed /\ x # k
      BY <1>1, <1>5 DEF Unstarted
    <3>2. \A x \in Unstarted' : x \in posted
      BY <1>1, <3>1
    <3> QED BY <2>1, <3>1, <3>2 DEF Unstarted
  <2>3. Unstarted \subseteq Unstarted'
    <3>1. \A x \in Unstarted : x \in posted /\ x # k
      BY <1>1 DEF Unstarted
    <3> QED BY <1>1, <1>5, <3>1 DEF Unstarted
  <2> QED BY <1>1, <1>3, <1>5, <2>2, <2>3
<1>6. CASE thread'[t].task = None
  BY <1>1, <1>2, <1>3, <1>4, <1>6 DEF Unstarted
<1> QED BY <1>1, <1>2, <1>3, <1>5, <1>6

\* ThreadsInv after the step of a thread.
LEMMA ThreadsMove ==
  ASSUME ThreadsInv, NEW t \in Threads, NEW r, thread'[t] = r,
         \A u \in Threads \ {t} : thread'[u] = thread[u],
         ThreadOK(r, posted' \ executed'),
         \A u \in Threads \ {t} : r.task # None => thread[u].task # r.task,
         \A x \in posted \ executed : x # thread[t].task => x \in posted' \ executed'
  PROVE  ThreadsInv'
<1>1. ASSUME NEW u \in Threads PROVE ThreadOK(thread'[u], posted' \ executed')
  <2>1. CASE u = t
    BY <2>1
  <2>2. CASE u # t
    <3>1. thread'[u] = thread[u] /\ ThreadOK(thread[u], posted \ executed)
      BY <2>2 DEF ThreadsInv
    <3>2. thread[u].task # None => thread[u].task # thread[t].task
      BY <2>2 DEF ThreadsInv
    <3> QED BY <3>1, <3>2 DEF ThreadOK
  <2> QED BY <2>1, <2>2
<1>2. \A u, v \in Threads : thread'[u].task # None /\ thread'[u].task = thread'[v].task => u = v
  BY DEF ThreadsInv
<1> QED BY <1>1, <1>2 DEF ThreadsInv

\* LifeInv after the step of a thread: who has ended does nothing.
LEMMA LifeMoves ==
  ASSUME LifeInv, NEW t \in Threads, NEW r, thread'[t] = r,
         \A u \in Threads \ {t} : thread'[u] = thread[u],
         thread[t].at = "ended" => r.at = "ended", life' = life,
         r.at \in {"post", "announce"} => t \in Clients /\ life = "alive"
  PROVE  LifeInv'
<1>1. ASSUME NEW u \in Threads, thread'[u].at \in {"post", "announce"}
      PROVE  u \in Clients /\ life' = "alive"
  BY <1>1 DEF LifeInv
<1>2. ASSUME life' \in {"finishing", "gone"}, NEW w \in Workers PROVE thread'[w].at = "ended"
  <2>1. thread[w].at = "ended" /\ w \in Threads
    BY <1>2 DEF LifeInv, Threads
  <2> QED BY <2>1
<1> QED BY <1>1, <1>2 DEF LifeInv

\* The types after the step of a thread.
LEMMA TypesMove ==
  ASSUME TypeOK, NEW t \in Threads, NEW r \in Records, Set(t, r),
         pipelines' \in [Descriptors -> Jobs \cup {None}], pending' \in [Graphics -> Jobs \cup {None}],
         promise' \in [Jobs -> {"none", "unset", "set", "broken"}], life' = life, closed' = closed,
         posted' \in SUBSET Tasks, executed' \in SUBSET posted'
  PROVE  TypeOK'
<1>1. thread' \in [Threads -> Records]
  BY SetThread
<1> QED BY <1>1 DEF TypeOK, Records

\* The sets the bound is about are finite, as long as posted and Pending are.
LEMMA BoundTypes ==
  ASSUME IsFiniteSet(posted), IsFiniteSet(Pending)
  PROVE  /\ IsFiniteSet(Takers) /\ IsFiniteSet(Taking)
         /\ Cardinality(Takers) \in Nat /\ Cardinality(Taking) \in Nat /\ Cardinality(Pending) \in Nat
<1>1. Takers \subseteq posted
  BY DEF Takers, Unstarted
<1>2. IsFiniteSet(Threads)
  BY ThreadsAssumption, FS_AddElement DEF Threads
<1>3. Taking \subseteq Threads
  BY DEF Taking
<1>4. IsFiniteSet(Takers) /\ IsFiniteSet(Taking)
  BY <1>1, <1>2, <1>3, FS_Subset
<1> QED BY <1>4, FS_CardinalityType

\* Who takes jobs after the step of a thread.
LEMMA TakingMoves ==
  ASSUME NEW t \in Threads, NEW r, thread'[t] = r,
         \A u \in Threads \ {t} : thread'[u] = thread[u]
  PROVE  Taking' = IF r.at \in {"announce", "take"} THEN Taking \cup {t} ELSE Taking \ {t}
BY DEF Taking

\* What the bound says.
LEMMA Bound ==
  ASSUME TakersInv, life \in {"alive", "joining"}
  PROVE  Cardinality(Pending) <= Cardinality(Takers) + Cardinality(Taking)
BY DEF TakersInv, QueuedJobsHaveTakers, Pending, Takers, Taking

\* The bound, from its parts.
LEMMA BoundNext ==
  ASSUME IsFiniteSet(posted'), IsFiniteSet(Pending'),
         life' \in {"alive", "joining"} =>
           Cardinality(Pending') <= Cardinality(Takers') + Cardinality(Taking')
  PROVE  TakersInv'
BY DEF TakersInv, QueuedJobsHaveTakers, Pending, Takers, Taking

\* A step that adds no job to the queue and takes no taker away.
LEMMA BoundStays ==
  ASSUME TakersInv, life' \in {"alive", "joining"} => life \in {"alive", "joining"},
         IsFiniteSet(posted'), Pending' \subseteq Pending, Takers \subseteq Takers',
         Taking \subseteq Taking'
  PROVE  TakersInv'
<1>1. IsFiniteSet(Pending) /\ IsFiniteSet(Pending') /\ Cardinality(Pending') <= Cardinality(Pending)
  BY FS_Subset DEF TakersInv
<1>2. /\ IsFiniteSet(Takers) /\ IsFiniteSet(Taking)
      /\ Cardinality(Takers) \in Nat /\ Cardinality(Taking) \in Nat /\ Cardinality(Pending) \in Nat
  BY BoundTypes DEF TakersInv
<1>3. Takers' \subseteq posted' /\ Taking' \subseteq Threads
  BY DEF Takers, Taking, Unstarted
<1>4. IsFiniteSet(Threads)
  BY ThreadsAssumption, FS_AddElement DEF Threads
<1>5. IsFiniteSet(Takers') /\ IsFiniteSet(Taking')
  BY <1>3, <1>4, FS_Subset
<1>6. Cardinality(Takers) <= Cardinality(Takers') /\ Cardinality(Taking) <= Cardinality(Taking')
  BY <1>5, FS_Subset
<1>7. Cardinality(Takers') \in Nat /\ Cardinality(Taking') \in Nat /\ Cardinality(Pending') \in Nat
  BY <1>1, <1>5, FS_CardinalityType
<1>8. life' \in {"alive", "joining"} =>
        Cardinality(Pending') <= Cardinality(Takers') + Cardinality(Taking')
  BY <1>1, <1>2, <1>6, <1>7, Bound
<1> QED BY <1>1, <1>8, BoundNext

-----------------------------------------------------------------------------
(* The actions, by what they do to a job.                                  *)

\* Existing' is Existing as long as no job comes to exist.
LEMMA KeysStay ==
  ASSUME KeysInv, \A j \in Jobs : promise'[j] = "none" <=> promise[j] = "none"
  PROVE  KeysInv'
<1>1. Existing' = Existing
  BY DEF Existing
<1> QED BY <1>1 DEF KeysInv

\* The jobs that a thread's step is not about.
LEMMA OtherStays ==
  ASSUME JobsInv, NEW t \in Threads, NEW r, thread'[t] = r,
         \A u \in Threads \ {t} : thread'[u] = thread[u],
         NEW j \in Jobs, thread[t].at \in {"post", "run"} => thread[t].job # j,
         r.at \in {"post", "run"} => r.job # j,
         Queued(j)' <=> Queued(j), InPool(j)' <=> InPool(j), life' = life, promise'[j] = promise[j]
  PROVE  Placed(j)'
<1>1. CarriedBy(j)' = CarriedBy(j)
  BY DEF CarriedBy
<1>2. Waits(j)' <=> Waits(j)
  BY DEF Waits
<1> QED BY <1>1, <1>2, PlaceStays DEF JobsInv

\* A thread with neither a job in hand nor a task to execute.
LEMMA QuietHolds ==
  ASSUME IInv, NEW t \in Threads, NEW r \in Records, Set(t, r),
         thread[t].at \notin {"post", "announce", "take", "run"},
         r.at \notin {"post", "announce", "take", "run"}, r.task = None, ThreadOK(r, {}),
         thread[t].at = "ended" => r.at = "ended",
         pipelines' \in [Descriptors -> Jobs \cup {None}],
         pending' = pending, promise' = promise, life' = life, UNCHANGED poolVars
  PROVE  IInv'
<1> USE DEF IInv
<1>1. thread'[t] = r /\ \A u \in Threads \ {t} : thread'[u] = thread[u]
  BY SetThread
<1>2. posted' = posted /\ executed' = executed /\ closed' = closed
  BY DEF poolVars
<1>3. thread[t].task = None
  BY DEF ThreadsInv, ThreadOK
<1>4. Unstarted' = Unstarted
  BY <1>1, <1>3, UnstartedStays
<1>5. TypeOK'
  BY <1>2, TypesMove DEF TypeOK
<1>6. ThreadsInv'
  <2>1. ThreadOK(r, posted' \ executed')
    BY DEF ThreadOK
  <2> QED BY <1>1, <1>2, <2>1, ThreadsMove
<1>7. LifeInv'
  BY <1>1, LifeMoves
<1>8. PendingInv' /\ KeysInv'
  BY KeysStay DEF PendingInv
<1>9. JobsInv'
  <2>1. ASSUME NEW j \in Jobs PROVE Placed(j)'
    BY <1>1, <1>4, OtherStays DEF Queued, InPool
  <2> QED BY <2>1 DEF JobsInv
<1>10. TakersInv'
  <2>1. Pending' = Pending /\ Takers' = Takers
    BY <1>4 DEF Pending, Takers
  <2>2. Taking' = Taking
    BY <1>1 DEF Taking
  <2> QED BY <1>2, <2>1, <2>2, BoundStays DEF TakersInv
<1> QED BY <1>5, <1>6, <1>7, <1>8, <1>9, <1>10

\* GetPipeline makes a job nobody has had: NextKey is above all keys.
LEMMA NewJobHolds ==
  ASSUME IInv, NEW t \in Clients, NEW d \in Descriptors, NEW at \in {"post", "run"},
         life = "alive", thread[t].at = "idle", NextKey <= MaxKey,
         NEW j, j = [desc |-> d, key |-> NextKey],
         promise' = [promise EXCEPT ![j] = "unset"], pipelines' = [pipelines EXCEPT ![d] = j],
         Set(t, [Idle EXCEPT !.job = j, !.locks = {"pipelines"}, !.future = j, !.at = at]),
         UNCHANGED <<pending, life, poolVars>>
  PROVE  IInv'
<1> USE DEF IInv
<1> DEFINE r == [Idle EXCEPT !.job = j, !.locks = {"pipelines"}, !.future = j, !.at = at]
<1>1. IsFiniteSet(Existing) /\ Cardinality(Existing) \in Nat /\ NextKey = 1 + Cardinality(Existing)
  BY FS_CardinalityType DEF KeysInv, Existing, NextKey
<1>2. j \in Jobs /\ j.key = NextKey /\ j.desc = d
  BY <1>1, ThreadsAssumption DEF Jobs
<1>3. j \notin Existing /\ promise[j] = "none"
  BY <1>1, <1>2 DEF KeysInv, Existing
<1>4. t \in Threads
  BY DEF Threads
<1>5. /\ r \in Records /\ r.at = at /\ r.job = j /\ r.task = None /\ r.future = j
      /\ r.eager = FALSE
  BY <1>2 DEF Idle, Records
<1> HIDE DEF r
<1>6. Set(t, r)
  BY DEF r
<1>7. thread'[t] = r /\ \A u \in Threads \ {t} : thread'[u] = thread[u]
  BY <1>4, <1>5, <1>6, SetThread
<1>8. posted' = posted /\ executed' = executed /\ closed' = closed /\ life' = life
  BY DEF poolVars
<1>9. thread[t].task = None
  BY <1>4 DEF ThreadsInv, ThreadOK
<1>10. Unstarted' = Unstarted
  BY <1>4, <1>5, <1>7, <1>9, UnstartedStays
<1>11. /\ promise' \in [Jobs -> {"none", "unset", "set", "broken"}] /\ promise'[j] = "unset"
       /\ \A i \in Jobs \ {j} : promise'[i] = promise[i]
  BY <1>2 DEF TypeOK
<1>12. TypeOK'
  <2>1. pipelines' \in [Descriptors -> Jobs \cup {None}]
    BY <1>2 DEF TypeOK
  <2> QED BY <1>4, <1>5, <1>6, <1>8, <1>11, <2>1, TypesMove DEF TypeOK
<1>13. ThreadsInv'
  <2>1. ThreadOK(r, posted' \ executed')
    BY <1>2, <1>5 DEF ThreadOK
  <2> QED BY <1>4, <1>5, <1>7, <1>8, <2>1, ThreadsMove
<1>14. LifeInv'
  BY <1>4, <1>5, <1>7, <1>8, LifeMoves
<1>15. PendingInv'
  BY DEF PendingInv
<1>16. KeysInv'
  <2>1. Existing' = Existing \cup {j}
    BY <1>2, <1>11 DEF Existing
  <2>2. IsFiniteSet(Existing') /\ Cardinality(Existing') = Cardinality(Existing) + 1
    BY <1>1, <1>3, <2>1, FS_AddElement
  <2>3. \A i \in Existing : i.key \in Int /\ i.key <= Cardinality(Existing)
    BY ThreadsAssumption DEF KeysInv, Existing, Jobs
  <2>4. \A i \in Existing' : i.key <= Cardinality(Existing')
    BY <1>1, <1>2, <2>1, <2>2, <2>3
  <2> QED BY <2>2, <2>4 DEF KeysInv
<1>17. JobsInv'
  <2>1. ASSUME NEW i \in Jobs, i # j PROVE Placed(i)'
    BY <1>4, <1>5, <1>7, <1>8, <1>10, <1>11, <2>1, OtherStays DEF Queued, InPool
  <2>2. Placed(j)'
    <3>1. Nowhere(j)
      BY <1>2, <1>3 DEF JobsInv, Placed
    <3>2. CarriedBy(j)' = {t}
      BY <1>4, <1>5, <1>7, <3>1, CarriedMoves DEF Nowhere
    <3>3. ~Queued(j)' /\ ~Waits(j)'
      BY <1>8, <1>10, <3>1 DEF Nowhere, Queued, Waits, InPool
    <3> QED BY <1>4, <1>11, <3>2, <3>3 DEF Placed, Carried
  <2> QED BY <2>1, <2>2 DEF JobsInv
<1>18. TakersInv'
  <2>1. Pending' = Pending /\ Takers' = Takers
    BY <1>10 DEF Pending, Takers
  <2>2. Taking' = Taking
    BY <1>4, <1>5, <1>7 DEF Taking
  <2> QED BY <1>8, <2>1, <2>2, BoundStays DEF TakersInv
<1> QED BY <1>12, <1>13, <1>14, <1>15, <1>16, <1>17, <1>18

\* GetPipeline finds a pipeline, or makes a job.
LEMMA GetPipelineHolds ==
  ASSUME IInv, NEW t \in Clients, NEW d \in Descriptors, NEW async \in BOOLEAN,
         GetPipeline(t, d, async)
  PROVE  IInv'
<1> USE DEF GetPipeline
<1>1. t \in Threads
  BY DEF Threads
<1>2. CASE pipelines[d] # None
  <2> DEFINE r == [Idle EXCEPT !.future = pipelines[d]]
  <2>1. pipelines[d] \in Jobs
    BY <1>2 DEF IInv, TypeOK
  <2>2. r \in Records /\ r.at = "idle" /\ r.task = None /\ r.eager = FALSE
    BY <2>1 DEF Idle, Records
  <2> HIDE DEF r
  <2>3. Set(t, r) /\ UNCHANGED <<pipelines, pending, promise, life, poolVars>>
    BY <1>2 DEF r
  <2>4. ThreadOK(r, {})
    BY <2>2 DEF ThreadOK
  <2>5. pipelines' \in [Descriptors -> Jobs \cup {None}]
    BY <2>3 DEF IInv, TypeOK
  <2> QED BY <1>1, <2>2, <2>3, <2>4, <2>5, QuietHolds
<1>3. CASE pipelines[d] = None
  <2> DEFINE at == IF async THEN "post" ELSE "run"
             j == [desc |-> d, key |-> NextKey]
  <2>1. at \in {"post", "run"}
    OBVIOUS
  <2>2. Set(t, [Idle EXCEPT !.job = j, !.locks = {"pipelines"}, !.future = j, !.at = at])
    BY <1>3 DEF Idle
  <2>3. /\ NextKey <= MaxKey /\ promise' = [promise EXCEPT ![j] = "unset"]
        /\ pipelines' = [pipelines EXCEPT ![d] = j] /\ UNCHANGED <<pending, life, poolVars>>
        /\ life = "alive" /\ thread[t].at = "idle"
    BY <1>3
  <2> HIDE DEF at
  <2> QED BY <2>1, <2>2, <2>3, NewJobHolds
<1> QED BY <1>2, <1>3

\* A client begins to wait, or to look for the job itself.
LEMMA WaitAndGetHolds ==
  ASSUME IInv, NEW t \in Clients, NEW eager \in BOOLEAN, WaitAndGet(t, eager)
  PROVE  IInv'
<1> DEFINE at == IF eager THEN "perform" ELSE "wait"
           r == [thread[t] EXCEPT !.at = at, !.eager = eager]
<1>1. t \in Threads
  BY DEF Threads
<1>2. thread[t] \in Records /\ ThreadOK(thread[t], posted \ executed)
  BY <1>1, ThreadRecord DEF IInv, ThreadsInv
<1>3. at \in {"perform", "wait"} /\ (at = "perform" => eager)
  OBVIOUS
<1> HIDE DEF at
<1>4. /\ r \in Records /\ r.at = at /\ r.task = thread[t].task /\ r.future = thread[t].future
  BY <1>2, <1>3 DEF Records
<1>5. /\ Set(t, r) /\ UNCHANGED <<pipelines, pending, promise, life, poolVars>>
      /\ thread[t].at = "idle" /\ thread[t].future # None
      /\ eager => thread[t].future.desc \in Graphics
  BY DEF WaitAndGet, libraryVars, at
<1>6. thread[t].task = None /\ thread[t].future \in Jobs
  BY <1>2, <1>5 DEF ThreadOK, Records
<1> HIDE DEF r
<1>7. ThreadOK(r, {})
  BY <1>3, <1>4, <1>5, <1>6 DEF ThreadOK
<1>8. pipelines' \in [Descriptors -> Jobs \cup {None}]
  BY <1>5 DEF IInv, TypeOK
<1> QED BY <1>1, <1>3, <1>4, <1>5, <1>6, <1>7, <1>8, QuietHolds

\* A client has its pipeline.
LEMMA FutureGetHolds ==
  ASSUME IInv, NEW t \in Threads, FutureGet(t)
  PROVE  IInv'
<1>1. ThreadOK(Idle, {})
  BY IdleRecord DEF ThreadOK
<1>2. /\ Set(t, Idle) /\ UNCHANGED <<pipelines, pending, promise, life, poolVars>>
      /\ thread[t].at = "wait"
  BY DEF FutureGet, libraryVars
<1>3. pipelines' \in [Descriptors -> Jobs \cup {None}]
  BY <1>2 DEF IInv, TypeOK
<1> QED BY <1>1, <1>2, <1>3, IdleRecord, QuietHolds

\* A worker ends.
LEMMA EndWorkerHolds ==
  ASSUME IInv, NEW w \in Workers, EndWorker(w)
  PROVE  IInv'
<1> DEFINE r == [Idle EXCEPT !.at = "ended"]
<1>1. w \in Threads
  BY DEF Threads
<1>2. r \in Records /\ r.at = "ended" /\ r.task = None /\ r.eager = FALSE
  BY DEF Idle, Records
<1>3. /\ Set(w, r) /\ UNCHANGED <<pipelines, pending, promise, life, poolVars>>
      /\ thread[w].at = "idle"
  BY IdleRecord DEF EndWorker, libraryVars
<1> HIDE DEF r
<1>4. ThreadOK(r, {})
  BY <1>2 DEF ThreadOK
<1>5. pipelines' \in [Descriptors -> Jobs \cup {None}]
  BY <1>3 DEF IInv, TypeOK
<1> QED BY <1>1, <1>2, <1>3, <1>4, <1>5, QuietHolds

\* A job that a thread carries is nowhere else.
LEMMA CarriedHere ==
  ASSUME JobsInv, NEW t \in Threads, NEW j \in Jobs, thread[t].job = j, thread[t].at \in {"post", "run"}
  PROVE  CarriedBy(j) = {t} /\ ~Queued(j) /\ ~Waits(j) /\ promise[j] = "unset"
<1>1. t \in CarriedBy(j)
  BY DEF CarriedBy
<1>2. Carried(j) /\ promise[j] = "unset"
  BY <1>1 DEF JobsInv, Placed, Nowhere, InQueue, WithPool
<1> QED BY <1>1, <1>2 DEF Carried

\* A job is posted to the pool, which has it or gives it back to run.
LEMMA PostJobHolds ==
  ASSUME IInv, NEW t \in Threads, thread[t].at = "post", NEW j, j = thread[t].job,
         NEW k, k = [kind |-> "job", job |-> j], Pool!Post(k),
         NEW r \in Records, Set(t, r), r.future = thread[t].future, r.eager = thread[t].eager,
         \/ r.at \in {"idle", "wait"} /\ r.task = None /\ (r.at = "wait" => r.eager)
         \/ r.at = "run" /\ r.job = j /\ r.task = k,
         UNCHANGED <<libraryVars, promise, life>>
  PROVE  IInv'
<1> USE DEF IInv
<1>1. thread'[t] = r /\ \A u \in Threads \ {t} : thread'[u] = thread[u]
  BY SetThread
<1>2. ThreadOK(thread[t], posted \ executed) /\ j \in Jobs /\ thread[t].task = None
  BY DEF ThreadsInv, ThreadOK
<1>3. k \in Tasks /\ k # None /\ k.kind = "job" /\ k.job = j
  BY <1>2, NoneAssumption DEF Tasks
<1>4. /\ k \notin posted /\ posted' = posted \cup {k} /\ executed' = executed
      /\ \A u \in Threads : thread[u].task # k
      /\ Unstarted' = IF r.task = k THEN Unstarted ELSE Unstarted \cup {k}
  BY <1>1, <1>2, <1>3, UnstartedAtPost
<1>5. closed' = closed
  BY DEF Pool!Post
<1>6. pipelines' = pipelines /\ pending' = pending /\ promise' = promise /\ life' = life
  BY DEF libraryVars
<1>7. life = "alive" /\ t \in Clients
  BY DEF LifeInv
<1>8. k \notin executed
  BY <1>4 DEF TypeOK
<1>9. TypeOK'
  <2>1. posted' \in SUBSET Tasks /\ executed' \in SUBSET posted'
    BY <1>3, <1>4 DEF TypeOK
  <2> QED BY <1>5, <1>6, <2>1, TypesMove DEF TypeOK
<1>10. ThreadsInv'
  <2>1. k \in posted' \ executed'
    BY <1>4, <1>8
  <2>2. ThreadOK(r, posted' \ executed')
    BY <1>2, <1>3, <2>1 DEF ThreadOK
  <2> QED BY <1>1, <1>4, <2>2, ThreadsMove
<1>11. LifeInv'
  BY <1>1, <1>6, LifeMoves
<1>12. PendingInv' /\ KeysInv'
  BY <1>6, KeysStay DEF PendingInv
<1>13. JobsInv'
  <2>1. ASSUME NEW i \in Jobs, i # j PROVE Placed(i)'
    <3>1. InPool(i)' <=> InPool(i)
      BY <1>3, <1>4, <2>1 DEF InPool
    <3> QED BY <1>1, <1>6, <2>1, <3>1, OtherStays DEF Queued
  <2>2. Placed(j)'
    <3>1. CarriedBy(j) = {t} /\ ~Queued(j) /\ ~Waits(j) /\ promise[j] = "unset"
      BY <1>2, CarriedHere
    <3>2. ~Queued(j)' /\ promise'[j] = "unset"
      BY <1>6, <3>1 DEF Queued
    <3>3. CASE r.at \in {"idle", "wait"} /\ r.task = None
      <4>1. CarriedBy(j)' = {}
        BY <1>1, <3>1, <3>3, CarriedMoves
      <4>2. Waits(j)'
        BY <1>3, <1>4, <1>6, <1>7, <3>3 DEF Waits, InPool
      <4> QED BY <3>2, <4>1, <4>2 DEF Placed, WithPool
    <3>4. CASE r.at = "run" /\ r.job = j /\ r.task = k
      <4>1. CarriedBy(j)' = {t}
        BY <1>1, <3>1, <3>4, CarriedMoves
      <4>2. ~Waits(j)'
        BY <1>4, <1>6, <3>1, <3>4 DEF Waits, InPool
      <4> QED BY <3>2, <4>1, <4>2 DEF Placed, Carried
    <3> QED BY <3>3, <3>4
  <2> QED BY <2>1, <2>2 DEF JobsInv
<1>14. TakersInv'
  <2>1. Pending' = Pending
    BY <1>6 DEF Pending
  <2>2. Takers' = Takers
    BY <1>3, <1>4 DEF Takers
  <2>3. Taking' = Taking
    BY <1>1 DEF Taking
  <2>4. IsFiniteSet(posted')
    BY <1>4, FS_AddElement DEF TakersInv
  <2> QED BY <1>6, <2>1, <2>2, <2>3, <2>4, BoundStays
<1> QED BY <1>9, <1>10, <1>11, <1>12, <1>13, <1>14

\* A compute job goes to the pool.
LEMMA PostComputeJobHolds ==
  ASSUME IInv, NEW t \in Threads, PostComputeJob(t)
  PROVE  IInv'
<1> DEFINE j == thread[t].job
           k == [kind |-> "job", job |-> j]
<1>1. /\ Pool!Post(k) /\ thread[t].at = "post" /\ UNCHANGED <<libraryVars, promise, life>>
      /\ Set(t, IF ~closed THEN Returned(t)
                ELSE [thread[t] EXCEPT !.at = "run", !.job = j, !.task = k])
  BY DEF PostComputeJob, PostTask
<1>2. CASE ~closed
  <2>1. Set(t, Returned(t))
    BY <1>1, <1>2
  <2> QED BY <1>1, <2>1, ReturnedRecord, PostJobHolds DEF IInv
<1>3. CASE closed
  <2> DEFINE r == [thread[t] EXCEPT !.at = "run", !.job = j, !.task = k]
  <2>1. thread[t] \in Records /\ j \in Jobs
    BY <1>1, ThreadRecord DEF IInv, ThreadsInv, ThreadOK
  <2>2. k \in Tasks
    BY <2>1 DEF Tasks
  <2>3. /\ r \in Records /\ r.at = "run" /\ r.job = j /\ r.task = k
        /\ r.future = thread[t].future /\ r.eager = thread[t].eager
    BY <2>1, <2>2 DEF Records
  <2>4. Set(t, r)
    BY <1>1, <1>3
  <2> QED BY <1>1, <2>3, <2>4, PostJobHolds
<1> QED BY <1>2, <1>3 DEF IInv, TypeOK

\* So does the second job of a descriptor.
LEMMA PostSecondJobHolds ==
  ASSUME IInv, NEW t \in Threads, PostSecondJob(t)
  PROVE  IInv'
<1> DEFINE j == thread[t].job
           k == [kind |-> "job", job |-> j]
           l == thread[t].locks \cup {"pending"}
<1>1. /\ Pool!Post(k) /\ thread[t].at = "post" /\ UNCHANGED <<libraryVars, promise, life>>
      /\ Set(t, IF ~closed THEN Returned(t)
                ELSE [thread[t] EXCEPT !.at = "run", !.locks = @ \cup {"pending"}, !.task = k])
  BY DEF PostSecondJob
<1>2. CASE ~closed
  <2>1. Set(t, Returned(t))
    BY <1>1, <1>2
  <2> QED BY <1>1, <2>1, ReturnedRecord, PostJobHolds DEF IInv
<1>3. CASE closed
  <2> DEFINE r == [thread[t] EXCEPT !.at = "run", !.locks = l, !.task = k]
  <2>1. thread[t] \in Records /\ j \in Jobs
    BY <1>1, ThreadRecord DEF IInv, ThreadsInv, ThreadOK
  <2>2. k \in Tasks /\ l \in SUBSET {"pipelines", "pending"}
    BY <2>1 DEF Tasks, Records
  <2>3. r = [thread[t] EXCEPT !.at = "run", !.locks = @ \cup {"pending"}, !.task = k]
    BY <2>1 DEF Records
  <2>4. Set(t, r)
    BY <1>1, <1>3, <2>3
  <2> HIDE DEF l
  <2>5. /\ r \in Records /\ r.at = "run" /\ r.job = j /\ r.task = k
        /\ r.future = thread[t].future /\ r.eager = thread[t].eager
    BY <2>1, <2>2 DEF Records
  <2> QED BY <1>1, <2>4, <2>5, PostJobHolds
<1> QED BY <1>2, <1>3 DEF IInv, TypeOK

\* A job goes into the queue, and its thread on to announce it.
LEMMA InsertJobHolds ==
  ASSUME IInv, NEW t \in Threads, InsertJob(t)
  PROVE  IInv'
<1> USE DEF IInv
<1>0. PICK j : j = thread[t].job
  OBVIOUS
<1> DEFINE d == j.desc
           r == [thread[t] EXCEPT !.at = "announce"]
<1>1. /\ thread[t].at = "post" /\ d \in Graphics /\ pending[d] = None
      /\ pending' = [pending EXCEPT ![d] = j] /\ Set(t, r)
      /\ pipelines' = pipelines /\ promise' = promise /\ life' = life
      /\ UNCHANGED poolVars
  BY <1>0 DEF InsertJob
<1>2. thread[t] \in Records /\ ThreadOK(thread[t], posted \ executed)
  BY ThreadRecord DEF ThreadsInv
<1>3. j \in Jobs /\ j # None /\ thread[t].task = None
  BY <1>0, <1>1, <1>2, NoneAssumption DEF ThreadOK
<1>4. /\ r \in Records /\ r.at = "announce" /\ r.job = j /\ r.task = None
      /\ r.future = thread[t].future /\ r.eager = thread[t].eager
  BY <1>0, <1>2, <1>3 DEF Records
<1> HIDE DEF r
<1>5. thread'[t] = r /\ \A u \in Threads \ {t} : thread'[u] = thread[u]
  BY <1>1, <1>4, SetThread
<1>6. posted' = posted /\ executed' = executed /\ closed' = closed
  BY <1>1 DEF poolVars
<1>7. Unstarted' = Unstarted
  BY <1>1, <1>3, <1>4, <1>5, UnstartedStays
<1>8. /\ pending' \in [Graphics -> Jobs \cup {None}] /\ pending'[d] = j
      /\ \A e \in Graphics \ {d} : pending'[e] = pending[e]
  BY <1>1, <1>3 DEF TypeOK
<1>9. life = "alive" /\ t \in Clients
  BY <1>1 DEF LifeInv
<1>10. TypeOK'
  BY <1>1, <1>4, <1>6, <1>8, TypesMove DEF TypeOK
<1>11. ThreadsInv'
  <2>1. ThreadOK(r, posted' \ executed')
    BY <1>2, <1>3, <1>4 DEF ThreadOK
  <2> QED BY <1>4, <1>5, <1>6, <2>1, ThreadsMove
<1>12. LifeInv'
  BY <1>1, <1>4, <1>5, <1>9, LifeMoves
<1>13. PendingInv' /\ KeysInv'
  BY <1>1, <1>8, KeysStay DEF PendingInv
<1>14. JobsInv'
  <2>1. ASSUME NEW i \in Jobs, i # j PROVE Placed(i)'
    <3>1. Queued(i)' <=> Queued(i)
      BY <1>1, <1>8, <2>1, NoneAssumption DEF Queued
    <3> QED BY <1>1, <1>4, <1>5, <1>7, <1>0, <2>1, <3>1, OtherStays DEF InPool
  <2>2. Placed(j)'
    <3>1. CarriedBy(j) = {t} /\ ~Waits(j) /\ promise[j] = "unset"
      BY <1>0, <1>1, <1>3, CarriedHere
    <3>2. CarriedBy(j)' = {}
      BY <1>4, <1>5, <3>1, CarriedMoves
    <3>3. Queued(j)'
      BY <1>1, <1>8 DEF Queued
    <3>4. ~Waits(j)' /\ promise'[j] = "unset"
      BY <1>1, <1>7, <3>1 DEF Waits, InPool
    <3> QED BY <3>2, <3>3, <3>4 DEF Placed, InQueue
  <2> QED BY <2>1, <2>2 DEF JobsInv
<1>15. TakersInv'
  <2>1. /\ IsFiniteSet(Pending) /\ IsFiniteSet(posted) /\ IsFiniteSet(Taking)
        /\ Cardinality(Takers) \in Nat /\ Cardinality(Taking) \in Nat /\ Cardinality(Pending) \in Nat
    BY BoundTypes DEF TakersInv
  <2>2. Pending' = Pending \cup {d} /\ d \notin Pending
    BY <1>1, <1>3, <1>8 DEF Pending
  <2>3. Taking' = Taking \cup {t} /\ t \notin Taking
    BY <1>1, <1>4, <1>5 DEF Taking
  <2>4. Takers' = Takers
    BY <1>7 DEF Takers
  <2>5. IsFiniteSet(Pending') /\ Cardinality(Pending') = Cardinality(Pending) + 1
    BY <2>1, <2>2, FS_AddElement
  <2>6. Cardinality(Taking') = Cardinality(Taking) + 1
    BY <2>1, <2>3, FS_AddElement
  <2>7. Cardinality(Pending') <= Cardinality(Takers') + Cardinality(Taking')
    BY <1>9, <2>1, <2>4, <2>5, <2>6, Bound
  <2> QED BY <1>6, <2>1, <2>5, <2>7, BoundNext
<1> QED BY <1>10, <1>11, <1>12, <1>13, <1>14, <1>15

\* A thread that announces its job leaves a taker, or becomes one.
LEMMA AnnounceJobHolds ==
  ASSUME IInv, NEW t \in Threads, AnnounceJob(t)
  PROVE  IInv'
<1> USE DEF IInv
<1> DEFINE j == thread[t].job
           k == [kind |-> "one", job |-> j]
           r == IF ~closed THEN Returned(t) ELSE [thread[t] EXCEPT !.at = "take", !.task = k]
<1>1. thread[t].at = "announce" /\ Pool!Post(k) /\ UNCHANGED <<libraryVars, promise, life>>
  BY DEF AnnounceJob, PostTask
<1>2. Set(t, r)
  BY DEF AnnounceJob, PostTask
<1>3. thread[t] \in Records /\ ThreadOK(thread[t], posted \ executed)
  BY ThreadRecord DEF ThreadsInv
<1>4. j \in Jobs /\ thread[t].task = None
  BY <1>1, <1>3 DEF ThreadOK
<1>5. k \in Tasks /\ k # None /\ k.kind = "one"
  BY <1>4, NoneAssumption DEF Tasks
<1>6. /\ r \in Records /\ r.future = thread[t].future /\ r.eager = thread[t].eager
      /\ \/ r.at \in {"idle", "wait"} /\ r.task = None /\ (r.at = "wait" => r.eager)
         \/ r.at = "take" /\ r.task = k
  <2>1. CASE ~closed
    <3>1. r = Returned(t)
      BY <2>1
    <3> HIDE DEF r
    <3> QED BY <3>1, ReturnedRecord
  <2>2. CASE closed
    <3>1. r = [thread[t] EXCEPT !.at = "take", !.task = k]
      BY <2>2
    <3> HIDE DEF r, k
    <3> QED BY <1>3, <1>5, <3>1 DEF Records
  <2> QED BY <2>1, <2>2 DEF TypeOK
<1> HIDE DEF r
<1>7. thread'[t] = r /\ \A u \in Threads \ {t} : thread'[u] = thread[u]
  BY <1>2, <1>6, SetThread
<1>8. /\ k \notin posted /\ posted' = posted \cup {k} /\ executed' = executed
      /\ \A u \in Threads : thread[u].task # k
      /\ Unstarted' = IF r.task = k THEN Unstarted ELSE Unstarted \cup {k}
  BY <1>1, <1>4, <1>5, <1>6, <1>7, UnstartedAtPost
<1>9. closed' = closed
  BY <1>1 DEF Pool!Post
<1>10. pipelines' = pipelines /\ pending' = pending /\ promise' = promise /\ life' = life
  BY <1>1 DEF libraryVars
<1>11. life = "alive"
  BY <1>1 DEF LifeInv
<1>12. k \notin executed
  BY <1>8 DEF TypeOK
<1> HIDE DEF k
<1>13. TypeOK'
  <2>1. posted' \in SUBSET Tasks /\ executed' \in SUBSET posted'
    BY <1>5, <1>8 DEF TypeOK
  <2> QED BY <1>2, <1>6, <1>9, <1>10, <2>1, TypesMove DEF TypeOK
<1>14. ThreadsInv'
  <2>1. k \in posted' \ executed'
    BY <1>8, <1>12
  <2>2. ThreadOK(r, posted' \ executed')
    BY <1>3, <1>5, <1>6, <2>1 DEF ThreadOK
  <2> QED BY <1>6, <1>7, <1>8, <2>2, ThreadsMove
<1>15. LifeInv'
  BY <1>1, <1>6, <1>7, <1>10, LifeMoves
<1>16. PendingInv' /\ KeysInv'
  BY <1>10, KeysStay DEF PendingInv
<1>17. JobsInv'
  <2>1. ASSUME NEW i \in Jobs PROVE Placed(i)'
    <3>1. InPool(i)' <=> InPool(i)
      BY <1>5, <1>8 DEF InPool
    <3> QED BY <1>1, <1>6, <1>7, <1>10, <3>1, OtherStays DEF Queued
  <2> QED BY <2>1 DEF JobsInv
<1>18. TakersInv'
  <2>1. /\ IsFiniteSet(Pending) /\ IsFiniteSet(posted) /\ IsFiniteSet(Taking) /\ IsFiniteSet(Takers)
        /\ Cardinality(Takers) \in Nat /\ Cardinality(Taking) \in Nat /\ Cardinality(Pending) \in Nat
    BY BoundTypes DEF TakersInv
  <2>2. Pending' = Pending
    BY <1>10 DEF Pending
  <2>3. IsFiniteSet(posted')
    BY <1>8, <2>1, FS_AddElement
  <2>4. CASE r.at = "take" /\ r.task = k
    <3>1. Takers' = Takers
      BY <1>8, <2>4 DEF Takers
    <3>2. Taking' = Taking
      BY <1>1, <1>7, <2>4 DEF Taking
    <3> QED BY <1>10, <2>2, <2>3, <3>1, <3>2, BoundStays
  <2>5. CASE r.at \in {"idle", "wait"} /\ r.task = None
    <3>1. Takers' = Takers \cup {k} /\ k \notin Takers
      BY <1>5, <1>8, <2>5 DEF Takers, Unstarted
    <3>2. Taking' = Taking \ {t} /\ t \in Taking
      BY <1>1, <1>7, <2>5 DEF Taking
    <3>3. Cardinality(Takers') = Cardinality(Takers) + 1
      BY <2>1, <3>1, FS_AddElement
    <3>4. Cardinality(Taking') = Cardinality(Taking) - 1
      BY <2>1, <3>2, FS_RemoveElement
    <3>5. Cardinality(Pending') <= Cardinality(Takers') + Cardinality(Taking')
      BY <1>11, <2>1, <2>2, <3>3, <3>4, Bound
    <3> QED BY <2>1, <2>2, <2>3, <3>5, BoundNext
  <2> QED BY <1>6, <2>4, <2>5
<1> QED BY <1>13, <1>14, <1>15, <1>16, <1>17, <1>18

\* A worker or a waiter takes a job out of the queue, to run it.
LEMMA TakeHolds ==
  ASSUME IInv, NEW t \in Threads, thread[t].at \in {"take", "perform"},
         NEW d \in Graphics, pending[d] # None, pending' = [pending EXCEPT ![d] = None],
         Set(t, [thread[t] EXCEPT !.at = "run", !.job = pending[d]]),
         pipelines' = pipelines, promise' = promise, life' = life, UNCHANGED poolVars
  PROVE  IInv'
<1> USE DEF IInv
<1>0. PICK j : j = pending[d]
  OBVIOUS
<1> DEFINE r == [thread[t] EXCEPT !.at = "run", !.job = j]
<1>1. Set(t, r)
  BY <1>0
<1>2. thread[t] \in Records /\ ThreadOK(thread[t], posted \ executed)
  BY ThreadRecord DEF ThreadsInv
<1>3. j \in Jobs /\ j.desc = d /\ Queued(j)
  BY <1>0 DEF TypeOK, PendingInv, Queued
<1>4. /\ r \in Records /\ r.at = "run" /\ r.job = j /\ r.task = thread[t].task
      /\ r.future = thread[t].future /\ r.eager = thread[t].eager
  BY <1>2, <1>3 DEF Records
<1> HIDE DEF r
<1>5. thread'[t] = r /\ \A u \in Threads \ {t} : thread'[u] = thread[u]
  BY <1>1, <1>4, SetThread
<1>6. posted' = posted /\ executed' = executed /\ closed' = closed
  BY DEF poolVars
<1>7. Unstarted' = Unstarted
  BY <1>4, <1>5, UnstartedStays
<1>8. /\ pending' \in [Graphics -> Jobs \cup {None}] /\ pending'[d] = None
      /\ \A e \in Graphics \ {d} : pending'[e] = pending[e]
  BY DEF TypeOK
<1>9. TypeOK'
  BY <1>1, <1>4, <1>6, <1>8, TypesMove DEF TypeOK
<1>10. ThreadsInv'
  <2>1. ThreadOK(r, posted' \ executed')
    BY <1>2, <1>3, <1>4, <1>6 DEF ThreadOK
  <2>2. \A u \in Threads \ {t} : r.task # None => thread[u].task # r.task
    BY <1>4 DEF ThreadsInv
  <2> QED BY <1>4, <1>5, <1>6, <2>1, <2>2, ThreadsMove
<1>11. LifeInv'
  BY <1>4, <1>5, LifeMoves
<1>12. PendingInv' /\ KeysInv'
  BY <1>8, KeysStay DEF PendingInv
<1>13. JobsInv'
  <2>1. ASSUME NEW i \in Jobs, i # j PROVE Placed(i)'
    <3>1. Queued(i)' <=> Queued(i)
      BY <1>0, <1>8, <2>1, NoneAssumption DEF Queued
    <3> QED BY <1>4, <1>5, <1>7, <2>1, <3>1, OtherStays DEF InPool
  <2>2. Placed(j)'
    <3>1. InQueue(j) /\ promise[j] = "unset"
      BY <1>3 DEF JobsInv, Placed, Nowhere, Carried, WithPool
    <3>2. CarriedBy(j)' = {t}
      BY <1>4, <1>5, <3>1, CarriedMoves DEF InQueue
    <3>3. ~Queued(j)'
      BY <1>3, <1>8, NoneAssumption DEF Queued
    <3>4. ~Waits(j)' /\ promise'[j] = "unset"
      BY <1>7, <3>1 DEF Waits, InPool, InQueue
    <3> QED BY <3>2, <3>3, <3>4 DEF Placed, Carried
  <2> QED BY <2>1, <2>2 DEF JobsInv
<1>14. TakersInv'
  <2>1. /\ IsFiniteSet(Pending) /\ IsFiniteSet(posted) /\ IsFiniteSet(Taking)
        /\ Cardinality(Takers) \in Nat /\ Cardinality(Taking) \in Nat /\ Cardinality(Pending) \in Nat
    BY BoundTypes DEF TakersInv
  <2>2. Pending' = Pending \ {d} /\ d \in Pending
    BY <1>8 DEF Pending
  <2>3. Taking' = Taking \ {t}
    BY <1>4, <1>5 DEF Taking
  <2>4. Takers' = Takers
    BY <1>7 DEF Takers
  <2>5. IsFiniteSet(Pending') /\ Cardinality(Pending') = Cardinality(Pending) - 1
    BY <2>1, <2>2, FS_RemoveElement
  <2>6. CASE t \in Taking
    <3>1. Cardinality(Taking') = Cardinality(Taking) - 1
      BY <2>1, <2>3, <2>6, FS_RemoveElement
    <3>2. life' \in {"alive", "joining"} =>
            Cardinality(Pending') <= Cardinality(Takers') + Cardinality(Taking')
      BY <2>1, <2>4, <2>5, <3>1, Bound
    <3> QED BY <1>6, <2>1, <2>5, <3>2, BoundNext
  <2>7. CASE t \notin Taking
    <3>1. Taking' = Taking
      BY <2>3, <2>7
    <3> QED BY <1>6, <2>1, <2>2, <2>4, <3>1, BoundStays
  <2> QED BY <2>6, <2>7
<1> QED BY <1>9, <1>10, <1>11, <1>12, <1>13, <1>14

\* A thread returns from its call, at the end of its task if it has one.
LEMMA EndHolds ==
  ASSUME IInv, NEW t \in Threads, thread[t].at \in {"take", "run"}, EndTask(t), Set(t, Returned(t)),
         promise' \in [Jobs -> {"none", "unset", "set", "broken"}],
         pipelines' = pipelines, pending' = pending, life' = life
  PROVE  /\ TypeOK' /\ ThreadsInv' /\ LifeInv' /\ PendingInv'
         /\ Unstarted' = Unstarted /\ IsFiniteSet(posted')
         /\ thread'[t] = Returned(t) /\ \A u \in Threads \ {t} : thread'[u] = thread[u]
<1> USE DEF IInv
<1>0. PICK r : r = Returned(t)
  OBVIOUS
<1>1. /\ r \in Records
      /\ r.at \in {"idle", "wait"} /\ r.job = None /\ r.task = None
      /\ r.future = thread[t].future /\ r.eager = thread[t].eager
      /\ r.at = "wait" => thread[t].eager
  BY <1>0, ReturnedRecord
<1>2. Set(t, r)
  BY <1>0
<1>3. thread'[t] = r /\ \A u \in Threads \ {t} : thread'[u] = thread[u]
  BY <1>1, <1>2, SetThread
<1>4. Unstarted' = Unstarted /\ posted' = posted
  BY <1>1, <1>3, UnstartedAtEnd
<1>5. /\ closed' = closed /\ executed' \in SUBSET posted
      /\ \A x \in posted \ executed : x # thread[t].task => x \in posted' \ executed'
  BY <1>4 DEF EndTask, poolVars, Pool!Execute, TypeOK
<1>6. TypeOK'
  BY <1>1, <1>2, <1>4, <1>5, TypesMove DEF TypeOK
<1>7. ThreadOK(r, posted' \ executed')
  BY <1>1 DEF ThreadsInv, ThreadOK
<1>8. ThreadsInv'
  BY <1>1, <1>3, <1>5, <1>7, ThreadsMove
<1>9. LifeInv'
  BY <1>1, <1>3, LifeMoves
<1>10. PendingInv'
  BY DEF PendingInv
<1> QED BY <1>0, <1>3, <1>4, <1>6, <1>8, <1>9, <1>10 DEF TakersInv

\* The job that was run has its promise set, and is nowhere.
LEMMA RunJobHolds ==
  ASSUME IInv, NEW t \in Threads, RunJob(t)
  PROVE  IInv'
<1> USE DEF IInv
<1>0. PICK j : j = thread[t].job
  OBVIOUS
<1>1. /\ thread[t].at = "run" /\ promise' = [promise EXCEPT ![j] = "set"]
      /\ EndTask(t) /\ Set(t, Returned(t)) /\ pipelines' = pipelines /\ pending' = pending
      /\ life' = life
  BY <1>0 DEF RunJob, libraryVars
<1>2. j \in Jobs
  BY <1>0, <1>1 DEF ThreadsInv, ThreadOK
<1>3. /\ promise' \in [Jobs -> {"none", "unset", "set", "broken"}] /\ promise'[j] = "set"
      /\ \A i \in Jobs \ {j} : promise'[i] = promise[i]
  BY <1>1, <1>2 DEF TypeOK
<1>4. /\ TypeOK' /\ ThreadsInv' /\ LifeInv' /\ PendingInv'
      /\ Unstarted' = Unstarted /\ IsFiniteSet(posted')
      /\ thread'[t] = Returned(t) /\ \A u \in Threads \ {t} : thread'[u] = thread[u]
  BY <1>1, <1>3, EndHolds
<1>5. PICK r : r = Returned(t)
  OBVIOUS
<1>6. thread'[t] = r /\ r.at \in {"idle", "wait"}
  BY <1>4, <1>5, ReturnedRecord
<1>7. CarriedBy(j) = {t} /\ ~Queued(j) /\ ~Waits(j) /\ promise[j] = "unset"
  BY <1>0, <1>1, <1>2, CarriedHere
<1>8. KeysInv'
  BY <1>3, <1>7, KeysStay
<1>9. JobsInv'
  <2>1. ASSUME NEW i \in Jobs, i # j PROVE Placed(i)'
    BY <1>0, <1>1, <1>3, <1>4, <1>6, <2>1, OtherStays DEF Queued, InPool
  <2>2. Placed(j)'
    <3>1. CarriedBy(j)' = {}
      BY <1>4, <1>6, <1>7, CarriedMoves
    <3>2. ~Queued(j)' /\ ~Waits(j)'
      BY <1>1, <1>4, <1>7 DEF Queued, Waits, InPool
    <3> QED BY <1>3, <3>1, <3>2 DEF Placed, Nowhere
  <2> QED BY <2>1, <2>2 DEF JobsInv
<1>10. TakersInv'
  <2>1. Pending' = Pending /\ Takers' = Takers
    BY <1>1, <1>4 DEF Pending, Takers
  <2>2. Taking' = Taking
    BY <1>1, <1>4, <1>6 DEF Taking
  <2> QED BY <1>1, <1>4, <2>1, <2>2, BoundStays
<1> QED BY <1>4, <1>8, <1>9, <1>10

\* DoOneJob takes some job, or ends when there is none.
LEMMA TakeNextJobHolds ==
  ASSUME IInv, NEW t \in Threads, TakeNextJob(t)
  PROVE  IInv'
<1> USE DEF IInv
<1>0. thread[t].at = "take" /\ pipelines' = pipelines /\ promise' = promise /\ life' = life
  BY DEF TakeNextJob
<1>1. CASE \E d \in Graphics :
             /\ pending[d] # None
             /\ pending' = [pending EXCEPT ![d] = None]
             /\ Set(t, [thread[t] EXCEPT !.at = "run", !.job = pending[d]])
             /\ UNCHANGED poolVars
  BY <1>0, <1>1, TakeHolds
<1>2. CASE /\ \A d \in Graphics : pending[d] = None
           /\ EndTask(t) /\ Set(t, Returned(t)) /\ UNCHANGED pending
  <2>1. promise' \in [Jobs -> {"none", "unset", "set", "broken"}]
    BY <1>0 DEF TypeOK
  <2>2. /\ TypeOK' /\ ThreadsInv' /\ LifeInv' /\ PendingInv'
        /\ Unstarted' = Unstarted /\ IsFiniteSet(posted')
        /\ thread'[t] = Returned(t) /\ \A u \in Threads \ {t} : thread'[u] = thread[u]
    BY <1>0, <1>2, <2>1, EndHolds
  <2>3. PICK r : r = Returned(t)
    OBVIOUS
  <2>4. thread'[t] = r /\ r.at \in {"idle", "wait"}
    BY <2>2, <2>3, ReturnedRecord
  <2>5. KeysInv'
    BY <1>0, KeysStay
  <2>6. JobsInv'
    <3>1. ASSUME NEW i \in Jobs PROVE Placed(i)'
      BY <1>0, <1>2, <2>2, <2>4, OtherStays DEF Queued, InPool
    <3> QED BY <3>1 DEF JobsInv
  <2>7. TakersInv'
    <3>1. Pending' = {}
      BY <1>2 DEF Pending
    <3>2. IsFiniteSet(Pending') /\ Cardinality(Pending') = 0
      BY <3>1, FS_EmptySet
    <3>3. Cardinality(Takers') \in Nat /\ Cardinality(Taking') \in Nat
      <4>1. Takers' \subseteq posted' /\ Taking' \subseteq Threads
        BY DEF Takers, Taking, Unstarted
      <4>2. IsFiniteSet(Threads)
        BY ThreadsAssumption, FS_AddElement DEF Threads
      <4> QED BY <2>2, <4>1, <4>2, FS_Subset, FS_CardinalityType
    <3>4. Cardinality(Pending') <= Cardinality(Takers') + Cardinality(Taking')
      BY <3>2, <3>3
    <3> QED BY <2>2, <3>2, <3>4, BoundNext
  <2> QED BY <2>2, <2>5, <2>6, <2>7
<1> QED BY <1>1, <1>2 DEF TakeNextJob

\* A waiter takes the job of its descriptor, or goes on to wait.
LEMMA TakeJobHolds ==
  ASSUME IInv, NEW t \in Threads, TakeJob(t)
  PROVE  IInv'
<1> USE DEF IInv
<1> DEFINE d == thread[t].future.desc
<1>0. /\ thread[t].at = "perform" /\ pipelines' = pipelines /\ promise' = promise /\ life' = life
      /\ UNCHANGED poolVars /\ pending' = [pending EXCEPT ![d] = None]
      /\ Set(t, IF pending[d] = None THEN Returned(t)
                ELSE [thread[t] EXCEPT !.at = "run", !.job = pending[d]])
  BY DEF TakeJob
<1>1. ThreadOK(thread[t], posted \ executed) /\ d \in Graphics
  BY <1>0 DEF ThreadsInv, ThreadOK
<1> HIDE DEF d
<1>2. CASE pending[d] # None
  <2>1. Set(t, [thread[t] EXCEPT !.at = "run", !.job = pending[d]])
    BY <1>0, <1>2
  <2> QED BY <1>0, <1>1, <1>2, <2>1, TakeHolds
<1>3. CASE pending[d] = None
  <2>0. PICK r : r = Returned(t)
    OBVIOUS
  <2>1. Set(t, r)
    BY <1>0, <1>3, <2>0
  <2>2. pending' = pending
    BY <1>0, <1>1, <1>3 DEF TypeOK
  <2>3. /\ r \in Records
        /\ r.at \in {"idle", "wait"} /\ r.job = None /\ r.task = None
        /\ r.future = thread[t].future /\ r.eager = thread[t].eager
        /\ r.at = "wait" => thread[t].eager
    BY <2>0, ReturnedRecord
  <2>4. ThreadOK(r, {})
    BY <1>1, <2>3 DEF ThreadOK
  <2>5. pipelines' \in [Descriptors -> Jobs \cup {None}]
    BY <1>0 DEF TypeOK
  <2> QED BY <1>0, <2>1, <2>2, <2>3, <2>4, <2>5, QuietHolds
<1> QED BY <1>2, <1>3

\* A worker begins a task: it takes a taker's place, or carries the task's job.
LEMMA StartTaskHolds ==
  ASSUME IInv, NEW w \in Workers, StartTask(w)
  PROVE  IInv'
<1> USE DEF IInv
<1>0. PICK k \in Unstarted :
        Set(w, [Idle EXCEPT !.task = k, !.at = IF k.kind = "one" THEN "take" ELSE "run",
                            !.job = IF k.kind = "one" THEN None ELSE k.job])
  BY DEF StartTask
<1>1. /\ thread[w] = Idle /\ pipelines' = pipelines /\ pending' = pending /\ promise' = promise
      /\ life' = life /\ UNCHANGED poolVars
  BY DEF StartTask, libraryVars
<1>2. w \in Threads /\ thread[w].at = "idle" /\ thread[w].task = None
  BY <1>1, IdleRecord DEF Threads
<1>3. /\ k \in posted \ executed /\ k \in Tasks /\ k # None
      /\ \A u \in Threads : thread[u].task # k
  BY NoneAssumption DEF Unstarted, TypeOK
<1>4. k.kind \in {"one", "job"} /\ k.job \in Jobs /\ (k.kind = "job" => k = [kind |-> "job", job |-> k.job])
  BY <1>3 DEF Tasks
<1> DEFINE at == IF k.kind = "one" THEN "take" ELSE "run"
           jb == IF k.kind = "one" THEN None ELSE k.job
           r == [Idle EXCEPT !.task = k, !.at = at, !.job = jb]
<1>5. at \in {"take", "run"} /\ jb \in Jobs \cup {None}
  BY <1>4
<1>6. /\ k.kind = "one" => at = "take"
      /\ k.kind = "job" => at = "run" /\ jb = k.job
  OBVIOUS
<1>7. Set(w, r)
  BY <1>0
<1> HIDE DEF at, jb
<1>8. r \in Records /\ r.at = at /\ r.job = jb /\ r.task = k /\ r.eager = FALSE
  BY <1>3, <1>5 DEF Idle, Records
<1> HIDE DEF r
<1>9. thread'[w] = r /\ \A u \in Threads \ {w} : thread'[u] = thread[u]
  BY <1>2, <1>7, <1>8, SetThread
<1>10. posted' = posted /\ executed' = executed /\ closed' = closed
  BY <1>1 DEF poolVars
<1>11. Unstarted' = Unstarted \ {k}
  BY <1>1, <1>2, <1>8, <1>9, UnstartedAtStart
<1>12. life \in {"alive", "joining"}
  BY <1>2 DEF LifeInv, TypeOK
<1>13. TypeOK'
  BY <1>1, <1>2, <1>7, <1>8, <1>10, TypesMove DEF TypeOK
<1>14. ThreadsInv'
  <2>1. ThreadOK(r, posted' \ executed')
    BY <1>3, <1>4, <1>5, <1>6, <1>8, <1>10 DEF ThreadOK
  <2> QED BY <1>2, <1>3, <1>8, <1>9, <1>10, <2>1, ThreadsMove
<1>15. LifeInv'
  BY <1>1, <1>2, <1>5, <1>8, <1>9, LifeMoves
<1>16. PendingInv' /\ KeysInv'
  BY <1>1, KeysStay DEF PendingInv
<1>17. CASE k.kind = "one"
  <2>1. JobsInv'
    <3>1. ASSUME NEW i \in Jobs PROVE Placed(i)'
      <4>1. InPool(i)' <=> InPool(i)
        BY <1>11, <1>17 DEF InPool
      <4> QED BY <1>1, <1>2, <1>6, <1>8, <1>9, <1>17, <4>1, OtherStays DEF Queued
    <3> QED BY <3>1 DEF JobsInv
  <2>2. TakersInv'
    <3>1. /\ IsFiniteSet(Pending) /\ IsFiniteSet(posted) /\ IsFiniteSet(Taking) /\ IsFiniteSet(Takers)
          /\ Cardinality(Takers) \in Nat /\ Cardinality(Taking) \in Nat /\ Cardinality(Pending) \in Nat
      BY BoundTypes DEF TakersInv
    <3>2. Pending' = Pending
      BY <1>1 DEF Pending
    <3>3. Takers' = Takers \ {k} /\ k \in Takers
      BY <1>11, <1>17 DEF Takers
    <3>4. Taking' = Taking \cup {w} /\ w \notin Taking
      BY <1>2, <1>6, <1>8, <1>9, <1>17 DEF Taking
    <3>5. Cardinality(Takers') = Cardinality(Takers) - 1
      BY <3>1, <3>3, FS_RemoveElement
    <3>6. Cardinality(Taking') = Cardinality(Taking) + 1
      BY <3>1, <3>4, FS_AddElement
    <3>7. Cardinality(Pending') <= Cardinality(Takers') + Cardinality(Taking')
      BY <1>12, <3>1, <3>2, <3>5, <3>6, Bound
    <3> QED BY <1>10, <3>1, <3>2, <3>7, BoundNext
  <2> QED BY <1>13, <1>14, <1>15, <1>16, <2>1, <2>2
<1>18. CASE k.kind = "job"
  <2>1. JobsInv'
    <3>1. ASSUME NEW i \in Jobs, i # k.job PROVE Placed(i)'
      <4>1. InPool(i)' <=> InPool(i)
        BY <1>4, <1>11, <1>18, <3>1 DEF InPool
      <4> QED BY <1>1, <1>2, <1>6, <1>8, <1>9, <1>18, <3>1, <4>1, OtherStays DEF Queued
    <3>2. Placed(k.job)'
      <4>1. Waits(k.job)
        BY <1>4, <1>12, <1>18 DEF Waits, InPool
      <4>2. WithPool(k.job) /\ promise[k.job] = "unset"
        BY <1>4, <4>1 DEF JobsInv, Placed, Nowhere, Carried, InQueue
      <4>3. CarriedBy(k.job)' = {w}
        BY <1>2, <1>6, <1>8, <1>9, <1>18, <4>2, CarriedMoves DEF WithPool
      <4>4. ~Queued(k.job)' /\ promise'[k.job] = "unset"
        BY <1>1, <4>2 DEF WithPool, Queued
      <4>5. ~Waits(k.job)'
        BY <1>4, <1>11, <1>18 DEF Waits, InPool
      <4> QED BY <1>2, <4>3, <4>4, <4>5 DEF Placed, Carried
    <3> QED BY <3>1, <3>2 DEF JobsInv
  <2>2. TakersInv'
    <3>1. Pending' = Pending
      BY <1>1 DEF Pending
    <3>2. Takers' = Takers
      BY <1>11, <1>18 DEF Takers
    <3>3. Taking' = Taking
      BY <1>2, <1>6, <1>8, <1>9, <1>18 DEF Taking
    <3> QED BY <1>1, <1>10, <3>1, <3>2, <3>3, BoundStays DEF TakersInv
  <2> QED BY <1>13, <1>14, <1>15, <1>16, <2>1, <2>2
<1> QED BY <1>4, <1>17, <1>18

\* Steps that move no thread, job or task.
LEMMA StillHolds ==
  ASSUME IInv, thread' = thread, pending' = pending, promise' = promise, posted' = posted,
         executed' = executed, closed' \in BOOLEAN, pipelines' \in [Descriptors -> Jobs \cup {None}],
         \/ life' = life
         \/ life = "alive" /\ life' = "joining" /\ \A t \in Clients : thread[t].at \in {"idle", "wait"}
         \/ life = "finishing" /\ life' = "gone"
  PROVE  IInv'
<1> USE DEF IInv
<1>1. Unstarted' = Unstarted
  BY DEF Unstarted
<1>2. life' \in {"alive", "joining"} <=> life \in {"alive", "joining"}
  OBVIOUS
<1>3. TypeOK'
  BY DEF TypeOK
<1>4. ThreadsInv' /\ PendingInv' /\ KeysInv'
  BY KeysStay DEF ThreadsInv, PendingInv
<1>5. LifeInv'
  BY DEF LifeInv
<1>6. JobsInv'
  <2>1. ASSUME NEW j \in Jobs PROVE Placed(j)'
    <3>1. CarriedBy(j)' = CarriedBy(j) /\ (Queued(j)' <=> Queued(j)) /\ (Waits(j)' <=> Waits(j))
      BY <1>1, <1>2 DEF CarriedBy, Queued, Waits, InPool
    <3> QED BY <3>1, PlaceStays DEF JobsInv
  <2> QED BY <2>1 DEF JobsInv
<1>7. TakersInv'
  <2>1. Pending' = Pending /\ Takers' = Takers /\ Taking' = Taking
    BY <1>1 DEF Pending, Takers, Taking
  <2> QED BY <1>2, <2>1, BoundStays DEF TakersInv
<1> QED BY <1>3, <1>4, <1>5, <1>6, <1>7

\* The jobs the joined pool has left are completed as they are destroyed.
LEMMA PoolJoinedHolds ==
  ASSUME IInv, PoolJoined
  PROVE  IInv'
<1> USE DEF IInv
<1>1. /\ life = "joining" /\ life' = "finishing" /\ pipelines' = pipelines /\ pending' = pending
      /\ thread' = thread /\ posted' = posted /\ executed' = executed /\ closed' = closed
      /\ \A w \in Workers : thread[w].at = "ended"
  BY DEF PoolJoined, libraryVars, poolVars
<1>2. ASSUME NEW j \in Jobs
      PROVE  promise'[j] = IF ~InPool(j) THEN promise[j]
                           ELSE IF j.desc \in Graphics THEN "set" ELSE "broken"
  BY DEF PoolJoined, InPool
<1>3. promise' \in [Jobs -> {"none", "unset", "set", "broken"}]
  BY DEF PoolJoined, TypeOK
<1>4. TypeOK'
  BY <1>1, <1>3 DEF TypeOK
<1>5. ThreadsInv' /\ PendingInv'
  BY <1>1 DEF ThreadsInv, PendingInv
<1>6. LifeInv'
  BY <1>1 DEF LifeInv
<1>7. ASSUME NEW j \in Jobs, InPool(j) PROVE WithPool(j) /\ promise[j] = "unset"
  <2>1. Waits(j)
    BY <1>1, <1>7 DEF Waits
  <2> QED BY <2>1 DEF JobsInv, Placed, Nowhere, Carried, InQueue
<1>8. KeysInv'
  <2>1. ASSUME NEW j \in Jobs PROVE promise'[j] = "none" <=> promise[j] = "none"
    BY <1>2, <1>7
  <2> QED BY <2>1, KeysStay
<1>9. JobsInv'
  <2>1. ASSUME NEW j \in Jobs PROVE Placed(j)'
    <3>1. /\ CarriedBy(j)' = CarriedBy(j) /\ (Queued(j)' <=> Queued(j)) /\ ~Waits(j)'
      BY <1>1 DEF CarriedBy, Queued, Waits
    <3>2. CASE InPool(j)
      <4>1. promise'[j] # "unset"
        BY <1>2, <3>2
      <4> QED BY <1>7, <3>1, <3>2, <4>1 DEF Placed, Nowhere, WithPool
    <3>3. CASE ~InPool(j)
      <4>1. ~Waits(j) /\ promise'[j] = promise[j]
        BY <1>2, <3>3 DEF Waits
      <4> QED BY <3>1, <4>1, PlaceStays DEF JobsInv
    <3> QED BY <3>2, <3>3
  <2> QED BY <2>1 DEF JobsInv
<1>10. TakersInv'
  <2>1. Pending' = Pending
    BY <1>1 DEF Pending
  <2> QED BY <1>1, <2>1, BoundNext DEF TakersInv
<1> QED BY <1>4, <1>5, <1>6, <1>8, <1>9, <1>10

\* The destructor of the queue takes what is left.
LEMMA FinishAllJobsHolds ==
  ASSUME IInv, FinishAllJobs
  PROVE  IInv'
<1> USE DEF IInv
<1>1. /\ life = "finishing" /\ thread[Owner].at = "idle" /\ pipelines' = pipelines
      /\ pending' = pending /\ promise' = promise /\ UNCHANGED poolVars
  BY DEF FinishAllJobs, libraryVars
<1>2. posted' = posted /\ executed' = executed /\ closed' = closed
  BY <1>1 DEF poolVars
<1>3. CASE life' = "gone" /\ thread' = thread
  BY <1>1, <1>2, <1>3, StillHolds DEF TypeOK
<1>4. CASE Set(Owner, [Idle EXCEPT !.at = "take"]) /\ life' = life
  <2> DEFINE r == [Idle EXCEPT !.at = "take"]
  <2>1. Owner \in Threads
    BY DEF Threads
  <2>2. r \in Records /\ r.at = "take" /\ r.task = None /\ r.eager = FALSE
    BY DEF Idle, Records
  <2> HIDE DEF r
  <2>3. Set(Owner, r)
    BY <1>4 DEF r
  <2>4. thread'[Owner] = r /\ \A u \in Threads \ {Owner} : thread'[u] = thread[u]
    BY <2>1, <2>2, <2>3, SetThread
  <2>5. thread[Owner].task = None
    BY <1>1, <2>1 DEF ThreadsInv, ThreadOK
  <2>6. Unstarted' = Unstarted
    BY <1>1, <2>1, <2>2, <2>4, <2>5, UnstartedStays
  <2>7. TypeOK'
    BY <1>1, <1>2, <1>4, <2>1, <2>2, <2>3, TypesMove DEF TypeOK
  <2>8. ThreadsInv'
    <3>1. ThreadOK(r, posted' \ executed')
      BY <2>2 DEF ThreadOK
    <3> QED BY <1>2, <2>1, <2>2, <2>4, <3>1, ThreadsMove
  <2>9. LifeInv'
    BY <1>1, <1>4, <2>1, <2>2, <2>4, LifeMoves
  <2>10. PendingInv' /\ KeysInv'
    BY <1>1, KeysStay DEF PendingInv
  <2>11. JobsInv'
    <3>1. ASSUME NEW i \in Jobs PROVE Placed(i)'
      BY <1>1, <1>4, <2>1, <2>2, <2>4, <2>6, OtherStays DEF Queued, InPool
    <3> QED BY <3>1 DEF JobsInv
  <2>12. TakersInv'
    <3>1. Pending' = Pending
      BY <1>1 DEF Pending
    <3> QED BY <1>1, <1>2, <1>4, <3>1, BoundNext DEF TakersInv
  <2> QED BY <2>7, <2>8, <2>9, <2>10, <2>11, <2>12
<1> QED BY <1>3, <1>4 DEF FinishAllJobs

-----------------------------------------------------------------------------
(* The inductive invariant and what follows.                               *)

\* At first there is no job.
LEMMA InitHolds ==
  ASSUME Init
  PROVE  IInv
<1>1. /\ pipelines = [d \in Descriptors |-> None] /\ pending = [d \in Graphics |-> None]
      /\ promise = [j \in Jobs |-> "none"] /\ thread = [t \in Threads |-> Idle] /\ life = "alive"
      /\ posted = {} /\ executed = {} /\ closed = FALSE
  BY DEF Init, Pool!Init
<1>2. \A t \in Threads : thread[t] = Idle
  BY <1>1
<1>3. Unstarted = {}
  BY <1>1 DEF Unstarted
<1>4. TypeOK
  <2>1. thread \in [Threads -> Records]
    BY <1>1, IdleRecord
  <2> QED BY <1>1, <2>1 DEF TypeOK, Records
<1>5. ThreadsInv /\ LifeInv
  BY <1>1, <1>2, IdleRecord DEF ThreadsInv, ThreadOK, LifeInv
<1>6. PendingInv
  BY <1>1 DEF PendingInv
<1>7. KeysInv
  <2>1. Existing = {}
    BY <1>1 DEF Existing
  <2> QED BY <2>1, FS_EmptySet DEF KeysInv
<1>8. JobsInv
  <2>1. ASSUME NEW j \in Jobs PROVE Placed(j)
    <3>1. CarriedBy(j) = {}
      BY <1>2, IdleRecord DEF CarriedBy
    <3>2. ~Queued(j)
      BY <1>1, NoneAssumption DEF Queued
    <3>3. ~Waits(j)
      BY <1>3 DEF Waits, InPool
    <3> QED BY <1>1, <3>1, <3>2, <3>3 DEF Placed, Nowhere
  <2> QED BY <2>1 DEF JobsInv
<1>9. TakersInv
  <2>1. Pending = {} /\ IsFiniteSet(posted)
    BY <1>1, FS_EmptySet DEF Pending
  <2>2. IsFiniteSet(Pending) /\ Cardinality(Pending) = 0
    BY <2>1, FS_EmptySet
  <2>3. Cardinality(Takers) \in Nat /\ Cardinality(Taking) \in Nat
    BY <2>1, <2>2, BoundTypes
  <2>4. Cardinality(Pending) <= Cardinality(Takers) + Cardinality(Taking)
    BY <2>2, <2>3
  <2> QED BY <2>1, <2>2, <2>4 DEF TakersInv, QueuedJobsHaveTakers, Pending, Takers, Taking
<1> QED BY <1>4, <1>5, <1>6, <1>7, <1>8, <1>9 DEF IInv

\* Every action keeps the invariant.
LEMMA StepHolds ==
  ASSUME IInv, [Next]_vars
  PROVE  IInv'
<1>1. CASE \E t \in Threads : Step(t)
  BY <1>1, PostComputeJobHolds, InsertJobHolds, PostSecondJobHolds, AnnounceJobHolds,
     TakeNextJobHolds, TakeJobHolds, RunJobHolds, FutureGetHolds DEF Step
<1>2. CASE \E w \in Workers : WorkerStep(w)
  BY <1>2, StartTaskHolds, EndWorkerHolds DEF WorkerStep
<1>3. CASE \E t \in Clients : Request(t)
  <2>1. PICK t \in Clients : Request(t)
    BY <1>3
  <2>2. CASE \E d \in Descriptors, async \in BOOLEAN : GetPipeline(t, d, async)
    BY <2>2, GetPipelineHolds
  <2>3. CASE \E d \in Graphics : RemovePipelinesWithEntryPoint(t, d)
    <3>1. PICK d \in Graphics : RemovePipelinesWithEntryPoint(t, d)
      BY <2>3
    <3>2. pipelines' \in [Descriptors -> Jobs \cup {None}]
      BY <3>1 DEF RemovePipelinesWithEntryPoint, IInv, TypeOK
    <3>3. closed' \in BOOLEAN
      BY <3>1 DEF RemovePipelinesWithEntryPoint, poolVars, IInv, TypeOK
    <3> QED BY <3>1, <3>2, <3>3, StillHolds DEF RemovePipelinesWithEntryPoint, poolVars
  <2>4. CASE \E eager \in BOOLEAN : WaitAndGet(t, eager)
    BY <2>4, WaitAndGetHolds
  <2> QED BY <2>1, <2>2, <2>3, <2>4 DEF Request
<1>4. CASE Shutdown
  BY <1>4, StillHolds DEF Shutdown, Pool!Close, libraryVars, IInv, TypeOK
<1>5. CASE DestroyPool
  BY <1>5, StillHolds DEF DestroyPool, Pool!Close, libraryVars, IInv, TypeOK
<1>6. CASE PoolJoined
  BY <1>6, PoolJoinedHolds
<1>7. CASE FinishAllJobs
  BY <1>7, FinishAllJobsHolds
<1>8. CASE UNCHANGED vars
  BY <1>8, StillHolds DEF vars, IInv, TypeOK
<1> QED BY <1>1, <1>2, <1>3, <1>4, <1>5, <1>6, <1>7, <1>8 DEF Next

\* So it holds always.
LEMMA IInvInvariant == Spec => []IInv
<1>1. Init => IInv
  BY InitHolds
<1>2. IInv /\ [Next]_vars => IInv'
  BY StepHolds
<1> QED BY <1>1, <1>2, PTL DEF Spec

\* The library, the queue, the threads and the pool keep their types.
THEOREM TypeInvariant == Spec => []TypeOK
<1>1. IInv => TypeOK
  BY DEF IInv
<1> QED BY <1>1, IInvInvariant, PTL

\* A place, counted.
LEMMA PlaceCounts ==
  ASSUME NEW j \in Jobs, Placed(j)
  PROVE  Cardinality(CarriedBy(j)) + (IF Queued(j) THEN 1 ELSE 0)
           + (IF InPool(j) /\ life \in {"alive", "joining"} THEN 1 ELSE 0)
             = IF promise[j] = "unset" THEN 1 ELSE 0
<1> USE DEF Waits
<1>1. CASE promise[j] # "unset" /\ Nowhere(j)
  <2>1. Cardinality(CarriedBy(j)) = 0 /\ ~Queued(j) /\ ~Waits(j)
    BY <1>1, FS_EmptySet DEF Nowhere
  <2> QED BY <1>1, <2>1
<1>2. CASE promise[j] = "unset" /\ Carried(j)
  <2>1. Cardinality(CarriedBy(j)) = 1 /\ ~Queued(j) /\ ~Waits(j)
    BY <1>2, FS_Singleton DEF Carried
  <2> QED BY <1>2, <2>1
<1>3. CASE promise[j] = "unset" /\ InQueue(j)
  <2>1. Cardinality(CarriedBy(j)) = 0 /\ Queued(j) /\ ~Waits(j)
    BY <1>3, FS_EmptySet DEF InQueue
  <2> QED BY <1>3, <2>1
<1>4. CASE promise[j] = "unset" /\ WithPool(j)
  <2>1. Cardinality(CarriedBy(j)) = 0 /\ ~Queued(j) /\ Waits(j)
    BY <1>4, FS_EmptySet DEF WithPool
  <2> QED BY <1>4, <2>1
<1> QED BY <1>1, <1>2, <1>3, <1>4 DEF Placed

\* Whoever takes a job, worker, waiter, caller of a closed pool or destructor, no
\* promise of the library is lost and none is set twice.
THEOREM EveryJobOnceInvariant == Spec => []EveryJobOnce
<1>1. IInv => EveryJobOnce
  BY PlaceCounts DEF IInv, JobsInv, EveryJobOnce
<1> QED BY <1>1, IInvInvariant, PTL

\* DoOneJob may take another's job, and waiters take jobs without their tasks,
\* yet each job in pending_jobs_ has a task of the pool to come for it.
THEOREM QueuedJobsHaveTakersInvariant == Spec => []QueuedJobsHaveTakers
<1>1. IInv => QueuedJobsHaveTakers
  BY DEF IInv, TakersInv
<1> QED BY <1>1, IInvInvariant, PTL

-----------------------------------------------------------------------------
(* Executor is posted a task once.  Callers keep to that.                  *)

Posting(r) == r.at \in {"post", "announce"}
JobTask(j) == [kind |-> "job", job |-> j]
OneTask(j) == [kind |-> "one", job |-> j]

\* What a thread is about to post was not posted before.
PostsAccepted ==
  \A t \in Threads :
    /\ thread[t].at = "post" => JobTask(thread[t].job) \notin posted
    /\ thread[t].at = "announce" => OneTask(thread[t].job) \notin posted

\* Because each job is posted, or inserted and announced, by the thread that
\* made it.
PostsInv ==
  /\ PostsAccepted
  /\ \A k \in posted : k.job \in Existing
  /\ \A t \in Threads : Posting(thread[t]) =>
       thread[t].job \in Existing /\ OneTask(thread[t].job) \notin posted
  /\ \A t, u \in Threads : Posting(thread[t]) /\ Posting(thread[u]) /\ thread[t].job = thread[u].job => t = u

\* Steps in which no job is made: who is posting after the step was before it,
\* and what is posted is the job of a thread that is then done with it.
Plain ==
  /\ \A j \in Jobs : promise'[j] = "none" => promise[j] = "none"
  /\ \A u \in Threads : Posting(thread'[u]) =>
       /\ Posting(thread[u]) /\ thread'[u].job = thread[u].job
       /\ thread'[u].at = "post" => thread[u].at = "post"
  /\ \A k \in posted' \ posted : \E t \in Threads :
       Posting(thread[t]) /\ k.job = thread[t].job /\ ~Posting(thread'[t])

\* They keep PostsInv.
LEMMA PlainKeepsPosts ==
  ASSUME PostsInv, Plain
  PROVE  PostsInv'
<1>1. Existing \subseteq Existing'
  BY DEF Plain, Existing
<1>2. ASSUME NEW k \in posted', k \notin posted
      PROVE  k.job \in Existing /\ \A u \in Threads : Posting(thread'[u]) => thread'[u].job # k.job
  <2>1. PICK t \in Threads : Posting(thread[t]) /\ k.job = thread[t].job /\ ~Posting(thread'[t])
    BY <1>2 DEF Plain
  <2> QED BY <2>1 DEF PostsInv, Plain
<1>3. ASSUME NEW t \in Threads, Posting(thread'[t])
      PROVE  /\ thread'[t].job \in Existing' /\ OneTask(thread'[t].job) \notin posted'
             /\ thread'[t].at = "post" => JobTask(thread'[t].job) \notin posted'
  <2>1. /\ Posting(thread[t]) /\ thread'[t].job = thread[t].job
        /\ thread'[t].at = "post" => thread[t].at = "post"
    BY <1>3 DEF Plain
  <2>2. /\ thread[t].job \in Existing /\ OneTask(thread[t].job) \notin posted
        /\ thread'[t].at = "post" => JobTask(thread[t].job) \notin posted
    BY <2>1 DEF PostsInv, PostsAccepted
  <2>3. OneTask(thread'[t].job).job = thread'[t].job /\ JobTask(thread'[t].job).job = thread'[t].job
    BY DEF OneTask, JobTask
  <2> QED BY <1>1, <1>2, <1>3, <2>1, <2>2, <2>3
<1>4. \A k \in posted' : k.job \in Existing'
  BY <1>1, <1>2 DEF PostsInv
<1>5. \A t, u \in Threads :
        Posting(thread'[t]) /\ Posting(thread'[u]) /\ thread'[t].job = thread'[u].job => t = u
  BY DEF PostsInv, Plain
<1>6. \A t \in Threads :
        /\ thread'[t].at = "post" => JobTask(thread'[t].job) \notin posted'
        /\ thread'[t].at = "announce" => OneTask(thread'[t].job) \notin posted'
  BY <1>3 DEF Posting
<1> QED BY <1>3, <1>4, <1>5, <1>6 DEF PostsInv, PostsAccepted, Posting, JobTask, OneTask

\* The step of a thread that is posting nothing afterwards.
LEMMA PlainMove ==
  ASSUME TypeOK, NEW t \in Threads, NEW r \in Records, Set(t, r), r.at \notin {"post", "announce"},
         \A j \in Jobs : promise'[j] = "none" => promise[j] = "none",
         \/ posted' = posted
         \/ \E k : posted' = posted \cup {k} /\ k.job = thread[t].job /\ Posting(thread[t])
  PROVE  Plain
<1>1. thread'[t] = r /\ \A u \in Threads \ {t} : thread'[u] = thread[u]
  BY SetThread
<1>2. \A u \in Threads : Posting(thread'[u]) => thread'[u] = thread[u]
  BY <1>1 DEF Posting
<1>3. \A k \in posted' \ posted :
        Posting(thread[t]) /\ k.job = thread[t].job /\ ~Posting(thread'[t])
  BY <1>1 DEF Posting
<1> QED BY <1>2, <1>3 DEF Plain

\* A job is new when it is made.
LEMMA NewJobPosts ==
  ASSUME IInv, PostsInv, NEW t \in Clients, NEW d \in Descriptors, NEW async \in BOOLEAN,
         GetPipeline(t, d, async)
  PROVE  PostsInv'
<1> USE DEF GetPipeline
<1>1. t \in Threads /\ posted' = posted
  BY DEF Threads, poolVars
<1>2. CASE pipelines[d] # None
  <2> DEFINE r == [Idle EXCEPT !.future = pipelines[d]]
  <2>1. pipelines[d] \in Jobs
    BY <1>2 DEF IInv, TypeOK
  <2>2. r \in Records /\ r.at = "idle"
    BY <2>1 DEF Idle, Records
  <2> HIDE DEF r
  <2>3. Set(t, r) /\ promise' = promise
    BY <1>2 DEF r
  <2>4. Plain
    BY <1>1, <2>2, <2>3, PlainMove DEF IInv
  <2> QED BY <2>4, PlainKeepsPosts
<1>3. CASE pipelines[d] = None
  <2>0. PICK j : j = [desc |-> d, key |-> NextKey]
    OBVIOUS
  <2> DEFINE at == IF async THEN "post" ELSE "run"
             r == [Idle EXCEPT !.job = j, !.locks = {"pipelines"}, !.future = j, !.at = at]
  <2>1. /\ IsFiniteSet(Existing) /\ Cardinality(Existing) \in Nat
        /\ NextKey = 1 + Cardinality(Existing) /\ NextKey <= MaxKey
    BY <1>3, FS_CardinalityType DEF IInv, KeysInv, Existing, NextKey
  <2>2. j \in Jobs /\ j.key = NextKey
    BY <2>0, <2>1, ThreadsAssumption DEF Jobs
  <2>3. j \notin Existing
    BY <2>1, <2>2 DEF IInv, KeysInv
  <2>4. r \in Records /\ r.job = j
    BY <2>2 DEF Idle, Records
  <2>5. Set(t, r)
    BY <1>3, <2>0 DEF Idle
  <2> HIDE DEF r
  <2>6. thread'[t] = r /\ \A u \in Threads \ {t} : thread'[u] = thread[u]
    BY <1>1, <2>4, <2>5, SetThread DEF IInv
  <2>7. Existing' = Existing \cup {j}
    BY <1>3, <2>0, <2>2 DEF Existing, IInv, TypeOK
  <2>8. JobTask(j) \notin posted /\ OneTask(j) \notin posted
    <3>1. JobTask(j).job = j /\ OneTask(j).job = j
      BY DEF JobTask, OneTask
    <3> QED BY <2>3, <3>1 DEF PostsInv
  <2>9. PostsAccepted'
    BY <1>1, <2>4, <2>6, <2>8 DEF PostsInv, PostsAccepted, JobTask, OneTask
  <2>10. \A k \in posted' : k.job \in Existing'
    BY <1>1, <2>7 DEF PostsInv
  <2>11. ASSUME NEW u \in Threads, Posting(thread'[u])
         PROVE  thread'[u].job \in Existing' /\ OneTask(thread'[u].job) \notin posted'
    BY <1>1, <2>4, <2>6, <2>7, <2>8, <2>11 DEF PostsInv
  <2>12. ASSUME NEW u \in Threads, NEW v \in Threads, Posting(thread'[u]), Posting(thread'[v]),
                thread'[u].job = thread'[v].job
         PROVE  u = v
    BY <2>3, <2>4, <2>6, <2>12 DEF PostsInv
  <2> QED BY <2>9, <2>10, <2>11, <2>12 DEF PostsInv, Posting, OneTask
<1> QED BY <1>2, <1>3

\* The other steps make none.
LEMMA StepIsPlain ==
  ASSUME IInv, NEW t \in Threads, Step(t)
  PROVE  Plain
<1>0. TypeOK /\ thread[t] \in Records /\ Returned(t) \in Records /\ Returned(t).at \in {"idle", "wait"}
  BY ThreadRecord, ReturnedRecord DEF IInv
<1>1. ASSUME NEW kind, PostTask(t, kind, thread[t].job), thread[t].at \in {"post", "announce"},
             kind \in {"job", "one"}, promise' = promise
      PROVE  Plain
  <2>1. PICK k : k = [kind |-> kind, job |-> thread[t].job]
    OBVIOUS
  <2>2. thread[t].job \in Jobs
    BY <1>1 DEF IInv, ThreadsInv, ThreadOK
  <2>3. k \in Tasks /\ k.job = thread[t].job
    BY <1>1, <2>1, <2>2 DEF Tasks
  <2>4. posted' = posted \cup {k}
    BY <1>1, <2>1 DEF PostTask, Pool!Post
  <2> DEFINE x == [thread[t] EXCEPT !.at = "take", !.task = k]
             y == [thread[t] EXCEPT !.at = "run", !.job = thread[t].job, !.task = k]
  <2>5. x \in Records /\ x.at = "take" /\ y \in Records /\ y.at = "run"
    BY <1>0, <2>2, <2>3 DEF Records
  <2>6. Set(t, Returned(t)) \/ Set(t, x) \/ Set(t, y)
    BY <1>1, <2>1 DEF PostTask
  <2> HIDE DEF x, y
  <2>7. PICK r \in Records : Set(t, r) /\ r.at \notin {"post", "announce"}
    BY <1>0, <2>5, <2>6
  <2> QED BY <1>0, <1>1, <2>3, <2>4, <2>7, PlainMove DEF Posting
<1>2. CASE PostComputeJob(t)
  BY <1>1, <1>2 DEF PostComputeJob
<1>3. CASE AnnounceJob(t)
  BY <1>1, <1>3 DEF AnnounceJob
<1>4. CASE InsertJob(t)
  <2> DEFINE r == [thread[t] EXCEPT !.at = "announce"]
  <2>1. Set(t, r) /\ posted' = posted /\ promise' = promise /\ thread[t].at = "post"
    BY <1>4 DEF InsertJob, poolVars
  <2>2. r \in Records /\ r.at = "announce" /\ r.job = thread[t].job
    BY <1>0 DEF Records
  <2> HIDE DEF r
  <2>3. thread'[t] = r /\ \A u \in Threads \ {t} : thread'[u] = thread[u]
    BY <1>0, <2>1, <2>2, SetThread
  <2> QED BY <2>1, <2>2, <2>3 DEF Plain, Posting
<1>5. CASE PostSecondJob(t)
  <2>1. PICK k : k = [kind |-> "job", job |-> thread[t].job]
    OBVIOUS
  <2>2. /\ Pool!Post(k) /\ thread[t].at = "post" /\ promise' = promise
        /\ Set(t, IF ~closed THEN Returned(t)
                  ELSE [thread[t] EXCEPT !.at = "run", !.locks = @ \cup {"pending"}, !.task = k])
    BY <1>5, <2>1 DEF PostSecondJob
  <2>3. thread[t].job \in Jobs
    BY <2>2 DEF IInv, ThreadsInv, ThreadOK
  <2>4. k \in Tasks /\ k.job = thread[t].job
    BY <2>1, <2>3 DEF Tasks
  <2>5. posted' = posted \cup {k}
    BY <2>2 DEF Pool!Post
  <2> DEFINE l == thread[t].locks \cup {"pending"}
             y == [thread[t] EXCEPT !.at = "run", !.locks = l, !.task = k]
  <2>6. y = [thread[t] EXCEPT !.at = "run", !.locks = @ \cup {"pending"}, !.task = k]
    BY <1>0 DEF Records
  <2>7. l \in SUBSET {"pipelines", "pending"}
    BY <1>0 DEF Records
  <2>8. Set(t, Returned(t)) \/ Set(t, y)
    BY <2>2, <2>6
  <2> HIDE DEF l
  <2>9. y \in Records /\ y.at = "run"
    BY <1>0, <2>4, <2>7 DEF Records
  <2> HIDE DEF y
  <2>10. PICK r \in Records : Set(t, r) /\ r.at \notin {"post", "announce"}
    BY <1>0, <2>8, <2>9
  <2> QED BY <1>0, <2>2, <2>4, <2>5, <2>10, PlainMove DEF Posting
<1>6. CASE TakeNextJob(t) \/ TakeJob(t) \/ RunJob(t) \/ FutureGet(t)
  <2>1. posted' = posted
    BY <1>6 DEF TakeNextJob, TakeJob, RunJob, FutureGet, EndTask, Pool!Execute, poolVars
  <2>2. \A j \in Jobs : promise'[j] = "none" => promise[j] = "none"
    BY <1>0, <1>6 DEF TakeNextJob, TakeJob, RunJob, FutureGet, TypeOK
  <2>3. \A d \in Graphics : pending[d] # None =>
          LET y == [thread[t] EXCEPT !.at = "run", !.job = pending[d]]
          IN  y \in Records /\ y.at = "run"
    BY <1>0 DEF Records, TypeOK
  <2>4. thread[t].at = "perform" => thread[t].future.desc \in Graphics
    BY DEF IInv, ThreadsInv, ThreadOK
  <2>5. \/ Set(t, Returned(t)) \/ Set(t, Idle)
        \/ \E d \in Graphics : pending[d] # None /\ Set(t, [thread[t] EXCEPT !.at = "run", !.job = pending[d]])
    BY <1>6, <2>4 DEF TakeNextJob, TakeJob, RunJob, FutureGet
  <2>6. PICK r \in Records : Set(t, r) /\ r.at \notin {"post", "announce"}
    BY <1>0, <2>3, <2>5, IdleRecord
  <2> QED BY <1>0, <2>1, <2>2, <2>6, PlainMove
<1> QED BY <1>2, <1>3, <1>4, <1>5, <1>6 DEF Step

\* Every action keeps PostsInv.
LEMMA NextPosts ==
  ASSUME IInv, PostsInv, [Next]_vars
  PROVE  PostsInv'
<1>0. TypeOK
  BY DEF IInv
<1>1. CASE \E t \in Threads : Step(t)
  BY <1>1, StepIsPlain, PlainKeepsPosts
<1>2. CASE \E w \in Workers : WorkerStep(w)
  <2>1. PICK w \in Workers : StartTask(w) \/ EndWorker(w)
    BY <1>2 DEF WorkerStep
  <2>2. w \in Threads /\ posted' = posted /\ promise' = promise
    BY <2>1 DEF StartTask, EndWorker, poolVars, Threads
  <2>3. CASE EndWorker(w)
    <3>1. /\ Set(w, [Idle EXCEPT !.at = "ended"]) /\ [Idle EXCEPT !.at = "ended"] \in Records
          /\ [Idle EXCEPT !.at = "ended"].at = "ended"
      BY <2>3 DEF EndWorker, Idle, Records
    <3>2. Plain
      BY <1>0, <2>2, <3>1, PlainMove
    <3> QED BY <3>2, PlainKeepsPosts
  <2>4. CASE StartTask(w)
    <3>1. PICK k \in Unstarted :
            Set(w, [Idle EXCEPT !.task = k, !.at = IF k.kind = "one" THEN "take" ELSE "run",
                                !.job = IF k.kind = "one" THEN None ELSE k.job])
      BY <2>4 DEF StartTask
    <3> DEFINE at == IF k.kind = "one" THEN "take" ELSE "run"
               jb == IF k.kind = "one" THEN None ELSE k.job
               r == [Idle EXCEPT !.task = k, !.at = at, !.job = jb]
    <3>2. k \in Tasks
      BY <1>0 DEF Unstarted, TypeOK
    <3>3. at \in {"take", "run"} /\ jb \in Jobs \cup {None}
      BY <3>2 DEF Tasks
    <3>4. Set(w, r)
      BY <3>1
    <3> HIDE DEF at, jb
    <3>5. r \in Records /\ r.at \notin {"post", "announce"}
      BY <3>2, <3>3 DEF Idle, Records
    <3> HIDE DEF r
    <3>6. Plain
      BY <1>0, <2>2, <3>4, <3>5, PlainMove
    <3> QED BY <3>6, PlainKeepsPosts
  <2> QED BY <2>1, <2>3, <2>4
<1>3. CASE \E t \in Clients : Request(t)
  <2>1. PICK t \in Clients : Request(t)
    BY <1>3
  <2>2. CASE \E d \in Descriptors, async \in BOOLEAN : GetPipeline(t, d, async)
    BY <2>2, NewJobPosts
  <2>3. CASE \E d \in Graphics : RemovePipelinesWithEntryPoint(t, d)
    <3>1. Plain
      BY <2>3 DEF RemovePipelinesWithEntryPoint, poolVars, Plain
    <3> QED BY <3>1, PlainKeepsPosts
  <2>4. CASE \E eager \in BOOLEAN : WaitAndGet(t, eager)
    <3>1. PICK eager \in BOOLEAN : WaitAndGet(t, eager)
      BY <2>4
    <3> DEFINE at == IF eager THEN "perform" ELSE "wait"
               r == [thread[t] EXCEPT !.at = at, !.eager = eager]
    <3>2. t \in Threads /\ thread[t] \in Records
      BY <1>0, ThreadRecord DEF Threads
    <3>3. at \in {"perform", "wait"}
      OBVIOUS
    <3>4. Set(t, r) /\ posted' = posted /\ promise' = promise
      BY <3>1 DEF WaitAndGet, poolVars
    <3> HIDE DEF at
    <3>5. r \in Records /\ r.at \notin {"post", "announce"}
      BY <3>2, <3>3 DEF Records
    <3> HIDE DEF r
    <3>6. Plain
      BY <1>0, <3>2, <3>4, <3>5, PlainMove
    <3> QED BY <3>6, PlainKeepsPosts
  <2> QED BY <2>1, <2>2, <2>3, <2>4 DEF Request
<1>4. CASE Shutdown \/ DestroyPool \/ UNCHANGED vars
  <2>1. thread' = thread /\ promise' = promise /\ posted' = posted
    BY <1>4 DEF Shutdown, DestroyPool, Pool!Close, vars
  <2>2. Plain
    BY <2>1 DEF Plain
  <2> QED BY <2>2, PlainKeepsPosts
<1>5. CASE PoolJoined
  <2>1. thread' = thread /\ posted' = posted
    BY <1>5 DEF PoolJoined, poolVars
  <2>2. \A j \in Jobs : promise'[j] = "none" => promise[j] = "none"
    BY <1>5 DEF PoolJoined
  <2>3. Plain
    BY <2>1, <2>2 DEF Plain
  <2> QED BY <2>3, PlainKeepsPosts
<1>6. CASE FinishAllJobs
  <2>1. posted' = posted /\ promise' = promise /\ Owner \in Threads
    BY <1>6 DEF FinishAllJobs, poolVars, Threads
  <2>2. [Idle EXCEPT !.at = "take"] \in Records /\ [Idle EXCEPT !.at = "take"].at = "take"
    BY DEF Idle, Records
  <2>3. CASE thread' = thread
    BY <2>1, <2>3, PlainKeepsPosts DEF Plain
  <2>4. CASE Set(Owner, [Idle EXCEPT !.at = "take"])
    BY <1>0, <2>1, <2>2, <2>4, PlainMove, PlainKeepsPosts
  <2> QED BY <1>6, <2>3, <2>4 DEF FinishAllJobs
<1> QED BY <1>1, <1>2, <1>3, <1>4, <1>5, <1>6 DEF Next

\* The library and the queue never post a task twice, so that the condition on
\* which Executor accepts a task never holds a call back.
THEOREM PostsAcceptedInvariant == Spec => []PostsAccepted
<1>1. Init => PostsInv
  <2> SUFFICES ASSUME Init PROVE PostsInv
    OBVIOUS
  <2>1. posted = {} /\ \A t \in Threads : thread[t].at = "idle"
    BY IdleRecord DEF Init, Pool!Init
  <2> QED BY <2>1 DEF PostsInv, PostsAccepted, Posting
<1>2. IInv /\ PostsInv /\ [Next]_vars => PostsInv'
  BY NextPosts
<1>3. PostsInv => PostsAccepted
  BY DEF PostsInv
<1> QED BY <1>1, <1>2, <1>3, IInvInvariant, PTL DEF Spec
=============================================================================

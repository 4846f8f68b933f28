-------------------------- MODULE TaskQueuesProofs --------------------------
(***************************************************************************)
(* Theorems about TaskQueues, for any number of queues, tasks and instants.*)
(*                                                                         *)
(* TypeOK comes first.  MergeStates is inductive beside it.  The other     *)
(* properties rest on Bookkeeping: tasks have distinct numbers, below      *)
(* order_, and live in queues that have an entry.                          *)
(***************************************************************************)
EXTENDS TaskQueues, WellFoundedInduction, TLAPS

Bookkeeping ==
  /\ \A t \in pending \cup ran : t.order < order
  /\ \A t, u \in pending : t.order = u.order => t = u
  /\ \A t \in pending : t.queue \in live
  /\ \A q \in Queues : loop[q] = "none" => q \notin live
  /\ \A q \in Queues : cutoff[q] <= now

-----------------------------------------------------------------------------
(* Earliest is defined on every set of tasks with distinct numbers.        *)

\* The natural numbers are well-founded: a set of them has a least one.
LEMMA LeastNat ==
  ASSUME NEW S \in SUBSET Nat, S # {}
  PROVE  \E m \in S : \A n \in S : m <= n
<1>1. PICK m \in S : \A n \in S : <<n, m>> \notin OpToRel(<, Nat)
  BY NatLessThanWellFounded, WFMin, Zenon
<1>2. \A n \in S : ~(n < m)
  BY <1>1, Zenon DEF OpToRel
<1>3. \A n \in S : m <= n
  BY <1>2
<1> QED BY <1>3

\* PeekNextTaskUnlocked picks a task no other one precedes: the tasks of a
\* group, whatever its sources, have a first one.
LEMMA EarliestExists ==
  ASSUME NEW S \in SUBSET Task, S # {},
         \A t, u \in S : t.order = u.order => t = u
  PROVE  /\ Earliest(S) \in S
         /\ \A u \in S : Earliest(S).time <= u.time
         /\ \A u \in S \ {Earliest(S)} : Precedes(Earliest(S), u)
<1> USE QueuesAssumption
<1> DEFINE T == {t.time : t \in S}
<1>1. T \in SUBSET Nat /\ T # {}
  BY DEF Task, Times
<1>2. PICK first \in T : \A n \in T : first <= n
  BY <1>1, LeastNat
<1> DEFINE O == {t.order : t \in {u \in S : u.time = first}}
<1>3. O \in SUBSET Nat /\ O # {}
  BY DEF Task
<1>4. PICK least \in O : \A n \in O : least <= n
  BY <1>3, LeastNat
<1>5. PICK t \in S : t.time = first /\ t.order = least
  OBVIOUS
<1>6. \A u \in S \ {t} : Precedes(t, u)
  <2> SUFFICES ASSUME NEW u \in S \ {t} PROVE Precedes(t, u)
    OBVIOUS
  <2>1. t.time <= u.time
    BY <1>2, <1>5
  <2>2. ASSUME t.time = u.time PROVE t.order < u.order
    <3>1. t.order <= u.order
      BY <1>4, <1>5, <2>2
    <3>2. t.order # u.order
      OBVIOUS
    <3> QED BY <3>1, <3>2 DEF Task
  <2>3. t.time \in Nat /\ u.time \in Nat
    BY DEF Task, Times
  <2> QED BY <2>1, <2>2, <2>3 DEF Precedes
<1>7. \E e \in S : \A u \in S \ {e} : Precedes(e, u)
  BY <1>6
<1>8. Earliest(S) \in S /\ \A u \in S \ {Earliest(S)} : Precedes(Earliest(S), u)
  BY <1>7 DEF Earliest
<1>9. ASSUME NEW u \in S PROVE Earliest(S).time <= u.time
  BY <1>8 DEF Precedes, Task, Times
<1> QED BY <1>8, <1>9

\* WakeUpUnlocked with GetNextWakeTimeUnlocked: the alarms stay in range,
\* those of woken queues cover all they offer, the others do not move.
LEMMA WokenAlarms ==
  ASSUME NEW qs, NEW S \in SUBSET Task, NEW ps, NEW own, NEW sub,
         \A t, u \in S : t.order = u.order => t = u,
         alarm \in [Queues -> 0 .. Never]
  PROVE  /\ Woken(qs, S, ps, own, sub) \in [Queues -> 0 .. Never]
         /\ \A q \in Queues : q \notin qs => Woken(qs, S, ps, own, sub)[q] = alarm[q]
         /\ \A q \in Queues :
              q \in qs /\ sub[q] = Unmerged =>
                \A t \in OfferedBy(S, {q} \cup own[q], ps) :
                   Woken(qs, S, ps, own, sub)[q] <= t.time
<1> USE QueuesAssumption
<1> DEFINE offer(q) == OfferedBy(S, {q} \cup own[q], ps)
<1>1. ASSUME NEW q \in Queues, offer(q) # {}
      PROVE  /\ Earliest(offer(q)).time \in 0 .. Never
             /\ \A t \in offer(q) : Earliest(offer(q)).time <= t.time
  <2>1. offer(q) \in SUBSET Task /\ \A t, u \in offer(q) : t.order = u.order => t = u
    BY DEF OfferedBy
  <2>2. /\ Earliest(offer(q)) \in offer(q)
        /\ \A u \in offer(q) : Earliest(offer(q)).time <= u.time
    BY <1>1, <2>1, EarliestExists
  <2>3. Earliest(offer(q)).time \in Times
    BY <2>1, <2>2 DEF Task
  <2>4. Times \subseteq 0 .. Never
    BY DEF Times, Never
  <2> QED BY <2>2, <2>3, <2>4
<1>2. Woken(qs, S, ps, own, sub) \in [Queues -> 0 .. Never]
  BY <1>1 DEF Woken
<1>3. \A q \in Queues : q \notin qs => Woken(qs, S, ps, own, sub)[q] = alarm[q]
  BY DEF Woken
<1>4. ASSUME NEW q \in Queues, q \in qs, sub[q] = Unmerged, NEW t \in offer(q)
      PROVE  Woken(qs, S, ps, own, sub)[q] <= t.time
  BY <1>1, <1>4 DEF Woken
<1> QED BY <1>2, <1>3, <1>4

-----------------------------------------------------------------------------
(* Types and bookkeeping.                                                  *)

\* What RegisterTask does to the dispatcher, whoever calls it.
LEMMA RegisterTaskTypes ==
  ASSUME TypeOK, Bookkeeping, NEW q \in Queues, NEW source \in Sources,
         NEW time \in Times, RegisterTask(q, source, time),
         UNCHANGED <<now, loop, cutoff, running, terminated>>,
         posting' \subseteq Queues
  PROVE  TypeOK' /\ Bookkeeping'
<1> USE QueuesAssumption
<1> DEFINE task == [queue |-> q, source |-> source, time |-> time, order |-> order]
<1>1. task \in Task
  BY DEF Task, TypeOK
<1>2. pending' = pending \cup {task} /\ pending' \in SUBSET Task
  BY <1>1 DEF RegisterTask, TypeOK
<1>3. \A t, u \in pending' : t.order = u.order => t = u
  BY <1>2 DEF Bookkeeping, TypeOK, Task
<1>4. alarm' \in [Queues -> 0 .. Never]
  BY <1>2, <1>3, WokenAlarms DEF RegisterTask, TypeOK
<1>5. TypeOK'
  <2>1. order' \in Nat /\ live' \subseteq Queues /\ ran' \subseteq Task /\ dropped' \subseteq Task
    BY DEF RegisterTask, TypeOK
  <2>2. /\ pauses' \in [Queues -> Nat] /\ ownerOf' \in [Queues -> SUBSET Queues]
        /\ subsumedBy' \in [Queues -> Queues \cup {Unmerged}]
    BY DEF RegisterTask, TypeOK
  <2> QED BY <1>2, <1>4, <2>1, <2>2 DEF TypeOK
<1>6. \A t \in pending' \cup ran' : t.order < order'
  BY <1>2 DEF Bookkeeping, TypeOK, Task, RegisterTask
<1>7. \A t \in pending' : t.queue \in live'
  BY <1>2 DEF Bookkeeping, RegisterTask
<1> QED BY <1>3, <1>5, <1>6, <1>7 DEF Bookkeeping, RegisterTask

\* Every variable keeps its type, and the tasks their numbers: what is in
\* the heaps was posted to a queue that has an entry, under an order_ that
\* nobody else got.
THEOREM TypeCorrectness == Spec => [](TypeOK /\ Bookkeeping)
<1> USE QueuesAssumption
<1>1. Init => TypeOK /\ Bookkeeping
  BY DEF Init, TypeOK, Bookkeeping, LoopStates, Times, Never
<1>2. TypeOK /\ Bookkeeping /\ [Next]_vars => (TypeOK /\ Bookkeeping)'
  <2> SUFFICES ASSUME TypeOK, Bookkeeping, [Next]_vars
               PROVE  TypeOK' /\ Bookkeeping'
    OBVIOUS
  <2> USE DEF LoopStates
  <2>1. ASSUME NEW q \in Queues, CreateTaskQueue(q)
        PROVE  TypeOK' /\ Bookkeeping'
    BY <2>1 DEF CreateTaskQueue, TypeOK, Bookkeeping
  <2>2. ASSUME NEW q \in Queues, RegisterDartTask(q)
        PROVE  TypeOK' /\ Bookkeeping'
    BY <2>2, RegisterTaskTypes DEF RegisterDartTask, Sources, TypeOK
  <2>3. ASSUME NEW q \in Queues, PostTaskRegister(q)
        PROVE  TypeOK' /\ Bookkeeping'
    BY <2>3, RegisterTaskTypes DEF PostTaskRegister, Sources, TypeOK
  <2>4. ASSUME NEW owner \in Queues, NEW subsumed \in Queues, Merge(owner, subsumed)
        PROVE  TypeOK' /\ Bookkeeping'
    <3>1. alarm' \in [Queues -> 0 .. Never]
      BY <2>4, WokenAlarms DEF Merge, TypeOK, Bookkeeping
    <3>2. ownerOf' \in [Queues -> SUBSET Queues]
          /\ subsumedBy' \in [Queues -> Queues \cup {Unmerged}]
      BY <2>4 DEF Merge, TypeOK
    <3> QED BY <2>4, <3>1, <3>2 DEF Merge, TypeOK, Bookkeeping, loops
  <2>5. ASSUME NEW owner \in Queues, NEW subsumed \in Queues, Unmerge(owner, subsumed)
        PROVE  TypeOK' /\ Bookkeeping'
    <3>1. alarm' \in [Queues -> 0 .. Never]
      BY <2>5, WokenAlarms DEF Unmerge, TypeOK, Bookkeeping
    <3>2. ownerOf' \in [Queues -> SUBSET Queues]
          /\ subsumedBy' \in [Queues -> Queues \cup {Unmerged}]
      BY <2>5 DEF Unmerge, TypeOK
    <3> QED BY <2>5, <3>1, <3>2 DEF Unmerge, TypeOK, Bookkeeping, loops
  <2>6. ASSUME NEW q \in Queues, PauseSecondarySource(q)
        PROVE  TypeOK' /\ Bookkeeping'
    BY <2>6 DEF PauseSecondarySource, TypeOK, Bookkeeping, loops
  <2>7. ASSUME NEW q \in Queues, ResumeSecondarySource(q)
        PROVE  TypeOK' /\ Bookkeeping'
    <3>1. alarm' \in [Queues -> 0 .. Never]
      BY <2>7, WokenAlarms DEF ResumeSecondarySource, TypeOK, Bookkeeping
    <3>2. pauses' \in [Queues -> Nat]
      BY <2>7 DEF ResumeSecondarySource, TypeOK
    <3> QED BY <2>7, <3>1, <3>2 DEF ResumeSecondarySource, TypeOK, Bookkeeping, loops
  <2>8. ASSUME NEW q \in Queues, Dispose(q)
        PROVE  TypeOK' /\ Bookkeeping'
    BY <2>8 DEF Dispose, ShutDownGroup, Group, TypeOK, Bookkeeping
  <2>9. ASSUME NEW q \in Queues, PostTask(q) \/ RunExpiredTasksNow(q) \/ DoRun(q)
        PROVE  TypeOK' /\ Bookkeeping'
    BY <2>9 DEF PostTask, RunExpiredTasksNow, DoRun, dispatcher, TypeOK, Bookkeeping, Times
  <2>10. ASSUME NEW q \in Queues, Run(q) \/ OnEventFired(q) \/ Terminate(q)
         PROVE  TypeOK' /\ Bookkeeping'
    <3>1. now \in 0 .. Never /\ Never \in 0 .. Never
      BY DEF TypeOK, Times, Never
    <3>2. CASE Run(q)
      BY <3>2 DEF Run, dispatcher, TypeOK, Bookkeeping
    <3>3. CASE OnEventFired(q)
      BY <3>1, <3>3 DEF OnEventFired, dispatcher, TypeOK, Bookkeeping, Times
    <3>4. CASE Terminate(q)
      BY <3>1, <3>4 DEF Terminate, dispatcher, TypeOK, Bookkeeping
    <3> QED BY <2>10, <3>2, <3>3, <3>4
  <2>11. ASSUME NEW q \in Queues, RunNextTask(q)
         PROVE  TypeOK' /\ Bookkeeping'
    <3>1. Offered(q) \in SUBSET Task /\ Offered(q) # {}
          /\ \A t, u \in Offered(q) : t.order = u.order => t = u
      BY <2>11 DEF RunNextTask, HasPendingTasks, Offered, OfferedBy, TypeOK, Bookkeeping
    <3>2. PeekNextTask(q) \in Offered(q)
      BY <3>1, EarliestExists DEF PeekNextTask
    <3>3. PeekNextTask(q) \in pending /\ PeekNextTask(q).time \in 0 .. Never
      BY <3>1, <3>2 DEF Offered, OfferedBy, Task, Times, Never
    <3> QED BY <2>11, <3>3 DEF RunNextTask, TypeOK, Bookkeeping, loops
  <2>12. ASSUME NEW q \in Queues, EndPoll(q) \/ EndFlush(q) \/ EndDrain(q)
         PROVE  TypeOK' /\ Bookkeeping'
    <3>1. alarm' \in [Queues -> 0 .. Never]
      <4>1. CASE HasPendingTasks(q)
        <5>1. Offered(q) \in SUBSET Task /\ Offered(q) # {}
              /\ \A t, u \in Offered(q) : t.order = u.order => t = u
          BY <4>1 DEF HasPendingTasks, Offered, OfferedBy, TypeOK, Bookkeeping
        <5>2. PeekNextTask(q) \in Task
          BY <5>1, EarliestExists DEF PeekNextTask
        <5> QED BY <2>12, <4>1, <5>2 DEF EndPoll, EndFlush, EndDrain, NothingToRun,
                                         TypeOK, Task, Times, Never
      <4>2. CASE ~HasPendingTasks(q)
        BY <2>12, <4>2 DEF EndPoll, EndFlush, EndDrain, NothingToRun, TypeOK
      <4> QED BY <4>1, <4>2
    <3>2. cutoff' \in [Queues -> Times] /\ \A x \in Queues : cutoff'[x] <= now'
      BY <2>12 DEF EndPoll, EndFlush, EndDrain, TypeOK, Bookkeeping, Times
    <3>3. CASE EndPoll(q)
      BY <3>1, <3>2, <3>3 DEF EndPoll, dispatcher, TypeOK, Bookkeeping
    <3>4. CASE EndFlush(q)
      <4>1. TypeOK'
        BY <3>1, <3>2, <3>4 DEF EndFlush, dispatcher, TypeOK
      <4>2. Bookkeeping'
        BY <3>2, <3>4 DEF EndFlush, dispatcher, TypeOK, Bookkeeping
      <4> QED BY <4>1, <4>2
    <3>5. CASE EndDrain(q)
      BY <3>1, <3>2, <3>5 DEF EndDrain, dispatcher, TypeOK, Bookkeeping
    <3> QED BY <2>12, <3>3, <3>4, <3>5
  <2>13. ASSUME NEW q \in Queues, DisposeTasks(q)
         PROVE  TypeOK' /\ Bookkeeping'
    BY <2>13 DEF DisposeTasks, ShutDownGroup, TypeOK, Bookkeeping
  <2>14. CASE Tick
    BY <2>14 DEF Tick, dispatcher, loops, TypeOK, Bookkeeping, Times, Never
  <2>15. CASE UNCHANGED vars
    BY <2>15 DEF vars, TypeOK, Bookkeeping
  <2> QED BY <2>1, <2>2, <2>3, <2>4, <2>5, <2>6, <2>7, <2>8, <2>9, <2>10, <2>11,
             <2>12, <2>13, <2>14, <2>15 DEF Next, Call, LoopStep
<1> QED BY <1>1, <1>2, PTL DEF Spec

-----------------------------------------------------------------------------
(* The merge states.                                                       *)

\* However merges, unmerges and disposals interleave, a queue is an owner,
\* subsumed or independent, and the two sides of every merge agree.
THEOREM MergeStatesInvariant == Spec => []MergeStates
<1> USE QueuesAssumption
<1>1. Init => MergeStates
  BY DEF Init, MergeStates
<1>2. TypeOK /\ Bookkeeping /\ MergeStates /\ [Next]_vars => MergeStates'
  <2> SUFFICES ASSUME TypeOK, Bookkeeping, MergeStates, [Next]_vars
               PROVE  MergeStates'
    OBVIOUS
  <2>1. ASSUME NEW owner \in Queues, NEW subsumed \in Queues, Merge(owner, subsumed)
        PROVE  MergeStates'
    BY <2>1 DEF Merge, CanMerge, MergeStates, TypeOK
  <2>2. ASSUME NEW owner \in Queues, NEW subsumed \in Queues, Unmerge(owner, subsumed)
        PROVE  MergeStates'
    BY <2>2 DEF Unmerge, CanUnmerge, MergeStates, TypeOK
  <2>3. ASSUME NEW q \in Queues, Dispose(q)
        PROVE  MergeStates'
    <3>1. ASSUME NEW x \in Queues, NEW y \in ownerOf'[x]
          PROVE  subsumedBy'[y] = x /\ y \in live' /\ x \in live'
      BY <2>3, <3>1 DEF Dispose, Group, MergeStates, TypeOK
    <3>2. ASSUME NEW x \in Queues, subsumedBy'[x] # Unmerged
          PROVE  ownerOf'[x] = {} /\ x \in ownerOf'[subsumedBy'[x]]
      BY <2>3, <3>2 DEF Dispose, Group, MergeStates, TypeOK
    <3> QED BY <3>1, <3>2 DEF MergeStates
  <2>4. ASSUME NEW q \in Queues, CreateTaskQueue(q)
        PROVE  MergeStates'
    BY <2>4 DEF CreateTaskQueue, MergeStates
  <2>5. CASE UNCHANGED <<live, ownerOf, subsumedBy>>
    BY <2>5 DEF MergeStates
  <2> QED BY <2>1, <2>2, <2>3, <2>4, <2>5
          DEF Next, Call, LoopStep, RegisterDartTask, PostTaskRegister, RegisterTask,
              PauseSecondarySource, ResumeSecondarySource, PostTask, RunExpiredTasksNow,
              DoRun, Run, OnEventFired, RunNextTask, EndPoll, EndFlush, EndDrain,
              DisposeTasks, Terminate, Tick, dispatcher, loops, vars
<1> QED BY <1>1, <1>2, TypeCorrectness, PTL DEF Spec

-----------------------------------------------------------------------------
(* The order in which tasks run.                                           *)

\* A task is handed out before every other one of its queue and source, and
\* what is posted afterwards gets a larger number: nobody is overtaken.
THEOREM NoOvertakingInvariant == Spec => []NoOvertaking
<1> USE QueuesAssumption
<1>1. Init => NoOvertaking
  BY DEF Init, NoOvertaking
<1>2. TypeOK /\ Bookkeeping /\ NoOvertaking /\ [Next]_vars => NoOvertaking'
  <2> SUFFICES ASSUME TypeOK, Bookkeeping, NoOvertaking, [Next]_vars
               PROVE  NoOvertaking'
    OBVIOUS
  <2>1. ASSUME NEW q \in Queues, RunNextTask(q)
        PROVE  NoOvertaking'
    <3> DEFINE task == PeekNextTask(q)
    <3>1. Offered(q) \in SUBSET Task /\ Offered(q) # {}
          /\ \A t, u \in Offered(q) : t.order = u.order => t = u
      BY <2>1 DEF RunNextTask, HasPendingTasks, Offered, OfferedBy, TypeOK, Bookkeeping
    <3>2. task \in Offered(q) /\ \A u \in Offered(q) \ {task} : Precedes(task, u)
      BY <3>1, EarliestExists DEF PeekNextTask
    <3>3. ran' = ran \cup {task} /\ pending' = pending \ {task}
      BY <2>1 DEF RunNextTask
    <3>4. ASSUME NEW u \in pending', task.queue = u.queue, task.source = u.source,
                 u.order < task.order
          PROVE  task.time < u.time
      <4>1. u \in Offered(q) \ {task}
        BY <3>2, <3>3, <3>4 DEF Offered, OfferedBy
      <4>2. task.order \in Nat /\ u.order \in Nat
        BY <3>1, <3>2, <4>1 DEF Task
      <4> QED BY <3>2, <3>4, <4>1, <4>2 DEF Precedes
    <3> QED BY <3>3, <3>4 DEF NoOvertaking
  <2>2. ASSUME NEW q \in Queues, NEW source \in Sources, NEW time \in Times,
               RegisterTask(q, source, time)
        PROVE  NoOvertaking'
    BY <2>2 DEF RegisterTask, NoOvertaking, Bookkeeping, TypeOK, Task
  <2>3. ASSUME NEW q \in Queues, Dispose(q) \/ DisposeTasks(q)
        PROVE  NoOvertaking'
    BY <2>3 DEF Dispose, DisposeTasks, ShutDownGroup, NoOvertaking
  <2>4. CASE UNCHANGED <<pending, ran>>
    BY <2>4 DEF NoOvertaking
  <2> QED BY <2>1, <2>2, <2>3, <2>4
          DEF Next, Call, LoopStep, RegisterDartTask, PostTaskRegister, Sources,
              PauseSecondarySource, ResumeSecondarySource, PostTask, RunExpiredTasksNow,
              DoRun, Run, OnEventFired, EndPoll, EndFlush, EndDrain, Merge, Unmerge,
              CreateTaskQueue, Terminate, Tick, dispatcher, loops, vars
<1> QED BY <1>1, <1>2, TypeCorrectness, PTL DEF Spec

-----------------------------------------------------------------------------
(* No lost wake-up.                                                        *)

\* The condition of WakesInTime on one queue.
Wakes(q) ==
  q \in live /\ subsumedBy[q] = Unmerged /\ loop[q] \in Dormant =>
    \A t \in Covered(q) : alarm[q] <= t.time \/ alarm[q] <= now

\* A queue whose alarm, group and loop a step leaves alone, and whose covered
\* tasks it does not add to, is woken in time after it if it was before.
LEMMA WakesUndisturbed ==
  ASSUME NEW q \in Queues, TypeOK, now' \in Nat, now <= now', Wakes(q),
         q \in live' => q \in live,
         subsumedBy'[q] = Unmerged => subsumedBy[q] = Unmerged,
         loop'[q] \in Dormant => loop[q] \in Dormant,
         alarm'[q] = alarm[q], Covered(q)' \subseteq Covered(q)
  PROVE  Wakes(q)'
BY DEF Wakes, TypeOK, Times, Never

\* A queue that a step wakes is woken in time after it.
LEMMA WakesWhenWoken ==
  ASSUME NEW q \in Queues, NEW qs, q \in qs, TypeOK,
         pending' \in SUBSET Task,
         \A t, u \in pending' : t.order = u.order => t = u,
         alarm' = Woken(qs, pending', pauses', ownerOf', subsumedBy')
  PROVE  Wakes(q)'
<1>1. subsumedBy'[q] = Unmerged => \A t \in Offered(q)' : alarm'[q] <= t.time
  BY WokenAlarms DEF Offered, Group, TypeOK
<1> QED BY <1>1 DEF Wakes, Covered

\* The alarm after GetNextTaskToRun has handed out nothing.
LEMMA WakesWhenNothingToRun ==
  ASSUME NEW q \in Queues, TypeOK, Bookkeeping, NothingToRun(q),
         UNCHANGED <<pending, pauses, ownerOf, subsumedBy>>
  PROVE  Wakes(q)'
<1>1. CASE HasPendingTasks(q)
  <2>1. Offered(q) \in SUBSET Task /\ Offered(q) # {}
        /\ \A t, u \in Offered(q) : t.order = u.order => t = u
    BY <1>1 DEF HasPendingTasks, Offered, OfferedBy, TypeOK, Bookkeeping
  <2>2. \A t \in Offered(q) : PeekNextTask(q).time <= t.time
    BY <2>1, EarliestExists DEF PeekNextTask
  <2>3. alarm'[q] = PeekNextTask(q).time
    BY <1>1 DEF NothingToRun, TypeOK
  <2>4. Offered(q)' = Offered(q)
    BY DEF Offered, Group
  <2> QED BY <2>2, <2>3, <2>4 DEF Wakes, Covered
<1>2. CASE ~HasPendingTasks(q)
  BY <1>2 DEF HasPendingTasks, Wakes, Covered, Offered, Group
<1> QED BY <1>1, <1>2

\* Registering a task leaves every queue woken in time: the one whose loop is
\* to run it is woken, and no other one covers it.
LEMMA RegisterTaskWakes ==
  ASSUME TypeOK, Bookkeeping, MergeStates, NEW q \in Queues, NEW source \in Sources,
         NEW time \in Times, RegisterTask(q, source, time), Bookkeeping', TypeOK',
         UNCHANGED <<now, loop>>, NEW x \in Queues, Wakes(x)
  PROVE  Wakes(x)'
<1> DEFINE w == LoopToWake(q)
<1> USE DEF LoopToWake
<1>1. CASE x = w
  <2>1. pending' \in SUBSET Task /\ \A t, u \in pending' : t.order = u.order => t = u
    BY DEF TypeOK, Bookkeeping
  <2>2. alarm' = Woken({w}, pending', pauses', ownerOf', subsumedBy')
    BY DEF RegisterTask
  <2> QED BY <1>1, <2>1, <2>2, WakesWhenWoken
<1>2. CASE x # w
  <2>1. alarm'[x] = alarm[x]
    <3>2. alarm' = Woken({w}, pending', pauses, ownerOf, subsumedBy)
      BY DEF RegisterTask
    <3>3. alarm \in [Queues -> 0 .. Never] /\ x \notin {w}
      BY <1>2 DEF TypeOK
    <3>4. Woken({w}, pending', pauses, ownerOf, subsumedBy)[x] = alarm[x]
      BY <3>3 DEF Woken
    <3> QED BY <3>2, <3>4
  <2>2. subsumedBy[x] = Unmerged => q \notin Group(x)
    BY <1>2, QueuesAssumption DEF Group, MergeStates, TypeOK
  <2>3. subsumedBy[x] = Unmerged => Covered(x)' \subseteq Covered(x)
    BY <2>2 DEF Covered, Offered, OfferedBy, Group, RegisterTask
  <2>4. CASE subsumedBy[x] = Unmerged
    <3>1. now' \in Nat /\ now <= now'
      BY DEF TypeOK, Times
    <3>2. live' = live /\ subsumedBy' = subsumedBy /\ loop' = loop
      BY DEF RegisterTask
    <3> QED BY <2>1, <2>3, <2>4, <3>1, <3>2, WakesUndisturbed
  <2>5. CASE subsumedBy[x] # Unmerged
    BY <2>5 DEF RegisterTask, Wakes
  <2> QED BY <2>4, <2>5
<1> QED BY <1>1, <1>2

\* No wake-up is lost: whatever is posted, merged, unmerged, paused and
\* terminated between two waits of a loop, its timer covers its tasks.
THEOREM WakesInTimeInvariant == Spec => []WakesInTime
<1> USE QueuesAssumption
<1> DEFINE AllWake == \A q \in Queues : Wakes(q)
<1>1. Init => AllWake
  BY DEF Init, Wakes
<1>2. TypeOK /\ TypeOK' /\ Bookkeeping /\ Bookkeeping' /\ MergeStates /\ AllWake
      /\ [Next]_vars => AllWake'
  <2> SUFFICES ASSUME TypeOK, TypeOK', Bookkeeping, Bookkeeping', MergeStates, AllWake,
                      [Next]_vars, NEW x \in Queues
               PROVE  Wakes(x)'
    OBVIOUS
  <2>0. now \in Nat /\ now' \in Nat /\ now <= now'
    <3>1. now' = now \/ now' = now + 1
      BY DEF Next, Call, LoopStep, CreateTaskQueue, RegisterDartTask, PostTaskRegister,
             PauseSecondarySource, ResumeSecondarySource, Dispose, PostTask,
             RunExpiredTasksNow, DoRun, Run, OnEventFired, RunNextTask, EndPoll, EndFlush,
             EndDrain, DisposeTasks, Merge, Unmerge, Terminate, Tick, vars
    <3>2. now \in Nat /\ now' \in Nat
      BY DEF TypeOK, Times
    <3> QED BY <3>1, <3>2
  <2> HIDE DEF AllWake
  <2>1. Wakes(x)
    BY DEF AllWake
  <2>2. /\ pending \in SUBSET Task /\ \A t, u \in pending : t.order = u.order => t = u
        /\ alarm \in [Queues -> 0 .. Never]
    BY DEF TypeOK, Bookkeeping
  <2>3. ASSUME NEW q \in Queues, RegisterDartTask(q) \/ PostTaskRegister(q)
        PROVE  Wakes(x)'
    BY <2>1, <2>3, RegisterTaskWakes DEF RegisterDartTask, PostTaskRegister, Sources
  <2>4. ASSUME NEW q \in Queues, CreateTaskQueue(q)
        PROVE  Wakes(x)'
    <3>1. CASE x = q
      <4>1. Offered(q)' = {}
        <5>1. q \notin live /\ ownerOf[q] = {}
          BY <2>4 DEF CreateTaskQueue, Bookkeeping, MergeStates
        <5> QED BY <2>4, <5>1 DEF CreateTaskQueue, Offered, OfferedBy, Group, Bookkeeping
      <4> QED BY <3>1, <4>1 DEF Wakes, Covered
    <3>2. CASE x # q
      BY <2>0, <2>1, <2>4, <3>2, WakesUndisturbed
      DEF CreateTaskQueue, Covered, Offered, OfferedBy, Group, TypeOK
    <3> QED BY <3>1, <3>2
  <2>5. ASSUME NEW owner \in Queues, NEW subsumed \in Queues, Merge(owner, subsumed)
        PROVE  Wakes(x)'
    <3>1. CASE x = owner
      BY <2>2, <2>5, <3>1, WakesWhenWoken DEF Merge
    <3>2. CASE x # owner
      <4>1. alarm'[x] = alarm[x]
        BY <2>5, <3>2 DEF Merge, Woken
      <4>2. ownerOf'[x] = ownerOf[x]
        BY <2>5, <3>2 DEF Merge, TypeOK
      <4>3. Covered(x)' = Covered(x)
        BY <2>5, <4>2 DEF Merge, Covered, Offered, Group
      <4>4. subsumedBy'[x] = Unmerged => subsumedBy[x] = Unmerged
        BY <2>5 DEF Merge, TypeOK
      <4> QED BY <2>0, <2>1, <2>5, <4>1, <4>3, <4>4, WakesUndisturbed DEF Merge, loops
    <3> QED BY <3>1, <3>2
  <2>6. ASSUME NEW owner \in Queues, NEW subsumed \in Queues, Unmerge(owner, subsumed)
        PROVE  Wakes(x)'
    <3>1. CASE x \in {owner, subsumed}
      BY <2>2, <2>6, <3>1, WakesWhenWoken DEF Unmerge
    <3>2. CASE x \notin {owner, subsumed}
      <4>1. alarm'[x] = alarm[x]
        BY <2>6, <3>2 DEF Unmerge, Woken
      <4>2. ownerOf'[x] = ownerOf[x] /\ subsumedBy'[x] = subsumedBy[x]
        BY <2>6, <3>2 DEF Unmerge, TypeOK
      <4>3. Covered(x)' = Covered(x)
        BY <2>6, <4>2 DEF Unmerge, Covered, Offered, Group
      <4> QED BY <2>0, <2>1, <2>6, <4>1, <4>2, <4>3, WakesUndisturbed DEF Unmerge, loops
    <3> QED BY <3>1, <3>2
  <2>7. ASSUME NEW q \in Queues, PauseSecondarySource(q)
        PROVE  Wakes(x)'
    <3>1. Covered(x)' \subseteq Covered(x)
      BY <2>7 DEF PauseSecondarySource, Covered, Offered, OfferedBy, Group, TypeOK
    <3> QED BY <2>0, <2>1, <2>7, <3>1, WakesUndisturbed DEF PauseSecondarySource, loops
  <2>8. ASSUME NEW q \in Queues, ResumeSecondarySource(q)
        PROVE  Wakes(x)'
    <3>1. CASE x = q
      BY <2>2, <2>8, <3>1, WakesWhenWoken DEF ResumeSecondarySource
    <3>2. CASE x # q
      <4>1. alarm'[x] = alarm[x]
        BY <2>8, <3>2 DEF ResumeSecondarySource, Woken
      <4>2. \A t \in Task : pauses'[t.queue] = 0 => pauses[t.queue] = 0 \/ t.queue = q
        BY <2>8 DEF ResumeSecondarySource, TypeOK, Task
      <4>3. Covered(x)' \subseteq Covered(x)
        BY <2>2, <2>8, <3>2, <4>2
        DEF ResumeSecondarySource, Covered, Offered, OfferedBy, Group
      <4> QED BY <2>0, <2>1, <2>8, <4>1, <4>3, WakesUndisturbed
              DEF ResumeSecondarySource, loops
    <3> QED BY <3>1, <3>2
  <2>9. ASSUME NEW q \in Queues, Dispose(q)
        PROVE  Wakes(x)'
    <3>1. CASE x \in Group(q)
      BY <2>9, <3>1 DEF Dispose, Wakes
    <3>2. CASE x \notin Group(q)
      <4>1. ownerOf'[x] = ownerOf[x] /\ subsumedBy'[x] = subsumedBy[x]
            /\ loop'[x] = loop[x]
        BY <2>9, <3>2 DEF Dispose, Group, TypeOK
      <4>2. Covered(x)' \subseteq Covered(x)
        BY <2>9, <4>1 DEF Dispose, ShutDownGroup, Covered, Offered, OfferedBy, Group
      <4> QED BY <2>0, <2>1, <2>9, <4>1, <4>2, WakesUndisturbed DEF Dispose
    <3> QED BY <3>1, <3>2
  <2>10. ASSUME NEW q \in Queues,
                PostTask(q) \/ RunExpiredTasksNow(q) \/ DoRun(q) \/ Run(q) \/ DisposeTasks(q)
         PROVE  Wakes(x)'
    <3>1. loop'[x] \in Dormant => loop[x] \in Dormant
      BY <2>10 DEF PostTask, RunExpiredTasksNow, DoRun, Run, DisposeTasks, Dormant, TypeOK
    <3>2. Covered(x)' \subseteq Covered(x)
      BY <2>10 DEF PostTask, RunExpiredTasksNow, DoRun, Run, DisposeTasks, ShutDownGroup,
                   dispatcher, Covered, Offered, OfferedBy, Group
    <3>3. UNCHANGED <<live, subsumedBy, alarm>>
      BY <2>10 DEF PostTask, RunExpiredTasksNow, DoRun, Run, DisposeTasks, dispatcher
    <3> QED BY <2>0, <2>1, <3>1, <3>2, <3>3, WakesUndisturbed
  <2>11. ASSUME NEW q \in Queues, OnEventFired(q) \/ RunNextTask(q)
         PROVE  Wakes(x)'
    <3>1. CASE x = q
      BY <2>11, <3>1 DEF OnEventFired, RunNextTask, Flushing, Wakes, Dormant, TypeOK, loops
    <3>2. CASE x # q
      <4>1. alarm'[x] = alarm[x] /\ loop'[x] = loop[x]
        BY <2>11, <3>2 DEF OnEventFired, RunNextTask, TypeOK, loops
      <4>2. Covered(x)' \subseteq Covered(x) /\ UNCHANGED <<live, subsumedBy>>
        BY <2>11 DEF OnEventFired, RunNextTask, dispatcher, Covered, Offered, OfferedBy, Group
      <4> QED BY <2>0, <2>1, <4>1, <4>2, WakesUndisturbed
    <3> QED BY <3>1, <3>2
  <2>12. ASSUME NEW q \in Queues, EndPoll(q) \/ EndFlush(q) \/ EndDrain(q)
         PROVE  Wakes(x)'
    <3>1. NothingToRun(q) /\ UNCHANGED <<pending, pauses, ownerOf, subsumedBy, live>>
      BY <2>12 DEF EndPoll, EndFlush, EndDrain, dispatcher
    <3>2. CASE x = q
      BY <3>1, <3>2, WakesWhenNothingToRun
    <3>3. CASE x # q
      <4>1. alarm'[x] = alarm[x] /\ loop'[x] = loop[x]
        BY <2>12, <3>3 DEF EndPoll, EndFlush, EndDrain, NothingToRun, TypeOK
      <4>2. Covered(x)' = Covered(x)
        BY <3>1 DEF Covered, Offered, Group
      <4> QED BY <2>0, <2>1, <3>1, <4>1, <4>2, WakesUndisturbed
    <3> QED BY <3>2, <3>3
  <2>13. ASSUME NEW q \in Queues, Terminate(q)
         PROVE  Wakes(x)'
    <3>1. CASE x = q
      BY <2>0, <2>13, <3>1 DEF Terminate, Wakes, TypeOK
    <3>2. CASE x # q
      <4>1. alarm'[x] = alarm[x]
        BY <2>13, <3>2 DEF Terminate, TypeOK
      <4> QED BY <2>0, <2>1, <2>13, <4>1, WakesUndisturbed
              DEF Terminate, dispatcher, Covered, Offered, Group
    <3> QED BY <3>1, <3>2
  <2>14. CASE Tick \/ UNCHANGED vars
    BY <2>0, <2>1, <2>14, WakesUndisturbed
    DEF Tick, vars, dispatcher, loops, Covered, Offered, Group
  <2> QED BY <2>3, <2>4, <2>5, <2>6, <2>7, <2>8, <2>9, <2>10, <2>11, <2>12, <2>13, <2>14
          DEF Next, Call, LoopStep
<1>3. TypeOK /\ AllWake => WakesInTime
  BY DEF TypeOK, Wakes, WakesInTime
<1> QED BY <1>1, <1>2, <1>3, TypeCorrectness, MergeStatesInvariant, PTL DEF Spec

-----------------------------------------------------------------------------
(* The dispatcher and its loops implement TaskService.                     *)

\* The order of the heaps is the order of the abstract service.
LEMMA SameOrder == \A t, u : Service!Before(t, u) <=> Precedes(t, u)
BY DEF Service!Before, Precedes

\* RunNextTask invokes a task the service allows to invoke.
LEMMA RunNextTaskInvokes ==
  ASSUME TypeOK, Bookkeeping, NEW q \in Queues, RunNextTask(q)
  PROVE  Service!Next
<1> DEFINE task == PeekNextTask(q)
<1>1. Offered(q) \in SUBSET Task /\ Offered(q) # {}
      /\ \A t, u \in Offered(q) : t.order = u.order => t = u
  BY DEF RunNextTask, HasPendingTasks, Offered, OfferedBy, TypeOK, Bookkeeping
<1>2. task \in Offered(q) /\ \A u \in Offered(q) \ {task} : Precedes(task, u)
  BY <1>1, EarliestExists DEF PeekNextTask
<1>3. task \in pending /\ task.queue \in Group(q)
      /\ (task.source = "secondary" => pauses[task.queue] = 0)
  BY <1>2 DEF Offered, OfferedBy
<1>4. \A u \in pending \ {task} :
        u.queue = task.queue /\ u.source = task.source => Service!Before(task, u)
  BY <1>2, <1>3, SameOrder DEF Offered, OfferedBy
<1>5. task.time <= now
  <2>1. task.time <= cutoff[q] /\ cutoff[q] <= now
    BY DEF RunNextTask, IsDue, Bookkeeping
  <2>2. task.time \in Nat /\ cutoff[q] \in Nat /\ now \in Nat
    BY <1>1, <1>2 DEF TypeOK, Task, Times
  <2> QED BY <2>1, <2>2
<1>6. pending' = pending \ {task} /\ ran' = ran \cup {task}
      /\ UNCHANGED <<dropped, pauses, order, now>>
  BY DEF RunNextTask
<1>7. Service!Invoke(task)
  BY <1>3, <1>4, <1>5, <1>6 DEF Service!Invoke
<1> QED BY <1>3, <1>7 DEF Service!Next

\* Every behaviour of the dispatcher and the loops is one of the service:
\* each task is run once, in order, in time, or goes down with its queue.
THEOREM Refinement == Spec => ImplementsTaskService
<1> USE QueuesAssumption
<1>1. Init => Service!Init
  BY DEF Init, Service!Init
<1>2. TypeOK /\ Bookkeeping /\ [Next]_vars => [Service!Next]_Service!vars
  <2> SUFFICES ASSUME TypeOK, Bookkeeping, [Next]_vars
               PROVE  Service!Next \/ UNCHANGED Service!vars
    OBVIOUS
  <2>1. ASSUME NEW q \in Queues, NEW source \in Sources, NEW time \in Times,
               RegisterTask(q, source, time), now' = now
        PROVE  Service!Next
    <3> DEFINE task == [queue |-> q, source |-> source, time |-> time, order |-> order]
    <3>1. task \in [queue: Queues, source: {"primary", "secondary"}, time: 0 .. MaxTime,
                    order: {order}]
      BY DEF Sources, Times
    <3>2. Service!Post(task)
      BY <2>1 DEF RegisterTask, Service!Post
    <3> QED BY <3>1, <3>2 DEF Service!Next
  <2>2. ASSUME NEW q \in Queues, RunNextTask(q)
        PROVE  Service!Next
    BY <2>2, RunNextTaskInvokes
  <2>3. ASSUME NEW q \in Queues, Dispose(q) \/ DisposeTasks(q)
        PROVE  Service!Next
    <3>1. Group(q) \in SUBSET Queues
      BY DEF Group, TypeOK
    <3>2. Service!Destroy(Group(q))
      BY <2>3 DEF Dispose, DisposeTasks, ShutDownGroup, Service!Destroy
    <3> QED BY <3>1, <3>2 DEF Service!Next
  <2>4. ASSUME NEW q \in Queues, PauseSecondarySource(q) \/ ResumeSecondarySource(q)
        PROVE  Service!Next
    <3>1. PICK n \in {pauses[q] - 1, pauses[q] + 1} \cap Nat :
            pauses' = [pauses EXCEPT ![q] = n]
      BY <2>4 DEF PauseSecondarySource, ResumeSecondarySource, TypeOK
    <3>2. Service!SetPauses(q, n)
      BY <2>4, <3>1 DEF PauseSecondarySource, ResumeSecondarySource, loops,
                        Service!SetPauses, Service!tasks
    <3> QED BY <3>1, <3>2 DEF Service!Next
  <2>5. CASE Tick
    BY <2>5 DEF Tick, dispatcher, Service!Tick, Service!tasks, Service!Next
  <2>6. CASE UNCHANGED <<pending, ran, dropped, pauses, order, now>>
    BY <2>6 DEF Service!vars
  <2> QED BY <2>1, <2>2, <2>3, <2>4, <2>5, <2>6
          DEF Next, Call, LoopStep, RegisterDartTask, PostTaskRegister, Sources,
              CreateTaskQueue, PostTask, RunExpiredTasksNow, DoRun, Run, OnEventFired,
              EndPoll, EndFlush, EndDrain, Merge, Unmerge, Terminate, dispatcher, vars
<1> QED BY <1>1, <1>2, TypeCorrectness, PTL DEF Spec, ImplementsTaskService, Service!Spec
=============================================================================

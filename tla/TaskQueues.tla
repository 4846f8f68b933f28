----------------------------- MODULE TaskQueues -----------------------------
(***************************************************************************)
(* The task dispatcher shared by every fml::MessageLoop: the singleton     *)
(* MessageLoopTaskQueues with its TaskSources, and the message loops that  *)
(* are its wakeables.                                                      *)
(*                                                                         *)
(* Each queue holds delayed tasks in a primary and a secondary heap, the   *)
(* secondary one pausable.  A queue can subsume others: the loop of the    *)
(* owner then runs the tasks of the whole group, and the loop of a         *)
(* subsumed queue sees nothing.  Every operation holds queue_mutex_ for    *)
(* its whole duration and is one action here.  A loop is not atomic: it is *)
(* woken by its timer, and takes one task at a time from the dispatcher.   *)
(*                                                                         *)
(* A queue and the loop that created it share one identity.  Closures,     *)
(* observers and the thread-local task grade carry no control and are left *)
(* out.  DCHECKs are obligations of the callers.                           *)
(***************************************************************************)
EXTENDS Integers, FiniteSets

CONSTANTS
  Queues,       \* the TaskQueueIds that may be created
  Unmerged,     \* kUnmerged: the value of subsumed_by of a free queue
  Threads,      \* the loops that have a thread to call Run
  Polled,       \* the loops whose embedder may call RunExpiredTasksNow instead
  DartQueues,   \* the queues that get tasks of the Dart event loop, and are paused
  Mortal,       \* the loops somebody may terminate and destroy
  MaxTasks,     \* bound: how many tasks are registered in a behaviour
  MaxTime       \* bound: the last instant of the clock

ASSUME QueuesAssumption ==
  /\ Unmerged \notin Queues
  /\ Threads \subseteq Queues /\ Polled \subseteq Queues
  /\ DartQueues \subseteq Queues /\ Mortal \subseteq Queues
  /\ MaxTasks \in Nat
  /\ MaxTime \in Nat

VARIABLES
  live,         \* the ids with an entry in queue_entries_
  pending,      \* the tasks in the heaps of all the task sources
  ran,          \* history: the tasks handed to a loop to be invoked
  dropped,      \* history: the tasks destroyed without being invoked
  pauses,       \* secondary_pause_requests_ of each source
  ownerOf,      \* owner_of of each entry
  subsumedBy,   \* subsumed_by of each entry
  order,        \* order_, the number the next task gets
  now,          \* the clock
  alarm,        \* the instant the timer of each loop is armed for
  loop,         \* where the thread of each loop is
  cutoff,       \* the local `now` of the flush a loop is in, 0 otherwise
  running,      \* running_ of each MessageLoopLinux
  terminated,   \* terminated_ of each MessageLoopImpl
  posting       \* the loops on which a PostTask has passed the terminated_ test

dispatcher == <<live, pending, ran, dropped, pauses, ownerOf, subsumedBy, order>>
loops == <<loop, cutoff, running, terminated, posting>>
vars == <<live, pending, ran, dropped, pauses, ownerOf, subsumedBy, order,
          now, alarm, loop, cutoff, running, terminated, posting>>

Sources == {"primary", "secondary"}
Times == 0 .. MaxTime
Never == MaxTime + 1       \* TimePoint::Max(), and a timer that is not armed

Task == [queue: Queues, source: Sources, time: Times, order: Nat]

(***************************************************************************)
(* none:      the loop does not exist yet                                  *)
(* ready:     created, DoRun not called                                    *)
(* polling:   in RunExpiredTasksNow called by an embedder, outside Run     *)
(* starting:  DoRun has tested terminated_, Run has not set running_       *)
(* waiting:   in epoll_wait                                                *)
(* flushing:  in RunExpiredTasksNow called from OnEventFired               *)
(* draining:  in the last RunExpiredTasksNow of DoRun                      *)
(* disposing: DoRun is about to call DisposeTasks                          *)
(* ended:     DoRun has returned                                           *)
(* gone:      the loop has been destroyed                                  *)
(***************************************************************************)
LoopStates == {"none", "ready", "polling", "starting", "waiting", "flushing",
               "draining", "disposing", "ended", "gone"}
Flushing == {"polling", "flushing", "draining"}

TypeOK ==
  /\ live \subseteq Queues
  /\ pending \subseteq Task /\ ran \subseteq Task /\ dropped \subseteq Task
  /\ pauses \in [Queues -> Nat]
  /\ ownerOf \in [Queues -> SUBSET Queues]
  /\ subsumedBy \in [Queues -> Queues \cup {Unmerged}]
  /\ order \in Nat
  /\ now \in Times
  /\ alarm \in [Queues -> 0 .. Never]
  /\ loop \in [Queues -> LoopStates]
  /\ cutoff \in [Queues -> Times]
  /\ running \in [Queues -> BOOLEAN]
  /\ terminated \in [Queues -> BOOLEAN]
  /\ posting \subseteq Queues

-----------------------------------------------------------------------------
(* What the sources of a queue, and of the queues it owns, have to offer.  *)

\* A fault: of two tasks due at one instant, the later registered first.
PrecedesLastFirst(t, u) == t.time < u.time \/ (t.time = u.time /\ t.order > u.order)

\* DelayedTask::operator>, read from the other side.
Precedes(t, u) == t.time < u.time \/ (t.time = u.time /\ t.order < u.order)

Group(q) == {q} \cup ownerOf[q]

\* TaskSource::Top and GetNumPendingTasks skip the secondary heap when paused.
OfferedBy(S, owned, ps) ==
  {t \in S : t.queue \in owned /\ (t.source = "secondary" => ps[t.queue] = 0)}

Offered(q) == OfferedBy(pending, Group(q), pauses)

\* The earliest of a set of tasks, by target time and then by registration.
Earliest(S) == CHOOSE t \in S : \A u \in S \ {t} : Precedes(t, u)

HasPendingTasks(q) == subsumedBy[q] = Unmerged /\ Offered(q) # {}
PeekNextTask(q) == Earliest(Offered(q))

(***************************************************************************)
(* The alarms after WakeUp has been called on the queues of qs in the      *)
(* state where the heaps hold S, the sources are paused ps times and the   *)
(* groups are own and sub: only a queue with pending tasks is woken.       *)
(***************************************************************************)
Woken(qs, S, ps, own, sub) ==
  [q \in Queues |->
     LET offer == OfferedBy(S, {q} \cup own[q], ps)
     IN  IF q \in qs /\ sub[q] = Unmerged /\ offer # {}
         THEN Earliest(offer).time ELSE alarm[q]]

-----------------------------------------------------------------------------
(* The operations of MessageLoopTaskQueues.                                *)

\* MessageLoopImpl(): CreateTaskQueue and SetWakeable, before anybody knows
\* the new id.
CreateTaskQueue(q) ==
  /\ loop[q] = "none"
  /\ live' = live \cup {q}
  /\ loop' = [loop EXCEPT ![q] = "ready"]
  /\ UNCHANGED <<pending, ran, dropped, pauses, ownerOf, subsumedBy, order,
                 now, alarm, cutoff, running, terminated, posting>>

\* A fault: a task wakes the loop of its own queue.
OwnLoop(q) == q

\* The loop that runs the tasks of q.
LoopToWake(q) == IF subsumedBy[q] = Unmerged THEN q ELSE subsumedBy[q]

\* The heap of q gets the task; the loop that is to run it is woken.
RegisterTask(q, source, time) ==
  LET task == [queue |-> q, source |-> source, time |-> time, order |-> order]
  IN  /\ q \in live
      /\ order < MaxTasks
      /\ order' = order + 1
      /\ pending' = pending \cup {task}
      /\ alarm' = Woken({LoopToWake(q)}, pending', pauses, ownerOf, subsumedBy)
      /\ UNCHANGED <<live, ran, dropped, pauses, ownerOf, subsumedBy>>

\* A task of the Dart event loop, registered with the dispatcher directly.
RegisterDartTask(q) ==
  /\ q \in DartQueues
  /\ \E time \in Times : RegisterTask(q, "secondary", time)
  /\ UNCHANGED <<now, loop, cutoff, running, terminated, posting>>

\* A fault: a queue that owns others can be subsumed.
CanMergeOwners(owner, subsumed) ==
  subsumedBy[owner] = Unmerged /\ subsumedBy[subsumed] = Unmerged

CanMerge(owner, subsumed) ==
  /\ subsumedBy[owner] = Unmerged
  /\ ownerOf[subsumed] = {}
  /\ subsumedBy[subsumed] = Unmerged

\* Merge, when it does not return early: owner # subsumed, not merged yet.
Merge(owner, subsumed) ==
  /\ {owner, subsumed} \subseteq live /\ owner # subsumed
  /\ CanMerge(owner, subsumed)
  /\ ownerOf' = [ownerOf EXCEPT ![owner] = @ \cup {subsumed}]
  /\ subsumedBy' = [subsumedBy EXCEPT ![subsumed] = owner]
  /\ alarm' = Woken({owner}, pending, pauses, ownerOf', subsumedBy')
  /\ UNCHANGED <<live, pending, ran, dropped, pauses, order, now, loops>>

CanUnmerge(owner, subsumed) ==
  /\ subsumedBy[owner] = Unmerged
  /\ subsumedBy[subsumed] # Unmerged
  /\ subsumed \in ownerOf[owner]

Unmerge(owner, subsumed) ==
  /\ {owner, subsumed} \subseteq live
  /\ CanUnmerge(owner, subsumed)
  /\ subsumedBy' = [subsumedBy EXCEPT ![subsumed] = Unmerged]
  /\ ownerOf' = [ownerOf EXCEPT ![owner] = @ \ {subsumed}]
  /\ alarm' = Woken({owner, subsumed}, pending, pauses, ownerOf', subsumedBy')
  /\ UNCHANGED <<live, pending, ran, dropped, pauses, order, now, loops>>

PauseSecondarySource(q) ==
  /\ q \in live \cap DartQueues
  /\ pauses[q] = 0        \* bound: one pause request at a time
  /\ pauses' = [pauses EXCEPT ![q] = @ + 1]
  /\ UNCHANGED <<live, pending, ran, dropped, ownerOf, subsumedBy, order,
                 now, alarm, loops>>

\* A fault: resuming what is not paused.
ResumeUnpaused(q) ==
  /\ q \in live
  /\ pauses' = [pauses EXCEPT ![q] = @ - 1]
  /\ alarm' = Woken({q}, pending, pauses', ownerOf, subsumedBy)
  /\ UNCHANGED <<live, pending, ran, dropped, ownerOf, subsumedBy, order,
                 now, loops>>

\* Wakes q itself, and so nobody when q is subsumed.
ResumeSecondarySource(q) ==
  /\ q \in live
  /\ pauses[q] > 0        \* DCHECK in TaskSource::ResumeSecondary
  /\ pauses' = [pauses EXCEPT ![q] = @ - 1]
  /\ alarm' = Woken({q}, pending, pauses', ownerOf, subsumedBy)
  /\ UNCHANGED <<live, pending, ran, dropped, ownerOf, subsumedBy, order,
                 now, loops>>

\* TaskSource::ShutDown of q and of the queues it owns.
ShutDownGroup(q) ==
  LET gone == {t \in pending : t.queue \in Group(q)}
  IN  pending' = pending \ gone /\ dropped' = dropped \cup gone

\* ~MessageLoopImpl, once its thread and every TaskRunner have let go of the
\* loop.  The entries of the queues it owns are erased with its own.
Dispose(q) ==
  /\ q \in (live \cap Mortal) \ posting
  /\ loop[q] \in {"ready", "ended"}
  /\ subsumedBy[q] = Unmerged            \* DCHECK
  /\ ShutDownGroup(q)
  /\ live' = live \ Group(q)
  /\ ownerOf' = [ownerOf EXCEPT ![q] = {}]
  /\ subsumedBy' = [x \in Queues |-> IF x \in ownerOf[q] THEN Unmerged
                                     ELSE subsumedBy[x]]
  /\ loop' = [loop EXCEPT ![q] = "gone"]
  /\ UNCHANGED <<ran, pauses, order, now, alarm, cutoff, running, terminated,
                 posting>>

-----------------------------------------------------------------------------
(* The message loops, on their own threads.                                *)

\* MessageLoopImpl::PostTask: the test of terminated_, then, without any
\* lock in between, the registration.  A refused task is destroyed.
PostTask(q) ==
  /\ q \in live
  /\ posting = {}         \* bound: one PostTask at a time is between the two
  /\ ~terminated[q]
  /\ posting' = posting \cup {q}
  /\ UNCHANGED <<dispatcher, now, alarm, loop, cutoff, running, terminated>>

PostTaskRegister(q) ==
  /\ q \in posting
  /\ \E time \in Times : RegisterTask(q, "primary", time)
  /\ posting' = posting \ {q}
  /\ UNCHANGED <<now, loop, cutoff, running, terminated>>

\* MessageLoop::RunExpiredTasksNow, for embedders that do not call Run.
RunExpiredTasksNow(q) ==
  /\ q \in live \cap Polled
  /\ loop[q] = "ready"
  /\ loop' = [loop EXCEPT ![q] = "polling"]
  /\ cutoff' = [cutoff EXCEPT ![q] = now]
  /\ UNCHANGED <<dispatcher, now, alarm, running, terminated, posting>>

\* DoRun up to the call of Run: a terminated loop does not run (again).
DoRun(q) ==
  /\ q \in live \cap Threads
  /\ loop[q] = "ready"
  /\ loop' = [loop EXCEPT ![q] = IF terminated[q] THEN "ended" ELSE "starting"]
  /\ UNCHANGED <<dispatcher, now, alarm, cutoff, running, terminated, posting>>

\* MessageLoopLinux::Run sets running_ and waits for its timer.
Run(q) ==
  /\ q \in live
  /\ loop[q] = "starting"
  /\ running' = [running EXCEPT ![q] = TRUE]
  /\ loop' = [loop EXCEPT ![q] = "waiting"]
  /\ UNCHANGED <<dispatcher, now, alarm, cutoff, terminated, posting>>

\* epoll_wait reports the timer; TimerDrain disarms it; a flush begins.
OnEventFired(q) ==
  /\ q \in live
  /\ loop[q] = "waiting"
  /\ alarm[q] <= now
  /\ alarm' = [alarm EXCEPT ![q] = Never]
  /\ cutoff' = [cutoff EXCEPT ![q] = now]
  /\ loop' = [loop EXCEPT ![q] = "flushing"]
  /\ UNCHANGED <<dispatcher, now, running, terminated, posting>>

\* A fault: tasks are handed out as they come, due or not.
DueAnyTime(q, task) == TRUE

\* Tasks that fall due while a flush is running wait for the next one.
IsDue(q, task) == task.time <= cutoff[q]

\* GetNextTaskToRun hands out a task, and FlushTasks invokes it.  The alarm
\* is set before the pop, so to the target time of the very same task.
RunNextTask(q) ==
  /\ q \in live
  /\ loop[q] \in Flushing
  /\ HasPendingTasks(q)
  /\ LET task == PeekNextTask(q)
     IN  /\ IsDue(q, task)
         /\ alarm' = [alarm EXCEPT ![q] = task.time]
         /\ pending' = pending \ {task}
         /\ ran' = ran \cup {task}
  /\ UNCHANGED <<live, dropped, pauses, ownerOf, subsumedBy, order, now, loops>>

\* A fault: the alarm is set only when a task is handed out.
NothingToRunNoAlarm(q) ==
  /\ q \in live
  /\ HasPendingTasks(q) => ~IsDue(q, PeekNextTask(q))
  /\ UNCHANGED alarm

\* GetNextTaskToRun hands out nothing: the alarm is set to the next task, if
\* there is one.
NothingToRun(q) ==
  /\ q \in live
  /\ HasPendingTasks(q) => ~IsDue(q, PeekNextTask(q))
  /\ alarm' = IF HasPendingTasks(q)
              THEN [alarm EXCEPT ![q] = PeekNextTask(q).time] ELSE alarm

EndPoll(q) ==
  /\ loop[q] = "polling"
  /\ NothingToRun(q)
  /\ loop' = [loop EXCEPT ![q] = "ready"]
  /\ cutoff' = [cutoff EXCEPT ![q] = 0]
  /\ UNCHANGED <<dispatcher, now, running, terminated, posting>>

\* Back in Run: wait again or, running_ being false, leave it.  DoRun then
\* sets terminated_ and flushes a last time.
EndFlush(q) ==
  /\ loop[q] = "flushing"
  /\ NothingToRun(q)
  /\ IF running[q]
     THEN /\ loop' = [loop EXCEPT ![q] = "waiting"]
          /\ cutoff' = [cutoff EXCEPT ![q] = 0]
          /\ UNCHANGED terminated
     ELSE /\ loop' = [loop EXCEPT ![q] = "draining"]
          /\ cutoff' = [cutoff EXCEPT ![q] = now]
          /\ terminated' = [terminated EXCEPT ![q] = TRUE]
  /\ UNCHANGED <<dispatcher, now, running, posting>>

EndDrain(q) ==
  /\ loop[q] = "draining"
  /\ NothingToRun(q)
  /\ loop' = [loop EXCEPT ![q] = "disposing"]
  /\ cutoff' = [cutoff EXCEPT ![q] = 0]
  /\ UNCHANGED <<dispatcher, now, running, terminated, posting>>

\* The end of DoRun.  That q is not subsumed is only a DCHECK here: a build
\* without it drops the tasks of q alone.
DisposeTasks(q) ==
  /\ q \in live
  /\ loop[q] = "disposing"
  /\ ShutDownGroup(q)
  /\ loop' = [loop EXCEPT ![q] = "ended"]
  /\ UNCHANGED <<live, ran, pauses, ownerOf, subsumedBy, order, now, alarm,
                 cutoff, running, terminated, posting>>

\* A fault: the loop is told, not woken.
TerminateQuietly(q) ==
  /\ q \in live \cap Mortal
  /\ ~terminated[q]
  /\ terminated' = [terminated EXCEPT ![q] = TRUE]
  /\ running' = [running EXCEPT ![q] = FALSE]
  /\ UNCHANGED <<dispatcher, now, alarm, loop, cutoff, posting>>

\* MessageLoopImpl::DoTerminate, from any thread.
Terminate(q) ==
  /\ q \in live \cap Mortal
  /\ ~terminated[q]
  /\ terminated' = [terminated EXCEPT ![q] = TRUE]
  /\ running' = [running EXCEPT ![q] = FALSE]
  /\ alarm' = [alarm EXCEPT ![q] = now]
  /\ UNCHANGED <<dispatcher, now, loop, cutoff, posting>>

Tick ==
  /\ now < MaxTime
  /\ now' = now + 1
  /\ UNCHANGED <<dispatcher, alarm, loops>>
-----------------------------------------------------------------------------
Init ==
  /\ live = {}
  /\ pending = {} /\ ran = {} /\ dropped = {}
  /\ pauses = [q \in Queues |-> 0]
  /\ ownerOf = [q \in Queues |-> {}]
  /\ subsumedBy = [q \in Queues |-> Unmerged]
  /\ order = 0
  /\ now = 0
  /\ alarm = [q \in Queues |-> Never]
  /\ loop = [q \in Queues |-> "none"]
  /\ cutoff = [q \in Queues |-> 0]
  /\ running = [q \in Queues |-> FALSE]
  /\ terminated = [q \in Queues |-> FALSE]
  /\ posting = {}

\* What any thread may ask for, any time.
Call(q) ==
  \/ CreateTaskQueue(q)
  \/ RegisterDartTask(q)
  \/ PauseSecondarySource(q)
  \/ ResumeSecondarySource(q)
  \/ Dispose(q)
  \/ PostTask(q)
  \/ RunExpiredTasksNow(q)
  \/ DoRun(q)
  \/ Terminate(q)

\* What the thread of a loop does once it is in DoRun.
LoopStep(q) ==
  \/ Run(q)
  \/ OnEventFired(q)
  \/ RunNextTask(q)
  \/ EndPoll(q)
  \/ EndFlush(q)
  \/ EndDrain(q)
  \/ DisposeTasks(q)

Next ==
  \/ \E q \in Queues : Call(q) \/ PostTaskRegister(q) \/ LoopStep(q)
  \/ \E owner, subsumed \in Queues : Merge(owner, subsumed)
                                   \/ Unmerge(owner, subsumed)
  \/ Tick

Spec == Init /\ [][Next]_vars

\* A thread in Run goes on running and time passes; nobody has to call.
FairSpec ==
  /\ Spec
  /\ \A q \in Queues : WF_vars(LoopStep(q))
  /\ WF_vars(Tick)

-----------------------------------------------------------------------------
(* Properties.                                                             *)

(***************************************************************************)
(* "A TaskQueue can be in exactly one of the following three states"       *)
(* (message_loop_task_queues.h): owner, subsumed or independent, with      *)
(* owner_of and subsumed_by of different entries telling the same story,   *)
(* and no entry naming an erased one, whose lookup would throw.            *)
(***************************************************************************)
MergeStates ==
  \A q \in Queues :
    /\ subsumedBy[q] # Unmerged => ownerOf[q] = {} /\ q \in ownerOf[subsumedBy[q]]
    /\ \A x \in ownerOf[q] : subsumedBy[x] = q /\ x \in live /\ q \in live

\* The loops whose thread waits for its timer or has not come to wait yet.
Dormant == {"ready", "starting", "waiting"}

(***************************************************************************)
(* No wake-up is lost: when the loop of a free queue waits, its timer is   *)
(* armed for a past instant, or no later than the first task it could run, *)
(* in whatever order tasks were posted, queues merged, unmerged and        *)
(* paused, and flushes cut short.  The tasks of a subsumed secondary       *)
(* source, whose resumption wakes nobody, are left to WakesForEveryTask.   *)
(***************************************************************************)
Covered(q) == {t \in Offered(q) : t.queue = q \/ t.source = "primary"}

WakesInTime ==
  \A q \in live :
    subsumedBy[q] = Unmerged /\ loop[q] \in Dormant =>
      \A t \in Covered(q) : alarm[q] <= t.time \/ alarm[q] <= now

(***************************************************************************)
(* "This also wakes up the loop at the required times"                     *)
(* (message_loop_task_queues.h): the same of every task that a loop could  *)
(* run, those of resumed sources of subsumed queues included.              *)
(***************************************************************************)
WakesForEveryTask ==
  \A q \in live :
    subsumedBy[q] = Unmerged /\ loop[q] \in Dormant =>
      \A t \in Offered(q) : alarm[q] <= t.time \/ alarm[q] <= now

(***************************************************************************)
(* Posting order survives merging, unmerging and pausing: no task is       *)
(* overtaken by one posted later to the same queue with the same grade,    *)
(* unless that one was due strictly earlier.                               *)
(***************************************************************************)
NoOvertaking ==
  \A t \in ran, u \in pending :
    (t.queue = u.queue /\ t.source = u.source /\ u.order < t.order)
      => t.time < u.time

(***************************************************************************)
(* A loop in Run that is terminated, by its own thread or by another, in   *)
(* time leaves Run and finishes, though other threads keep re-arming the   *)
(* very timer that was to wake it.                                         *)
(***************************************************************************)
TerminationTakesEffect ==
  \A q \in Queues :
    (terminated[q] /\ ~running[q] /\ loop[q] \in {"waiting", "flushing"})
      ~> (loop[q] = "ended" \/ q \notin live)

(***************************************************************************)
(* A task that is due does not stay with a loop that keeps running and     *)
(* keeps the queue: FlushTasks, the alarm and the wake-ups of the          *)
(* dispatcher together serve it.                                           *)
(***************************************************************************)
Serving(q) ==
  q \in live /\ subsumedBy[q] = Unmerged /\ loop[q] \in {"waiting", "flushing"}

DueTasksAreServed ==
  \A q \in Queues :
    []<>(~Serving(q) \/ \A t \in Covered(q) : t.time > now)

(***************************************************************************)
(* Merging, pausing, waking and terminating keep what posting promises: a  *)
(* task is invoked once and in order, or destroyed with its queue.         *)
(***************************************************************************)
Service == INSTANCE TaskService
ImplementsTaskService == Service!Spec
=============================================================================

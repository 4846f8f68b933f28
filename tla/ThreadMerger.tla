---------------------------- MODULE ThreadMerger ----------------------------
(***************************************************************************)
(* RasterThreadMerger and SharedThreadMerger: clients that merge the raster*)
(* queue of an engine into its platform queue for a number of frames, the  *)
(* lease.  All mergers of one pair of queues share a SharedThreadMerger,   *)
(* which keeps a lease per client, merges the queues with the first lease  *)
(* and unmerges them when all leases are zero.                             *)
(*                                                                         *)
(* A call holds the mutex_ of its RasterThreadMerger all along.  Under it  *)
(* it looks at enabled_ and at the leases without the mutex of the shared  *)
(* merger, then calls the shared merger, which is atomic under its own     *)
(* mutex_, then calls the merge-unmerge callback and notifies the waiter.  *)
(* These are separate steps here.                                          *)
(*                                                                         *)
(* The dispatcher (TaskQueues) is its merge table only: which owner        *)
(* subsumes which queue.  TaskQueues proves that owner_of and subsumed_by  *)
(* agree, so one relation stands for both.  Mergers whose two queues are   *)
(* one (TaskQueuesAreSame) do nothing and are left out.                    *)
(*                                                                         *)
(* Which thread calls is up to the clients, and here it is confined:       *)
(* "Must be executed on the raster task runner" stands in the header at    *)
(* UnMergeNowIfLastOne, so its caller is the thread whose loop serves the  *)
(* raster queue at the time.  The header says nothing of MergeWithLease,   *)
(* ExtendLeaseTo and DecrementLease.  The unit tests with one merger call  *)
(* them on any thread, and so do the Unconfined mergers.  The mergers of a *)
(* pair that several share are assumed to make these calls on the raster   *)
(* task runner as well: nothing in their code would otherwise keep the     *)
(* check and its use together, since each locks a mutex of its own.        *)
(***************************************************************************)
EXTENDS Integers

CONSTANTS
  Mergers,      \* the RasterThreadMerger instances
  Queues,       \* the task queues; each one's loop has a thread of that name
  PlatformOf,   \* platform_queue_id_ of each merger
  RasterOf,     \* gpu_queue_id_ of each merger
  Unconfined,   \* the mergers that any thread calls
  MaxLease      \* bound: the longest lease anybody asks for

\* No queue is the raster queue of one merger and the platform queue of
\* another, and a raster queue is merged into one platform queue only.  An
\* unconfined merger shares its shared merger with no other.
ASSUME MergersAssumption ==
  /\ PlatformOf \in [Mergers -> Queues]
  /\ RasterOf \in [Mergers -> Queues]
  /\ \A m, n \in Mergers :
       /\ PlatformOf[m] # RasterOf[n]
       /\ RasterOf[m] = RasterOf[n] => PlatformOf[m] = PlatformOf[n]
       /\ m \in Unconfined /\ RasterOf[m] = RasterOf[n] => m = n
  /\ MaxLease \in Nat

VARIABLES
  subsumes,     \* the pairs <<owner, subsumed>> of merged queues
  lease,        \* lease_term_by_caller_ of the shared mergers
  disabled,     \* the pairs of queues whose shared merger has enabled_ false
  call,         \* the call each thread is making
  failed        \* the CHECK that has aborted the program, if any

vars == <<subsumes, lease, disabled, call, failed>>

Pair(m) == <<PlatformOf[m], RasterOf[m]>>
Pairs == {Pair(m) : m \in Mergers}

NoRecord == -1          \* the client has no entry in lease_term_by_caller_

(***************************************************************************)
(* The step of a call: "shared", the checks are passed and the shared      *)
(* merger is next; "callback", it has returned and the callback is next;   *)
(* "aborted", a CHECK of the shared merger has failed in it; and for       *)
(* WaitUntilMerged, "waiting" and "woken".                                 *)
(***************************************************************************)
NoCall == [op |-> "none"]
Calls ==
  [op: {"merge", "extend"}, merger: Mergers, term: 1 .. MaxLease,
   at: {"shared", "callback", "aborted"}]
  \cup [op: {"unmerge", "decrement"}, merger: Mergers,
        at: {"shared", "callback", "aborted"}]
  \cup [op: {"wait"}, merger: Mergers, at: {"waiting", "woken"}]

Failures == {"none", "merge", "unmerge", "lease_term"}

TypeOK ==
  /\ subsumes \subseteq Pairs
  /\ lease \in [Mergers -> NoRecord .. MaxLease]
  /\ disabled \subseteq Pairs
  /\ call \in [Queues -> {NoCall} \cup Calls]
  /\ failed \in Failures

-----------------------------------------------------------------------------
IsAllLeaseTermsZero(p, leases) ==
  \A m \in Mergers : Pair(m) = p => leases[m] <= 0

IsMerged(m) == ~IsAllLeaseTermsZero(Pair(m), lease)
IsEnabled(m) == Pair(m) \notin disabled

\* A fault: the loop of the raster queue takes its tasks, subsumed or not.
EitherThread(m) == {PlatformOf[m], RasterOf[m]}

\* The threads whose loop is offered the tasks of m's raster queue.
RasterTaskThreads(m) ==
  {IF Pair(m) \in subsumes THEN PlatformOf[m] ELSE RasterOf[m]}

At(t, step) == call[t].op # "none" /\ call[t].at = step

\* Waiting releases the mutex.
Locked(m) ==
  \E t \in Queues : (At(t, "shared") \/ At(t, "callback")) /\ call[t].merger = m

\* Whether op of m may be called on thread t (see the head of the module).
MayRun(t, m, op) ==
  (m \in Unconfined /\ op # "unmerge") \/ t \in RasterTaskThreads(m)

\* t calls m and has the lock of m.
MayCall(t, m, op) ==
  /\ failed = "none"
  /\ call[t] = NoCall
  /\ MayRun(t, m, op)
  /\ ~Locked(m)

\* merged_condition_.notify_one; only the platform thread waits.
Notified(m, calls) ==
  [t \in Queues |-> IF calls[t] = [op |-> "wait", merger |-> m, at |-> "waiting"]
                    THEN [calls[t] EXCEPT !.at = "woken"] ELSE calls[t]]

-----------------------------------------------------------------------------
(* The calls of the clients, up to the call of the shared merger.          *)

MergeWithLease(t, m, term) ==
  /\ MayCall(t, m, "merge")
  /\ IsEnabled(m)
  /\ call' = IF IsMerged(m) THEN Notified(m, call)
             ELSE [call EXCEPT ![t] = [op |-> "merge", merger |-> m, term |-> term,
                                       at |-> "shared"]]
  /\ UNCHANGED <<subsumes, lease, disabled, failed>>

\* Nobody asks whether anything is merged.
UnMergeNowIfLastOne(t, m) ==
  /\ MayCall(t, m, "unmerge")
  /\ IsEnabled(m)
  /\ call' = [call EXCEPT ![t] = [op |-> "unmerge", merger |-> m, at |-> "shared"]]
  /\ UNCHANGED <<subsumes, lease, disabled, failed>>

\* That the queues are merged is a DCHECK of the shared merger.
ExtendLeaseTo(t, m, term) ==
  /\ MayCall(t, m, "extend")
  /\ IsMerged(m)
  /\ IsEnabled(m)
  /\ call' = [call EXCEPT ![t] = [op |-> "extend", merger |-> m, term |-> term,
                                  at |-> "shared"]]
  /\ UNCHANGED <<subsumes, lease, disabled, failed>>

\* A fault: nobody asks whether there is a lease.
DecrementUnasked(t, m) ==
  /\ MayCall(t, m, "decrement")
  /\ IsEnabled(m)
  /\ call' = [call EXCEPT ![t] = [op |-> "decrement", merger |-> m, at |-> "shared"]]
  /\ UNCHANGED <<subsumes, lease, disabled, failed>>

DecrementLease(t, m) ==
  /\ MayCall(t, m, "decrement")
  /\ IsMerged(m)
  /\ IsEnabled(m)
  /\ call' = [call EXCEPT ![t] = [op |-> "decrement", merger |-> m, at |-> "shared"]]
  /\ UNCHANGED <<subsumes, lease, disabled, failed>>

\* Enable and Disable, from any thread.
SetEnabled(m, enable) ==
  /\ failed = "none"
  /\ ~Locked(m)
  /\ disabled' = IF enable THEN disabled \ {Pair(m)} ELSE disabled \cup {Pair(m)}
  /\ UNCHANGED <<subsumes, lease, call, failed>>

-----------------------------------------------------------------------------
(* WaitUntilMerged, on the platform thread.                                *)

WaitUntilMerged(m) ==
  LET t == PlatformOf[m]
  IN  /\ failed = "none"
      /\ call[t] = NoCall
      /\ ~Locked(m)
      /\ ~IsMerged(m)
      /\ call' = [call EXCEPT ![t] = [op |-> "wait", merger |-> m, at |-> "waiting"]]
      /\ UNCHANGED <<subsumes, lease, disabled, failed>>

\* A condition variable may wake its waiter for no reason.
SpuriousWake(t) ==
  /\ failed = "none"
  /\ At(t, "waiting")
  /\ call' = [call EXCEPT ![t].at = "woken"]
  /\ UNCHANGED <<subsumes, lease, disabled, failed>>

\* The waiter has the mutex again and tests its predicate.
Rewait(t) ==
  /\ failed = "none"
  /\ At(t, "woken")
  /\ ~Locked(call[t].merger)
  /\ call' = [call EXCEPT ![t] = IF IsMerged(@.merger) THEN NoCall
                                 ELSE [@ EXCEPT !.at = "waiting"]]
  /\ UNCHANGED <<subsumes, lease, disabled, failed>>

-----------------------------------------------------------------------------
(* The calls of SharedThreadMerger, each under its own mutex_.             *)

Calling(t, op) ==
  failed = "none" /\ call[t].op = op /\ At(t, "shared")

Return(t) == call' = [call EXCEPT ![t] = NoCall]
ReturnToCallback(t) == call' = [call EXCEPT ![t].at = "callback"]

Abort(check, t) ==
  /\ failed' = check
  /\ call' = [call EXCEPT ![t].at = "aborted"]
  /\ UNCHANGED subsumes

\* MessageLoopTaskQueues::Merge, and the CHECK on its result.
MergeQueues(p, t) ==
  IF p \in subsumes \/ \A s \in subsumes : s[2] \notin {p[1], p[2]} /\ s[1] # p[2]
  THEN subsumes' = subsumes \cup {p} /\ ReturnToCallback(t) /\ UNCHANGED failed
  ELSE Abort("merge", t)

\* UnMergeNowUnSafe with the CHECK on the result of Unmerge.
UnmergeQueues(p, t) ==
  IF p \in subsumes /\ \A s \in subsumes : s[2] # p[1]
  THEN subsumes' = subsumes \ {p} /\ ReturnToCallback(t) /\ UNCHANGED failed
  ELSE Abort("unmerge", t)

SharedMergeWithLease(t) ==
  /\ Calling(t, "merge")
  /\ LET m == call[t].merger
     IN  IF IsMerged(m)
         THEN ReturnToCallback(t) /\ UNCHANGED <<subsumes, lease, failed>>
         ELSE /\ MergeQueues(Pair(m), t)
              /\ lease' = IF failed' = "none" THEN [lease EXCEPT ![m] = call[t].term]
                          ELSE lease
  /\ UNCHANGED disabled

\* A fault: leases that have run out count like the others.
UnMergeWithoutRecords(t) ==
  /\ Calling(t, "unmerge")
  /\ LET m == call[t].merger
     IN  /\ lease' = [lease EXCEPT ![m] = NoRecord]
         /\ IF \A n \in Mergers : Pair(n) = Pair(m) => lease'[n] = NoRecord
            THEN UnmergeQueues(Pair(m), t)
            ELSE ReturnToCallback(t) /\ UNCHANGED <<subsumes, failed>>
  /\ UNCHANGED disabled

\* Returns true, and so has the callback called, whether or not it unmerges.
SharedUnMergeNowIfLastOne(t) ==
  /\ Calling(t, "unmerge")
  /\ LET m == call[t].merger
     IN  /\ lease' = [lease EXCEPT ![m] = NoRecord]
         /\ IF IsAllLeaseTermsZero(Pair(m), lease')
            THEN UnmergeQueues(Pair(m), t)
            ELSE ReturnToCallback(t) /\ UNCHANGED <<subsumes, failed>>
  /\ UNCHANGED disabled

\* A fault: a caller without a record gets one, a lease below zero.
DecrementAnyRecord(t) ==
  /\ Calling(t, "decrement")
  /\ LET m == call[t].merger
     IN  /\ lease' = [lease EXCEPT ![m] = @ - 1]
         /\ IF IsAllLeaseTermsZero(Pair(m), lease')
            THEN UnmergeQueues(Pair(m), t)
            ELSE Return(t) /\ UNCHANGED <<subsumes, failed>>
  /\ UNCHANGED disabled

\* A caller without a record decrements nothing.
SharedDecrementLease(t) ==
  /\ Calling(t, "decrement")
  /\ LET m == call[t].merger
     IN  IF lease[m] = 0
         THEN Abort("lease_term", t) /\ UNCHANGED lease
         ELSE /\ lease' = [lease EXCEPT ![m] = IF @ = NoRecord THEN @ ELSE @ - 1]
              /\ IF IsAllLeaseTermsZero(Pair(m), lease')
                 THEN UnmergeQueues(Pair(m), t)
                 ELSE Return(t) /\ UNCHANGED <<subsumes, failed>>
  /\ UNCHANGED disabled

SharedExtendLeaseTo(t) ==
  /\ Calling(t, "extend")
  /\ lease' = [lease EXCEPT ![call[t].merger] = call[t].term]
  /\ Return(t)
  /\ UNCHANGED <<subsumes, disabled, failed>>

\* A fault: the waiter is not notified.
ReturnQuietly(t) ==
  /\ failed = "none"
  /\ At(t, "callback")
  /\ call' = [call EXCEPT ![t] = NoCall]
  /\ UNCHANGED <<subsumes, lease, disabled, failed>>

\* The merge-unmerge callback, merged_condition_.notify_one after a merge,
\* and the end of the call.
MergeUnmergeCallback(t) ==
  /\ failed = "none"
  /\ At(t, "callback")
  /\ LET m == call[t].merger
         done == [call EXCEPT ![t] = NoCall]
     IN  call' = IF call[t].op = "merge" THEN Notified(m, done) ELSE done
  /\ UNCHANGED <<subsumes, lease, disabled, failed>>
-----------------------------------------------------------------------------
Init ==
  /\ subsumes = {}
  /\ lease = [m \in Mergers |-> NoRecord]
  /\ disabled = {}
  /\ call = [t \in Queues |-> NoCall]
  /\ failed = "none"

CallMerger(t, m) ==
  \/ \E term \in 1 .. MaxLease : MergeWithLease(t, m, term) \/ ExtendLeaseTo(t, m, term)
  \/ UnMergeNowIfLastOne(t, m)
  \/ DecrementLease(t, m)

\* What a thread goes on to do once it is in a call.
Proceed(t) ==
  \/ SharedMergeWithLease(t)
  \/ SharedUnMergeNowIfLastOne(t)
  \/ SharedDecrementLease(t)
  \/ SharedExtendLeaseTo(t)
  \/ MergeUnmergeCallback(t)
  \/ Rewait(t)

Next ==
  \/ \E t \in Queues : (\E m \in Mergers : CallMerger(t, m)) \/ Proceed(t) \/ SpuriousWake(t)
  \/ \E m \in Mergers : WaitUntilMerged(m) \/ \E enable \in BOOLEAN : SetEnabled(m, enable)

Spec == Init /\ [][Next]_vars

\* Threads run; nobody has to call, and nobody is woken without a reason.
FairSpec == Spec /\ \A t \in Queues : WF_vars(Proceed(t))

-----------------------------------------------------------------------------
(* Properties.                                                             *)

(***************************************************************************)
(* What SharedThreadMerger infers from its leases is what the dispatcher   *)
(* does: queues are merged as long as some client's lease runs, whoever    *)
(* merged, extended, decremented or left.  IsMerged only looks at the      *)
(* leases, and threads decide by it whether they may rasterize.            *)
(***************************************************************************)
LeaseAgreesWithQueues ==
  failed = "none" => \A m \in Mergers : Pair(m) \in subsumes <=> IsMerged(m)

(***************************************************************************)
(* A call still finds, when it gets to the shared merger, what it checked  *)
(* without the mutex of the shared merger: the queues are merged or not as *)
(* it saw them, and its thread still runs the raster tasks if it has to.   *)
(* For mergers that share a pair only the confinement of MayRun makes it   *)
(* so, no lock does; an unconfined merger has its own mutex.               *)
(***************************************************************************)
ChecksStillHold ==
  failed = "none" =>
    \A t \in Queues :
      At(t, "shared") => LET m == call[t].merger
                         IN  /\ MayRun(t, m, call[t].op)
                             /\ call[t].op = "merge" => ~IsMerged(m)
                             /\ call[t].op \in {"extend", "decrement"} => IsMerged(m)

(***************************************************************************)
(* When a CHECK of the shared merger aborts the program.  "Unable to merge *)
(* the raster and platform threads." never does.  "Unable to un-merge the  *)
(* raster and platform threads." does in nothing but an UnMergeNowIfLastOne*)
(* called with nothing merged: a lease that runs out finds the queues      *)
(* merged, and so does the last client to leave while a lease runs.        *)
(* "lease_term should always be positive when merged" does in nothing but  *)
(* the DecrementLease of a client whose own lease has run out while that   *)
(* of another client still holds the queues merged.                        *)
(***************************************************************************)
Aborted(t, op) == At(t, "aborted") /\ call[t].op = op

CheckFailures ==
  /\ failed # "merge"
  /\ failed = "unmerge" =>
       \E t \in Queues : Aborted(t, "unmerge") /\ Pair(call[t].merger) \notin subsumes
  /\ failed = "lease_term" =>
       \E t \in Queues : /\ Aborted(t, "decrement")
                         /\ lease[call[t].merger] = 0
                         /\ Pair(call[t].merger) \in subsumes
                         /\ IsMerged(call[t].merger)

(***************************************************************************)
(* WaitUntilMerged returns when the merger it waits for has merged: the    *)
(* notification is not lost between the test of the predicate and the      *)
(* wait, nor is the merge undone before the waiter has seen it.  The       *)
(* latter because the thread that may undo it is the one that waits; an    *)
(* unconfined merger's lease may run out first, on another thread.  (A     *)
(* merge by another merger of the pair notifies nobody here.)              *)
(***************************************************************************)
Waiting(m) == \E t \in Queues : call[t].op = "wait" /\ call[t].merger = m

MergeEndsWait ==
  \A m \in Mergers \ Unconfined :
    (failed = "none" /\ Waiting(m) /\ lease[m] > 0) ~> (failed # "none" \/ ~Waiting(m))
=============================================================================

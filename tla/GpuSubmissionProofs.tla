------------------------- MODULE GpuSubmissionProofs -------------------------
(***************************************************************************)
(* Proofs about GpuSubmission.  The inductive invariant IInv relates a     *)
(* submission to its phase, a pool to who refers to it, and a reference to *)
(* the thread that has locked it and the step that thread is at.           *)
(***************************************************************************)
EXTENDS GpuSubmission, TLAPS

\* The phases in which the TrackedObjects of a submission live.
Live == {"recorded", "ended", "queued", "waiting", "signalled", "failing",
         "refused", "rejected"}

\* ~FenceWaiter has dropped the submission while the GPU may run it: there is
\* no Context then in which its pool could be reset.
Abandoned(s) ==
  /\ dtor.at = "done"
  /\ pool[s] \notin reclaimables \cup manager.hand \cup recycled

\* What the phase of a submission says of its pool, of the GPU and of the
\* callback.  What Submit has refused is dropped while the GPU runs it, and
\* what a failed waiter has left behind may be.
SubInv(s) ==
  /\ s \in tracked <=> phase[s] \in Live
  /\ phase[s] = "none" <=> pool[s] = None
  /\ phase[s] \notin {"rejected", "done"} => told[s] = <<>>
  /\ phase[s] \in {"none", "recorded", "ended", "rejected"} => gpu[s] = "idle"
  /\ phase[s] \in {"queued", "waiting", "refused"} => gpu[s] # "idle"
  /\ phase[s] \in {"signalled", "completing"} => gpu[s] = "complete"
  /\ gpu[s] = "pending" =>
       s \in tracked \/ phase[s] = "erring" \/ told[s] = <<"error">> \/ Abandoned(s)
  /\ told[s] = <<"completed">> => gpu[s] = "complete" \/ (deviceError /\ dtor.at = "done")

SubsInv == \A s \in Subs : SubInv(s)

\* A pool on its way to be reset is nobody's, has been somebody's, and is in
\* one place; so has been each thread-local one.
PoolsInv ==
  /\ \A p \in reclaimables \cup manager.hand \cup recycled :
       /\ \A s \in tracked : pool[s] # p
       /\ \A c \in Clients : tls[c] # p
       /\ \E s \in Subs : pool[s] = p
  /\ \A c \in Clients : tls[c] # None => \E s \in Subs : pool[s] = tls[c]
  /\ recycled \cap (reclaimables \cup manager.hand) = {}
  /\ reclaimables \cap manager.hand = {}

\* The waiter holds references only inside a callback, which is only between
\* a wait and the next; it ends when it is terminated and has nothing to wait
\* for, or by an error of the device.
WaiterInv ==
  /\ \A s \in Subs : phase[s] \in {"signalled", "completing"} => waiter.at = "callbacks"
  /\ Waiter \in contextRefs \/ managerDtor = Waiter =>
       \E s \in Subs : phase[s] = "completing"
  /\ waiter.at = "fences" => \A s \in waiter.snapshot : phase[s] = "waiting"
  /\ waiter.at = "ended" /\ ~deviceError =>
       terminate /\ \A s \in Subs : phase[s] # "waiting"

\* Who holds the manager holds the Context too.  The manager's thread runs
\* while it is referred to or joined; from the round in which it has seen
\* should_exit_, nothing is added to what it collects.
ManagerInv ==
  /\ managerRefs \subseteq contextRefs \ {Manager}
  /\ managerDtor # None =>
       \/ managerDtor \in contextRefs \ {Manager}
       \/ managerDtor = Owner /\ shutdown = "returning"
  /\ manager.at # "ended" => managerMember \/ managerRefs # {} \/ managerDtor # None
  /\ manager.hand # {} \/ Manager \in contextRefs => manager.at = "collect"
  /\ shouldExit => ~managerMember
  /\ (manager.at # "check" /\ manager.exit) \/ manager.at = "ended" =>
       shouldExit /\ reclaimables = {}

\* The owner lets go of the Context after Shutdown, which has joined the waiter
\* and has let go of the manager; what is submitted keeps the Context.
LifeInv ==
  /\ Owner \notin holders => shutdown = "done"
  /\ shutdown \in {"manager", "returning", "done"} => waiter.at = "ended" /\ terminate
  /\ managerMember <=> shutdown \in {"none", "waiter", "manager"}
  /\ terminate <=> shutdown # "none"
  /\ \A s \in Subs : phase[s] \in {"ended", "queued", "refused"} => ThreadOf[s] \in contextRefs
  /\ dtor.at # "none" => holders = {} /\ contextRefs = {}
  /\ dtor.at \in {"waiter", "joinWaiter"} => waiter.at = "ended"
  /\ dtor.thread \notin {Waiter, Manager}

IInv == TypeOK /\ SubsInv /\ PoolsInv /\ WaiterInv /\ ManagerInv /\ LifeInv

-----------------------------------------------------------------------------
(* What each operation preserves.                                          *)

\* The pool a thread records in is its own, a recycled one that leaves the
\* recycler, or one that never was in use: in no case one waiting to be reset.
LEMMA CreateCommandBufferHolds ==
  ASSUME IInv, NEW s \in Subs, CreateCommandBuffer(s)
  PROVE  IInv'
<1>1. TypeOK'
  <2>1. PICK p \in PoolsFor(ThreadOf[s]) :
          /\ pool' = [pool EXCEPT ![s] = p]
          /\ tls' = [tls EXCEPT ![ThreadOf[s]] = p]
          /\ recycled' = recycled \ {p}
    BY DEF CreateCommandBuffer
  <2>2. p \in Pools
    BY ContextAssumption DEF PoolsFor, IInv, TypeOK
  <2>3. phase' \in [Subs -> Phases] /\ pool' \in [Subs -> Pools \cup {None}]
    BY <2>1, <2>2 DEF CreateCommandBuffer, IInv, TypeOK, Phases
  <2>4. tls' \in [Clients -> Pools \cup {None}] /\ recycled' \subseteq Pools
    BY <2>1, <2>2 DEF IInv, TypeOK
  <2> QED BY <2>3, <2>4 DEF CreateCommandBuffer, IInv, TypeOK, managerVars, refVars, waiterVars,
             lifeVars
<1>2. SubsInv'
  BY ContextAssumption DEF CreateCommandBuffer, PoolsFor, IInv, TypeOK, SubsInv, SubInv,
     Abandoned, Live,
     managerVars, refVars, waiterVars, lifeVars, Threads
<1>3. PoolsInv'
  BY ContextAssumption DEF CreateCommandBuffer, PoolsFor, IInv, TypeOK, PoolsInv, managerVars,
     refVars, waiterVars, lifeVars, SubsInv, SubInv, Abandoned, Live
<1>4. WaiterInv'
  BY DEF CreateCommandBuffer, PoolsFor, IInv, WaiterInv, managerVars, refVars, waiterVars,
     lifeVars
<1>5. ManagerInv'
  BY DEF CreateCommandBuffer, PoolsFor, IInv, ManagerInv, managerVars, refVars, waiterVars,
     lifeVars
<1>6. LifeInv'
  BY DEF CreateCommandBuffer, PoolsFor, IInv, LifeInv, managerVars, refVars, waiterVars,
     lifeVars
<1> QED BY <1>1, <1>2, <1>3, <1>4, <1>5, <1>6 DEF IInv

\* Submit locks the Context on a client thread, neither of the background ones.
LEMMA SubmitEndsHolds ==
  ASSUME IInv, NEW s \in Subs, SubmitEnds(s)
  PROVE  IInv'
<1>1. TypeOK'
  <2>1. phase' \in [Subs -> Phases]
    BY DEF SubmitEnds, IInv, TypeOK, Phases
  <2>2. contextRefs' \subseteq Threads
    <3>1. ThreadOf[s] \in Threads /\ contextRefs \subseteq Threads
      BY ContextAssumption DEF IInv, TypeOK, Threads
    <3>2. contextRefs' \subseteq contextRefs \cup {ThreadOf[s]}
      BY DEF SubmitEnds
    <3> QED BY <3>1, <3>2
  <2> QED BY <2>1, <2>2 DEF SubmitEnds, IInv, TypeOK, poolVars, managerVars, waiterVars,
             lifeVars
<1>2. SubsInv'
  BY DEF SubmitEnds, ContextAlive, IInv, SubsInv, SubInv, Abandoned, Live, poolVars,
     managerVars,
     waiterVars, lifeVars
<1>3. PoolsInv'
  BY DEF SubmitEnds, ContextAlive, IInv, PoolsInv, poolVars, managerVars, waiterVars, lifeVars
<1>4. WaiterInv'
  <2>1. ThreadOf[s] # Waiter /\ contextRefs' \subseteq contextRefs \cup {ThreadOf[s]}
    BY ContextAssumption DEF SubmitEnds
  <2> QED BY <2>1 DEF SubmitEnds, IInv, TypeOK, WaiterInv, managerVars, waiterVars
<1>5. ManagerInv'
  <2>1. ThreadOf[s] # Manager
    BY ContextAssumption
  <2>2. contextRefs \subseteq contextRefs' /\ contextRefs' \subseteq contextRefs \cup {ThreadOf[s]}
    BY DEF SubmitEnds
  <2> QED BY <2>1, <2>2 DEF SubmitEnds, IInv, ManagerInv, poolVars, managerVars, lifeVars
<1>6. LifeInv'
  BY DEF SubmitEnds, ContextAlive, IInv, LifeInv, poolVars, managerVars, waiterVars, lifeVars
<1> QED BY <1>1, <1>2, <1>3, <1>4, <1>5, <1>6 DEF IInv

\* The buffer was never given to the GPU, and the callback not called yet.
LEMMA SubmitCannotEndHolds ==
  ASSUME IInv, NEW s \in Subs, SubmitCannotEnd(s)
  PROVE  IInv'
<1>1. TypeOK'
  <2>1. told[s] = <<>> /\ Append(<<>>, "error") = <<"error">>
    BY DEF SubmitCannotEnd, IInv, SubsInv, SubInv, Abandoned
  <2>2. told' = [told EXCEPT ![s] = <<"error">>]
    BY <2>1 DEF SubmitCannotEnd, IInv, TypeOK
  <2>3. told' \in [Subs -> {<<>>, <<"error">>, <<"completed">>}]
    BY <2>2 DEF IInv, TypeOK
  <2>4. phase' \in [Subs -> Phases]
    BY DEF SubmitCannotEnd, IInv, TypeOK, Phases
  <2> QED BY <2>3, <2>4 DEF SubmitCannotEnd, IInv, TypeOK, poolVars, managerVars, refVars,
             waiterVars, lifeVars
<1>2. SubsInv'
  <2>1. told[s] = <<>> /\ Append(<<>>, "error") = <<"error">>
    BY DEF SubmitCannotEnd, IInv, SubsInv, SubInv, Abandoned
  <2>2. told' = [told EXCEPT ![s] = <<"error">>] /\ <<"error">> # <<"completed">>
    BY <2>1 DEF SubmitCannotEnd, IInv, TypeOK
  <2>3. ASSUME NEW r \in Subs PROVE SubInv(r)'
    <3>1. CASE r = s
      BY <2>2, <3>1 DEF SubmitCannotEnd, IInv, TypeOK, SubsInv, SubInv, Abandoned, Live,
         poolVars, managerVars, waiterVars, lifeVars
    <3>2. CASE r # s
      BY <2>2, <3>2 DEF SubmitCannotEnd, IInv, TypeOK, SubsInv, SubInv, Abandoned, Live,
         poolVars, managerVars, waiterVars, lifeVars
    <3> QED BY <3>1, <3>2
  <2> QED BY <2>3 DEF SubsInv
<1>3. PoolsInv'
  BY DEF SubmitCannotEnd, IInv, PoolsInv, poolVars, managerVars, refVars, waiterVars, lifeVars
<1>4. WaiterInv'
  BY DEF SubmitCannotEnd, IInv, WaiterInv, poolVars, managerVars, refVars, waiterVars, lifeVars
<1>5. ManagerInv'
  BY DEF SubmitCannotEnd, IInv, ManagerInv, poolVars, managerVars, refVars, waiterVars, lifeVars
<1>6. LifeInv'
  BY DEF SubmitCannotEnd, IInv, LifeInv, poolVars, managerVars, refVars, waiterVars, lifeVars
<1> QED BY <1>1, <1>2, <1>3, <1>4, <1>5, <1>6 DEF IInv

\* The Context a Submit has locked is alive: ~Context has not waited for the
\* device yet.
LEMMA QueueSubmitHolds ==
  ASSUME IInv, NEW s \in Subs, QueueSubmit(s)
  PROVE  IInv'
<1>1. TypeOK'
  <2>1. phase' \in [Subs -> Phases] /\ gpu' \in [Subs -> {"idle", "pending", "complete"}]
    BY DEF QueueSubmit, IInv, TypeOK, Phases
  <2> QED BY <2>1 DEF QueueSubmit, IInv, TypeOK, poolVars, managerVars, refVars, waiterVars,
             lifeVars
<1>2. SubsInv'
  BY DEF QueueSubmit, IInv, TypeOK, SubsInv, SubInv, Abandoned, Live, poolVars, managerVars,
     refVars,
     waiterVars, lifeVars
<1>3. PoolsInv'
  BY DEF QueueSubmit, IInv, PoolsInv, poolVars, managerVars, refVars, waiterVars, lifeVars
<1>4. WaiterInv'
  BY DEF QueueSubmit, IInv, TypeOK, WaiterInv, poolVars, managerVars, refVars, waiterVars,
     lifeVars
<1>5. ManagerInv'
  BY DEF QueueSubmit, IInv, ManagerInv, poolVars, managerVars, refVars, waiterVars, lifeVars
<1>6. LifeInv'
  BY DEF QueueSubmit, IInv, TypeOK, LifeInv, poolVars, managerVars, refVars, waiterVars,
     lifeVars
<1> QED BY <1>1, <1>2, <1>3, <1>4, <1>5, <1>6 DEF IInv

\* A waiter that has ended after Shutdown takes no further fence.
LEMMA AddFenceHolds ==
  ASSUME IInv, NEW s \in Subs, AddFence(s)
  PROVE  IInv'
<1>1. TypeOK'
  <2>1. phase' \in [Subs -> Phases]
    BY DEF AddFence, IInv, TypeOK, Phases
  <2> QED BY <2>1 DEF AddFence, IInv, TypeOK, poolVars, managerVars, refVars, waiterVars,
             lifeVars
<1>2. SubsInv'
  BY DEF AddFence, IInv, SubsInv, SubInv, Abandoned, Live, poolVars, managerVars, refVars,
     waiterVars,
     lifeVars
<1>3. PoolsInv'
  BY DEF AddFence, IInv, PoolsInv, poolVars, managerVars, refVars, waiterVars, lifeVars
<1>4. WaiterInv'
  BY DEF AddFence, IInv, WaiterInv, poolVars, managerVars, refVars, waiterVars, lifeVars
<1>5. ManagerInv'
  BY DEF AddFence, IInv, ManagerInv, poolVars, managerVars, refVars, waiterVars, lifeVars
<1>6. LifeInv'
  BY DEF AddFence, IInv, LifeInv, poolVars, managerVars, refVars, waiterVars, lifeVars
<1> QED BY <1>1, <1>2, <1>3, <1>4, <1>5, <1>6 DEF IInv

\* The callback is called with an error once.
LEMMA SubmitFailsHolds ==
  ASSUME IInv, NEW s \in Subs, SubmitFails(s)
  PROVE  IInv'
<1>1. TypeOK'
  <2>1. told[s] = <<>> /\ Append(<<>>, "error") = <<"error">>
    BY DEF SubmitFails, IInv, SubsInv, SubInv, Abandoned
  <2>2. told' = [told EXCEPT ![s] = <<"error">>]
    BY <2>1 DEF SubmitFails, IInv, TypeOK
  <2>3. told' \in [Subs -> {<<>>, <<"error">>, <<"completed">>}]
    BY <2>2 DEF IInv, TypeOK
  <2>4. phase' \in [Subs -> Phases]
    BY DEF SubmitFails, IInv, TypeOK, Phases
  <2> QED BY <2>3, <2>4 DEF SubmitFails, IInv, TypeOK, poolVars, managerVars, refVars,
             waiterVars, lifeVars
<1>2. SubsInv'
  <2>1. told[s] = <<>> /\ Append(<<>>, "error") = <<"error">>
    BY DEF SubmitFails, IInv, SubsInv, SubInv, Abandoned
  <2>2. told' = [told EXCEPT ![s] = <<"error">>] /\ <<"error">> # <<"completed">>
    BY <2>1 DEF SubmitFails, IInv, TypeOK
  <2>3. ASSUME NEW r \in Subs PROVE SubInv(r)'
    <3>1. CASE r = s
      BY <2>2, <3>1 DEF SubmitFails, IInv, TypeOK, SubsInv, SubInv, Abandoned, Live, poolVars,
         managerVars, waiterVars, lifeVars
    <3>2. CASE r # s
      BY <2>2, <3>2 DEF SubmitFails, IInv, TypeOK, SubsInv, SubInv, Abandoned, Live, poolVars,
         managerVars, waiterVars, lifeVars
    <3> QED BY <3>1, <3>2
  <2> QED BY <2>3 DEF SubsInv
<1>3. PoolsInv'
  BY DEF SubmitFails, IInv, PoolsInv, poolVars, managerVars, refVars, waiterVars, lifeVars
<1>4. WaiterInv'
  BY DEF SubmitFails, IInv, WaiterInv, poolVars, managerVars, refVars, waiterVars, lifeVars
<1>5. ManagerInv'
  BY DEF SubmitFails, IInv, ManagerInv, poolVars, managerVars, refVars, waiterVars, lifeVars
<1>6. LifeInv'
  BY DEF SubmitFails, IInv, LifeInv, poolVars, managerVars, refVars, waiterVars, lifeVars
<1> QED BY <1>1, <1>2, <1>3, <1>4, <1>5, <1>6 DEF IInv

\* The GPU may complete a submission in any phase.
LEMMA GpuCompletesHolds ==
  ASSUME IInv, NEW s \in Subs, GpuCompletes(s)
  PROVE  IInv'
<1>1. TypeOK'
  BY DEF GpuCompletes, IInv, TypeOK, poolVars, managerVars, refVars, waiterVars, lifeVars
<1>2. SubsInv'
  BY DEF GpuCompletes, IInv, SubsInv, SubInv, Abandoned, Live, poolVars, managerVars, refVars,
     waiterVars,
     lifeVars
<1>3. PoolsInv'
  BY DEF GpuCompletes, IInv, PoolsInv, poolVars, managerVars, refVars, waiterVars, lifeVars
<1>4. WaiterInv'
  BY DEF GpuCompletes, IInv, WaiterInv, poolVars, managerVars, refVars, waiterVars, lifeVars
<1>5. ManagerInv'
  BY DEF GpuCompletes, IInv, ManagerInv, poolVars, managerVars, refVars, waiterVars, lifeVars
<1>6. LifeInv'
  BY DEF GpuCompletes, IInv, LifeInv, poolVars, managerVars, refVars, waiterVars, lifeVars
<1> QED BY <1>1, <1>2, <1>3, <1>4, <1>5, <1>6 DEF IInv

\* The owner is the last to go unless another client holds on: a client is in
\* ~Context then.
LEMMA DropReferenceHolds ==
  ASSUME IInv, NEW c \in Clients, DropReference(c)
  PROVE  IInv'
<1>1. TypeOK'
  BY ContextAssumption DEF DropReference, DropContext, IInv, TypeOK, subVars, poolVars,
     managerVars, waiterVars, Threads
<1>2. SubsInv'
  BY DEF DropReference, DropContext, IInv, SubsInv, SubInv, Abandoned, Live, subVars, poolVars,
     managerVars, waiterVars, LifeInv
<1>3. PoolsInv'
  BY DEF DropReference, DropContext, IInv, PoolsInv, subVars, poolVars, managerVars, waiterVars
<1>4. WaiterInv'
  BY DEF DropReference, DropContext, IInv, WaiterInv, subVars, poolVars, managerVars, waiterVars
<1>5. ManagerInv'
  BY DEF DropReference, DropContext, IInv, ManagerInv, subVars, poolVars, managerVars,
     waiterVars
<1>6. LifeInv'
  BY ContextAssumption DEF DropReference, DropContext, IInv, TypeOK, LifeInv, subVars, poolVars,
     managerVars, waiterVars, Threads
<1> QED BY <1>1, <1>2, <1>3, <1>4, <1>5, <1>6 DEF IInv

\* Who comes to be in ~ResourceManager has the Context locked.
LEMMA ReleaseManagerHolds ==
  ASSUME IInv, NEW t \in Threads, ReleaseManager(t)
  PROVE  IInv'
<1>1. TypeOK'
  <2>1. managerRefs' \subseteq Threads /\ managerMember' = managerMember
    BY DEF ReleaseManager, DropManager, IInv, TypeOK
  <2>2. managerDtor' \in Threads \cup {None} /\ shouldExit' \in BOOLEAN
    BY DEF ReleaseManager, DropManager, IInv, TypeOK
  <2> QED BY <2>1, <2>2 DEF ReleaseManager, IInv, TypeOK, subVars, poolVars, waiterVars,
             lifeVars
<1>2. SubsInv'
  BY DEF ReleaseManager, DropManager, IInv, SubsInv, SubInv, Abandoned, Live, subVars, poolVars,
     waiterVars, lifeVars
<1>3. PoolsInv'
  BY DEF ReleaseManager, DropManager, IInv, PoolsInv, subVars, poolVars, waiterVars, lifeVars
<1>4. WaiterInv'
  BY ContextAssumption DEF ReleaseManager, DropManager, IInv, TypeOK, WaiterInv, subVars,
     poolVars, waiterVars, lifeVars, ManagerInv
<1>5. ManagerInv'
  BY ContextAssumption DEF ReleaseManager, DropManager, IInv, TypeOK, ManagerInv, subVars,
     poolVars, waiterVars, lifeVars, Threads
<1>6. LifeInv'
  BY DEF ReleaseManager, DropManager, IInv, LifeInv, subVars, poolVars, waiterVars, lifeVars
<1> QED BY <1>1, <1>2, <1>3, <1>4, <1>5, <1>6 DEF IInv

\* The waiter and the manager never drop the last reference: while they hold
\* one, the owner, or who joins the manager, holds another.
LEMMA ReleaseContextHolds ==
  ASSUME IInv, NEW t \in Threads, ReleaseContext(t)
  PROVE  IInv'
<1>1. TypeOK'
  BY DEF ReleaseContext, DropContext, IInv, TypeOK, subVars, poolVars, managerVars, waiterVars
<1>2. SubsInv'
  BY DEF ReleaseContext, DropContext, IInv, SubsInv, SubInv, Abandoned, Live, subVars, poolVars,
     managerVars, waiterVars, LifeInv
<1>3. PoolsInv'
  BY DEF ReleaseContext, DropContext, IInv, PoolsInv, subVars, poolVars, managerVars, waiterVars
<1>4. WaiterInv'
  BY DEF ReleaseContext, DropContext, IInv, WaiterInv, subVars, poolVars, managerVars,
     waiterVars
<1>5. ManagerInv'
  BY DEF ReleaseContext, DropContext, IInv, ManagerInv, subVars, poolVars, managerVars,
     waiterVars
<1>6. LifeInv'
  BY ContextAssumption DEF ReleaseContext, DropContext, IInv, TypeOK, LifeInv, subVars,
     poolVars, managerVars, waiterVars, Threads, WaiterInv, ManagerInv
<1> QED BY <1>1, <1>2, <1>3, <1>4, <1>5, <1>6 DEF IInv

\* The join has returned.
LEMMA ManagerJoinedHolds ==
  ASSUME IInv, ManagerJoined
  PROVE  IInv'
<1>1. TypeOK'
  BY DEF ManagerJoined, IInv, TypeOK, subVars, poolVars, refVars, waiterVars, lifeVars
<1>2. SubsInv'
  BY DEF ManagerJoined, IInv, SubsInv, SubInv, Abandoned, Live, subVars, poolVars, refVars,
     waiterVars,
     lifeVars
<1>3. PoolsInv'
  BY DEF ManagerJoined, IInv, PoolsInv, subVars, poolVars, refVars, waiterVars, lifeVars
<1>4. WaiterInv'
  BY ContextAssumption DEF ManagerJoined, IInv, TypeOK, WaiterInv, subVars, poolVars, refVars,
     waiterVars, lifeVars, Threads
<1>5. ManagerInv'
  BY DEF ManagerJoined, IInv, ManagerInv, subVars, poolVars, refVars, waiterVars, lifeVars
<1>6. LifeInv'
  BY DEF ManagerJoined, IInv, LifeInv, subVars, poolVars, refVars, waiterVars, lifeVars
<1> QED BY <1>1, <1>2, <1>3, <1>4, <1>5, <1>6 DEF IInv

\* The snapshot is of the fences in the wait set; without any, the waiter ends.
LEMMA WaiterLooksHolds ==
  ASSUME IInv, WaiterLooks
  PROVE  IInv'
<1>1. TypeOK'
  BY DEF WaiterLooks, WaitSet, IInv, TypeOK, subVars, poolVars, managerVars, refVars, lifeVars
<1>2. SubsInv'
  BY DEF WaiterLooks, WaitSet, IInv, SubsInv, SubInv, Abandoned, Live, subVars, poolVars,
     managerVars,
     refVars, lifeVars
<1>3. PoolsInv'
  BY DEF WaiterLooks, WaitSet, IInv, PoolsInv, subVars, poolVars, managerVars, refVars, lifeVars
<1>4. WaiterInv'
  BY DEF WaiterLooks, WaitSet, IInv, WaiterInv, subVars, poolVars, managerVars, refVars,
     lifeVars
<1>5. ManagerInv'
  BY DEF WaiterLooks, WaitSet, IInv, ManagerInv, subVars, poolVars, managerVars, refVars,
     lifeVars
<1>6. LifeInv'
  BY DEF WaiterLooks, WaitSet, IInv, LifeInv, subVars, poolVars, managerVars, refVars, lifeVars
<1> QED BY <1>1, <1>2, <1>3, <1>4, <1>5, <1>6 DEF IInv

\* What was in the snapshot still waits, and is erased if the GPU is done.
LEMMA FencesWaitedHolds ==
  ASSUME IInv, FencesWaited
  PROVE  IInv'
<1>1. TypeOK'
  <2>1. phase' \in [Subs -> Phases]
    BY DEF FencesWaited, IInv, TypeOK, Phases
  <2>2. waiter' \in [at: {"check", "fences", "callbacks", "ended"}, snapshot: SUBSET Subs]
    BY DEF FencesWaited
  <2> QED BY <2>1, <2>2 DEF FencesWaited, IInv, TypeOK, poolVars, managerVars, refVars, lifeVars
<1>2. SubsInv'
  BY ContextAssumption DEF FencesWaited, IInv, TypeOK, SubsInv, SubInv, Abandoned, Live,
     poolVars,
     managerVars, refVars, lifeVars, WaiterInv
<1>3. PoolsInv'
  BY DEF FencesWaited, IInv, PoolsInv, poolVars, managerVars, refVars, lifeVars
<1>4. WaiterInv'
  BY DEF FencesWaited, IInv, WaiterInv, poolVars, managerVars, refVars, lifeVars
<1>5. ManagerInv'
  BY DEF FencesWaited, IInv, ManagerInv, poolVars, managerVars, refVars, lifeVars
<1>6. LifeInv'
  BY DEF FencesWaited, IInv, LifeInv, poolVars, managerVars, refVars, lifeVars
<1> QED BY <1>1, <1>2, <1>3, <1>4, <1>5, <1>6 DEF IInv

\* A device error excuses the waiter.
LEMMA FencesFailHolds ==
  ASSUME IInv, FencesFail
  PROVE  IInv'
<1>1. TypeOK'
  BY DEF FencesFail, IInv, TypeOK, subVars, poolVars, managerVars, refVars, lifeVars
<1>2. SubsInv'
  BY DEF FencesFail, IInv, SubsInv, SubInv, Abandoned, Live, subVars, poolVars, managerVars,
     refVars,
     lifeVars
<1>3. PoolsInv'
  BY DEF FencesFail, IInv, PoolsInv, subVars, poolVars, managerVars, refVars, lifeVars
<1>4. WaiterInv'
  BY DEF FencesFail, IInv, WaiterInv, subVars, poolVars, managerVars, refVars, lifeVars
<1>5. ManagerInv'
  BY DEF FencesFail, IInv, ManagerInv, subVars, poolVars, managerVars, refVars, lifeVars
<1>6. LifeInv'
  BY DEF FencesFail, IInv, LifeInv, subVars, poolVars, managerVars, refVars, lifeVars
<1> QED BY <1>1, <1>2, <1>3, <1>4, <1>5, <1>6 DEF IInv

\* The completion callback comes after the references are dropped.
LEMMA WaiterCallsBackHolds ==
  ASSUME IInv, NEW s \in Subs, WaiterCallsBack(s)
  PROVE  IInv'
<1>1. TypeOK'
  <2>1. told[s] = <<>> /\ Append(<<>>, "completed") = <<"completed">>
    BY DEF WaiterCallsBack, IInv, SubsInv, SubInv, Abandoned
  <2>2. told' = [told EXCEPT ![s] = <<"completed">>]
    BY <2>1 DEF WaiterCallsBack, IInv, TypeOK
  <2>3. told' \in [Subs -> {<<>>, <<"error">>, <<"completed">>}]
    BY <2>2 DEF IInv, TypeOK
  <2>4. phase' \in [Subs -> Phases]
    BY DEF WaiterCallsBack, IInv, TypeOK, Phases
  <2> QED BY <2>3, <2>4 DEF WaiterCallsBack, IInv, TypeOK, poolVars, managerVars, refVars,
             waiterVars, lifeVars
<1>2. SubsInv'
  BY DEF WaiterCallsBack, Settled, IInv, TypeOK, SubsInv, SubInv, Abandoned, Live, poolVars,
     managerVars,
     refVars, waiterVars, lifeVars
<1>3. PoolsInv'
  BY DEF WaiterCallsBack, Settled, IInv, PoolsInv, poolVars, managerVars, refVars, waiterVars,
     lifeVars
<1>4. WaiterInv'
  BY DEF WaiterCallsBack, Settled, IInv, WaiterInv, poolVars, managerVars, refVars, waiterVars,
     lifeVars
<1>5. ManagerInv'
  BY DEF WaiterCallsBack, Settled, IInv, ManagerInv, poolVars, managerVars, refVars, waiterVars,
     lifeVars
<1>6. LifeInv'
  BY DEF WaiterCallsBack, Settled, IInv, LifeInv, poolVars, managerVars, refVars, waiterVars,
     lifeVars
<1> QED BY <1>1, <1>2, <1>3, <1>4, <1>5, <1>6 DEF IInv

\* The waiter goes round with no callback in progress.
LEMMA WaiterAgainHolds ==
  ASSUME IInv, WaiterAgain
  PROVE  IInv'
<1>1. TypeOK'
  BY DEF WaiterAgain, IInv, TypeOK, subVars, poolVars, managerVars, refVars, lifeVars
<1>2. SubsInv'
  BY DEF WaiterAgain, IInv, SubsInv, SubInv, Abandoned, Live, subVars, poolVars, managerVars,
     refVars,
     lifeVars
<1>3. PoolsInv'
  BY DEF WaiterAgain, IInv, PoolsInv, subVars, poolVars, managerVars, refVars, lifeVars
<1>4. WaiterInv'
  BY DEF WaiterAgain, IInv, WaiterInv, subVars, poolVars, managerVars, refVars, lifeVars
<1>5. ManagerInv'
  BY DEF WaiterAgain, IInv, ManagerInv, subVars, poolVars, managerVars, refVars, lifeVars
<1>6. LifeInv'
  BY DEF WaiterAgain, IInv, LifeInv, subVars, poolVars, managerVars, refVars, lifeVars
<1> QED BY <1>1, <1>2, <1>3, <1>4, <1>5, <1>6 DEF IInv

\* should_exit_ is read with the resources: the manager member is gone then,
\* and nothing more is added.
LEMMA ManagerTakesHolds ==
  ASSUME IInv, ManagerTakes
  PROVE  IInv'
<1>1. TypeOK'
  BY DEF ManagerTakes, IInv, TypeOK, subVars, managerVars, refVars, waiterVars, lifeVars
<1>2. SubsInv'
  BY DEF ManagerTakes, IInv, SubsInv, SubInv, Abandoned, Live, subVars, managerVars, refVars,
     waiterVars,
     lifeVars
<1>3. PoolsInv'
  BY DEF ManagerTakes, IInv, PoolsInv, subVars, managerVars, refVars, waiterVars, lifeVars
<1>4. WaiterInv'
  BY DEF ManagerTakes, IInv, WaiterInv, subVars, managerVars, refVars, waiterVars, lifeVars
<1>5. ManagerInv'
  BY DEF ManagerTakes, IInv, ManagerInv, subVars, managerVars, refVars, waiterVars, lifeVars
<1>6. LifeInv'
  BY DEF ManagerTakes, IInv, LifeInv, subVars, managerVars, refVars, waiterVars, lifeVars
<1> QED BY <1>1, <1>2, <1>3, <1>4, <1>5, <1>6 DEF IInv

\* A pool goes from the hand of the manager to the recycler.
LEMMA ManagerRecyclesHolds ==
  ASSUME IInv, NEW p \in Pools, ManagerRecycles(p)
  PROVE  IInv'
<1>1. TypeOK'
  BY ContextAssumption DEF ManagerRecycles, ContextAlive, IInv, TypeOK, subVars, managerVars,
     waiterVars, lifeVars, Threads
<1>2. SubsInv'
  BY DEF ManagerRecycles, ContextAlive, IInv, SubsInv, SubInv, Abandoned, Live, subVars,
     managerVars,
     waiterVars, lifeVars
<1>3. PoolsInv'
  BY DEF ManagerRecycles, ContextAlive, IInv, PoolsInv, subVars, managerVars, waiterVars,
     lifeVars
<1>4. WaiterInv'
  BY ContextAssumption DEF ManagerRecycles, ContextAlive, IInv, TypeOK, WaiterInv, subVars,
     managerVars, waiterVars, lifeVars, Threads
<1>5. ManagerInv'
  BY DEF ManagerRecycles, ContextAlive, IInv, ManagerInv, subVars, managerVars, waiterVars,
     lifeVars
<1>6. LifeInv'
  BY DEF ManagerRecycles, ContextAlive, IInv, LifeInv, subVars, managerVars, waiterVars,
     lifeVars
<1> QED BY <1>1, <1>2, <1>3, <1>4, <1>5, <1>6 DEF IInv

\* The round in which should_exit_ was seen is the last.
LEMMA ManagerAgainHolds ==
  ASSUME IInv, ManagerAgain
  PROVE  IInv'
<1>1. TypeOK'
  BY DEF ManagerAgain, Settled, IInv, TypeOK, subVars, poolVars, managerVars, refVars,
     waiterVars, lifeVars
<1>2. SubsInv'
  BY DEF ManagerAgain, Settled, IInv, SubsInv, SubInv, Abandoned, Live, subVars, poolVars,
     managerVars,
     refVars, waiterVars, lifeVars
<1>3. PoolsInv'
  BY DEF ManagerAgain, Settled, IInv, PoolsInv, subVars, poolVars, managerVars, refVars,
     waiterVars, lifeVars
<1>4. WaiterInv'
  BY DEF ManagerAgain, Settled, IInv, WaiterInv, subVars, poolVars, managerVars, refVars,
     waiterVars, lifeVars
<1>5. ManagerInv'
  BY DEF ManagerAgain, Settled, IInv, ManagerInv, subVars, poolVars, managerVars, refVars,
     waiterVars, lifeVars
<1>6. LifeInv'
  BY DEF ManagerAgain, Settled, IInv, LifeInv, subVars, poolVars, managerVars, refVars,
     waiterVars, lifeVars
<1> QED BY <1>1, <1>2, <1>3, <1>4, <1>5, <1>6 DEF IInv

\* The waiter is terminated first.
LEMMA ShutdownTerminatesHolds ==
  ASSUME IInv, ShutdownTerminates
  PROVE  IInv'
<1>1. TypeOK'
  BY DEF ShutdownTerminates, IInv, TypeOK, subVars, poolVars, managerVars, refVars
<1>2. SubsInv'
  BY DEF ShutdownTerminates, IInv, SubsInv, SubInv, Abandoned, Live, subVars, poolVars,
     managerVars,
     refVars
<1>3. PoolsInv'
  BY DEF ShutdownTerminates, IInv, PoolsInv, subVars, poolVars, managerVars, refVars
<1>4. WaiterInv'
  BY DEF ShutdownTerminates, IInv, WaiterInv, subVars, poolVars, managerVars, refVars
<1>5. ManagerInv'
  BY DEF ShutdownTerminates, IInv, ManagerInv, subVars, poolVars, managerVars, refVars
<1>6. LifeInv'
  BY DEF ShutdownTerminates, IInv, LifeInv, subVars, poolVars, managerVars, refVars
<1> QED BY <1>1, <1>2, <1>3, <1>4, <1>5, <1>6 DEF IInv

\* Shutdown goes on when the waiter has ended.
LEMMA ShutdownJoinsHolds ==
  ASSUME IInv, ShutdownJoins
  PROVE  IInv'
<1>1. TypeOK'
  BY DEF ShutdownJoins, IInv, TypeOK, subVars, poolVars, managerVars, refVars, waiterVars
<1>2. SubsInv'
  BY DEF ShutdownJoins, IInv, SubsInv, SubInv, Abandoned, Live, subVars, poolVars, managerVars,
     refVars,
     waiterVars
<1>3. PoolsInv'
  BY DEF ShutdownJoins, IInv, PoolsInv, subVars, poolVars, managerVars, refVars, waiterVars
<1>4. WaiterInv'
  BY DEF ShutdownJoins, IInv, WaiterInv, subVars, poolVars, managerVars, refVars, waiterVars
<1>5. ManagerInv'
  BY DEF ShutdownJoins, IInv, ManagerInv, subVars, poolVars, managerVars, refVars, waiterVars
<1>6. LifeInv'
  BY DEF ShutdownJoins, IInv, LifeInv, subVars, poolVars, managerVars, refVars, waiterVars
<1> QED BY <1>1, <1>2, <1>3, <1>4, <1>5, <1>6 DEF IInv

\* The owner drops the manager, and joins its thread if it is the last.
LEMMA ShutdownResetsManagerHolds ==
  ASSUME IInv, ShutdownResetsManager
  PROVE  IInv'
<1>1. TypeOK'
  BY ContextAssumption DEF ShutdownResetsManager, DropManager, IInv, TypeOK, subVars, poolVars,
     waiterVars, Threads, LifeInv
<1>2. SubsInv'
  BY DEF ShutdownResetsManager, DropManager, IInv, SubsInv, SubInv, Abandoned, Live, subVars,
     poolVars,
     waiterVars
<1>3. PoolsInv'
  BY DEF ShutdownResetsManager, DropManager, IInv, PoolsInv, subVars, poolVars, waiterVars
<1>4. WaiterInv'
  BY ContextAssumption DEF ShutdownResetsManager, DropManager, IInv, TypeOK, WaiterInv, subVars,
     poolVars, waiterVars, Threads
<1>5. ManagerInv'
  BY ContextAssumption DEF ShutdownResetsManager, DropManager, IInv, TypeOK, ManagerInv,
     subVars, poolVars, waiterVars, Threads
<1>6. LifeInv'
  BY DEF ShutdownResetsManager, DropManager, IInv, LifeInv, subVars, poolVars, waiterVars
<1> QED BY <1>1, <1>2, <1>3, <1>4, <1>5, <1>6 DEF IInv

\* The owner has joined the manager, or left it to a client.
LEMMA ShutdownReturnsHolds ==
  ASSUME IInv, ShutdownReturns
  PROVE  IInv'
<1>1. TypeOK'
  BY DEF ShutdownReturns, IInv, TypeOK, subVars, poolVars, managerVars, refVars, waiterVars
<1>2. SubsInv'
  BY DEF ShutdownReturns, IInv, SubsInv, SubInv, Abandoned, Live, subVars, poolVars,
     managerVars, refVars,
     waiterVars
<1>3. PoolsInv'
  BY DEF ShutdownReturns, IInv, PoolsInv, subVars, poolVars, managerVars, refVars, waiterVars
<1>4. WaiterInv'
  BY DEF ShutdownReturns, IInv, WaiterInv, subVars, poolVars, managerVars, refVars, waiterVars
<1>5. ManagerInv'
  BY DEF ShutdownReturns, IInv, ManagerInv, subVars, poolVars, managerVars, refVars, waiterVars
<1>6. LifeInv'
  BY DEF ShutdownReturns, IInv, LifeInv, subVars, poolVars, managerVars, refVars, waiterVars
<1> QED BY <1>1, <1>2, <1>3, <1>4, <1>5, <1>6 DEF IInv

\* The recycler is empty from here on, whether or not the device is idle.
LEMMA DtorDestroysPoolsHolds ==
  ASSUME IInv, DtorDestroysPools
  PROVE  IInv'
<1>1. TypeOK'
  <2>1. gone' \subseteq Pools /\ recycled' \subseteq Pools
    BY DEF DtorDestroysPools, LocalPools, IInv, TypeOK
  <2>2. tls' \in [Clients -> Pools \cup {None}]
    BY DEF DtorDestroysPools, IInv, TypeOK
  <2>3. gpu' \in [Subs -> {"idle", "pending", "complete"}]
    BY DEF DtorDestroysPools, IInv, TypeOK
  <2> QED BY <2>1, <2>2, <2>3
         DEF DtorDestroysPools, IInv, TypeOK, managerVars, refVars, waiterVars
<1>2. SubsInv'
  BY DEF DtorDestroysPools, IInv, SubsInv, SubInv, Abandoned, Live, managerVars, refVars,
     waiterVars
<1>3. PoolsInv'
  BY ContextAssumption DEF DtorDestroysPools, IInv, TypeOK, PoolsInv, managerVars, refVars,
     waiterVars, Threads
<1>4. WaiterInv'
  BY DEF DtorDestroysPools, IInv, WaiterInv, managerVars, refVars, waiterVars
<1>5. ManagerInv'
  BY DEF DtorDestroysPools, IInv, ManagerInv, managerVars, refVars, waiterVars
<1>6. LifeInv'
  BY DEF DtorDestroysPools, IInv, LifeInv, managerVars, refVars, waiterVars
<1> QED BY <1>1, <1>2, <1>3, <1>4, <1>5, <1>6 DEF IInv

\* Shutdown has dropped the manager before.
LEMMA DtorDropsManagerHolds ==
  ASSUME IInv, DtorDropsManager
  PROVE  IInv'
<1>1. TypeOK'
  <2>1. UNCHANGED <<managerVars, managerRefs>> /\ dtor' = [dtor EXCEPT !.at = "joinManager"]
    BY DEF DtorDropsManager, IInv, LifeInv, TypeOK
  <2> QED BY <2>1 DEF DtorDropsManager, IInv, TypeOK, subVars, poolVars, managerVars, waiterVars
<1>2. SubsInv'
  BY DEF DtorDropsManager, DropManager, IInv, SubsInv, SubInv, Abandoned, Live, subVars,
     poolVars,
     managerVars, waiterVars
<1>3. PoolsInv'
  BY DEF DtorDropsManager, DropManager, IInv, PoolsInv, subVars, poolVars, managerVars,
     waiterVars
<1>4. WaiterInv'
  BY ContextAssumption DEF DtorDropsManager, DropManager, IInv, TypeOK, WaiterInv, subVars,
     poolVars, managerVars, waiterVars, LifeInv
<1>5. ManagerInv'
  BY ContextAssumption DEF DtorDropsManager, DropManager, IInv, TypeOK, ManagerInv, subVars,
     poolVars, managerVars, waiterVars, LifeInv
<1>6. LifeInv'
  BY DEF DtorDropsManager, DropManager, IInv, LifeInv, subVars, poolVars, managerVars,
     waiterVars
<1> QED BY <1>1, <1>2, <1>3, <1>4, <1>5, <1>6 DEF IInv

\* Shutdown has joined the waiter before.
LEMMA DtorTerminatesWaiterHolds ==
  ASSUME IInv, DtorTerminatesWaiter
  PROVE  IInv'
<1>1. TypeOK'
  BY DEF DtorTerminatesWaiter, IInv, TypeOK, subVars, poolVars, managerVars, refVars
<1>2. SubsInv'
  BY DEF DtorTerminatesWaiter, IInv, SubsInv, SubInv, Abandoned, Live, subVars, poolVars,
     managerVars,
     refVars
<1>3. PoolsInv'
  BY DEF DtorTerminatesWaiter, IInv, PoolsInv, subVars, poolVars, managerVars, refVars
<1>4. WaiterInv'
  BY DEF DtorTerminatesWaiter, IInv, WaiterInv, subVars, poolVars, managerVars, refVars
<1>5. ManagerInv'
  BY DEF DtorTerminatesWaiter, IInv, ManagerInv, subVars, poolVars, managerVars, refVars
<1>6. LifeInv'
  BY DEF DtorTerminatesWaiter, IInv, LifeInv, subVars, poolVars, managerVars, refVars
<1> QED BY <1>1, <1>2, <1>3, <1>4, <1>5, <1>6 DEF IInv

\* What a failed waiter left is called back, whether or not the GPU has
\* completed it.
LEMMA DtorDropsWaiterHolds ==
  ASSUME IInv, DtorDropsWaiter
  PROVE  IInv'
<1>1. TypeOK'
  <2>1. \A s \in WaitSet : told[s] = <<>>
    BY DEF WaitSet, IInv, SubsInv, SubInv, Abandoned
  <2>2. Append(<<>>, "completed") = <<"completed">>
    OBVIOUS
  <2>3. told' = [s \in Subs |-> IF s \in WaitSet THEN <<"completed">> ELSE told[s]]
    BY <2>1, <2>2 DEF DtorDropsWaiter
  <2>4. told' \in [Subs -> {<<>>, <<"error">>, <<"completed">>}]
    BY <2>3 DEF IInv, TypeOK
  <2>5. phase' \in [Subs -> Phases] /\ tracked' \subseteq Subs /\ gone' \subseteq Pools
    BY DEF DtorDropsWaiter, IInv, TypeOK, Phases
  <2> QED BY <2>4, <2>5 DEF DtorDropsWaiter, IInv, TypeOK, managerVars, refVars, waiterVars
<1>2. SubsInv'
  <2>1. waiter.at = "ended" /\ dtor'.at = "done"
    BY DEF DtorDropsWaiter, IInv, TypeOK, LifeInv
  <2>2. ASSUME NEW s \in WaitSet
        PROVE  SubInv(s)'
    <3>1. /\ s \in Subs /\ phase[s] = "waiting" /\ s \in tracked /\ pool[s] # None
          /\ told[s] = <<>> /\ gpu[s] # "idle"
      BY DEF WaitSet, IInv, SubsInv, SubInv, Live
    <3>2. deviceError
      BY <2>1, <3>1 DEF IInv, TypeOK, WaiterInv
    <3>3. pool[s] \notin reclaimables \cup manager.hand \cup recycled
      BY <3>1 DEF IInv, PoolsInv
    <3>4. Abandoned(s)'
      BY <2>1, <3>3 DEF Abandoned, DtorDropsWaiter
    <3>5. phase'[s] = "done" /\ s \notin tracked'
      BY <3>1 DEF DtorDropsWaiter
    <3>6. Append(<<>>, "completed") = <<"completed">>
      OBVIOUS
    <3>7. told'[s] = <<"completed">>
      BY <3>1, <3>6 DEF DtorDropsWaiter
    <3> QED BY <2>1, <3>1, <3>2, <3>4, <3>5, <3>7 DEF SubInv, Live, DtorDropsWaiter, waiterVars
  <2>3. ASSUME NEW s \in Subs \ WaitSet
        PROVE  SubInv(s)'
    <3>1. /\ UNCHANGED <<phase[s], told[s], gpu[s], pool[s], deviceError>>
          /\ s \in tracked' <=> s \in tracked
      BY DEF DtorDropsWaiter, waiterVars
    <3>2. ~Abandoned(s) /\ dtor.at # "done"
      BY DEF DtorDropsWaiter, Abandoned
    <3> QED BY <3>1, <3>2 DEF IInv, SubsInv, SubInv, Live
  <2> QED BY <2>2, <2>3 DEF SubsInv
<1>3. PoolsInv'
  BY DEF DtorDropsWaiter, WaitSet, IInv, PoolsInv, managerVars, refVars, waiterVars
<1>4. WaiterInv'
  BY ContextAssumption DEF DtorDropsWaiter, WaitSet, IInv, TypeOK, WaiterInv, managerVars,
     refVars, waiterVars, LifeInv
<1>5. ManagerInv'
  BY DEF DtorDropsWaiter, WaitSet, IInv, ManagerInv, managerVars, refVars, waiterVars
<1>6. LifeInv'
  BY DEF DtorDropsWaiter, WaitSet, IInv, LifeInv, managerVars, refVars, waiterVars
<1> QED BY <1>1, <1>2, <1>3, <1>4, <1>5, <1>6 DEF IInv

-----------------------------------------------------------------------------
(* A thread other than the manager's drops a pool it has referred to.      *)

\* What ~CommandPool does to the references and to the pools.
LEMMA DropPoolEffect ==
  ASSUME IInv, NEW t \in Threads \ {Manager}, NEW p \in Pools \cup {None},
         NEW live \in SUBSET tracked, NEW local \in [Clients -> Pools \cup {None}],
         \A c \in Clients : local[c] \in {tls[c], None},
         (\E s \in tracked : pool[s] = p) \/ (\E c \in Clients : tls[c] = p),
         DropPool(t, p, live, local),
         UNCHANGED <<pool, manager>>
  PROVE  /\ tracked' = live /\ tls' = local
         /\ reclaimables' \in SUBSET Pools /\ recycled' \in SUBSET Pools /\ gone' \in SUBSET Pools
         /\ contextRefs' \in SUBSET Threads /\ managerRefs' \in SUBSET Threads
         /\ contextRefs \subseteq contextRefs' /\ contextRefs' \subseteq contextRefs \cup {t}
         /\ contextRefs' # contextRefs => ContextAlive
         /\ managerRefs \subseteq managerRefs' /\ managerRefs' \subseteq contextRefs' \ {Manager}
         /\ reclaimables' # reclaimables => managerMember
         /\ UNCHANGED <<reclaimables, recycled>> \/ ContextAlive
         /\ PoolsInv'
<1>1. tracked' = live /\ tls' = local
  BY DEF DropPool
<1>2. p # None =>
        /\ p \notin reclaimables \cup manager.hand \cup recycled
        /\ \E s \in Subs : pool[s] = p
  BY DEF IInv, TypeOK, PoolsInv
<1>3. managerRefs \subseteq contextRefs \ {Manager}
  BY DEF IInv, ManagerInv
<1> DEFINE ToReset == reclaimables \cup manager.hand \cup recycled
<1>4. \A q \in ToReset : /\ \A s \in live : pool[s] # q
                         /\ \A c \in Clients : local[c] # q
                         /\ \E s \in Subs : pool[s] = q
  BY ContextAssumption DEF IInv, TypeOK, PoolsInv
<1>5. \A c \in Clients : local[c] # None => \E s \in Subs : pool[s] = local[c]
  BY DEF IInv, PoolsInv
<1>6. CASE ~NoneLeft(p, live, local)
  <2>1. UNCHANGED <<reclaimables, recycled, gone, contextRefs, managerRefs>>
    BY <1>6 DEF DropPool
  <2>2. PoolsInv'
    BY <1>1, <1>4, <1>5, <2>1 DEF IInv, PoolsInv
  <2> QED BY <1>1, <1>3, <2>1, <2>2 DEF IInv, TypeOK
<1>7. CASE NoneLeft(p, live, local)
  <2>1. p \in Pools /\ p # None
    BY <1>7 DEF NoneLeft
  <2>2. CommandPoolDtor(t, p)
    BY <1>7 DEF DropPool
  <2>3. /\ reclaimables' \in SUBSET Pools /\ recycled' \in SUBSET Pools /\ gone' \in SUBSET Pools
        /\ contextRefs' \in SUBSET Threads /\ managerRefs' \in SUBSET Threads
    BY <2>1, <2>2 DEF CommandPoolDtor, IInv, TypeOK
  <2>4. /\ contextRefs \subseteq contextRefs' /\ contextRefs' \subseteq contextRefs \cup {t}
        /\ contextRefs' # contextRefs => ContextAlive
        /\ managerRefs \subseteq managerRefs' /\ managerRefs' \subseteq contextRefs' \ {Manager}
        /\ reclaimables' # reclaimables => managerMember
        /\ UNCHANGED <<reclaimables, recycled>> \/ ContextAlive
    BY <1>3, <2>2 DEF CommandPoolDtor
  <2>5. \/ UNCHANGED <<reclaimables, recycled>>
        \/ reclaimables' = reclaimables \cup {p} /\ UNCHANGED recycled
        \/ recycled' = recycled \cup {p} /\ UNCHANGED reclaimables
    BY <2>2 DEF CommandPoolDtor
  <2>6. PoolsInv'
    <3>1. \A s \in live : pool[s] # p
      BY <1>7 DEF NoneLeft
    <3>2. \A c \in Clients : local[c] # p
      BY <1>7 DEF NoneLeft
    <3>3. (reclaimables \cup manager.hand \cup recycled)' \subseteq ToReset \cup {p}
      BY <2>5
    <3>4. /\ recycled' \cap (reclaimables \cup manager.hand)' = {}
          /\ reclaimables' \cap manager.hand' = {}
      BY <1>2, <2>1, <2>5 DEF IInv, PoolsInv
    <3> QED BY <1>1, <1>2, <1>4, <1>5, <2>1, <3>1, <3>2, <3>3, <3>4 DEF PoolsInv
  <2> QED BY <1>1, <2>3, <2>4, <2>6
<1> QED BY <1>6, <1>7

\* DisposeThreadLocalCachedResources gives up the pool of the thread.
LEMMA DisposeHolds ==
  ASSUME IInv, NEW c \in Clients, Dispose(c)
  PROVE  IInv'
<1> DEFINE local == [tls EXCEPT ![c] = None]
<1>1. /\ local \in [Clients -> Pools \cup {None}]
      /\ \A d \in Clients : local[d] \in {tls[d], None}
      /\ tls[c] \in Pools \cup {None} /\ c \in Threads \ {Manager} /\ c # Waiter
  BY ContextAssumption DEF IInv, TypeOK, Threads
<1>2. DropPool(c, tls[c], tracked, local) /\ UNCHANGED <<pool, manager>>
  BY DEF Dispose, subVars
<1> HIDE DEF local
<1>3. /\ tracked' = tracked /\ tls' = local
      /\ reclaimables' \in SUBSET Pools /\ recycled' \in SUBSET Pools /\ gone' \in SUBSET Pools
      /\ contextRefs' \in SUBSET Threads /\ managerRefs' \in SUBSET Threads
      /\ contextRefs \subseteq contextRefs' /\ contextRefs' \subseteq contextRefs \cup {c}
      /\ contextRefs' # contextRefs => ContextAlive
      /\ managerRefs \subseteq managerRefs' /\ managerRefs' \subseteq contextRefs' \ {Manager}
      /\ reclaimables' # reclaimables => managerMember
      /\ UNCHANGED <<reclaimables, recycled>> \/ ContextAlive
      /\ PoolsInv'
  BY <1>1, <1>2, DropPoolEffect
<1>4. TypeOK'
  BY <1>1, <1>3 DEF Dispose, IInv, TypeOK, subVars, managerVars, waiterVars, lifeVars
<1>5. SubsInv'
  BY <1>3 DEF Dispose, IInv, SubsInv, SubInv, Abandoned, subVars, LifeInv, ContextAlive,
     managerVars, waiterVars, lifeVars
<1>6. WaiterInv'
  BY <1>1, <1>3 DEF Dispose, IInv, WaiterInv, subVars, managerVars, waiterVars
<1>7. ManagerInv'
  BY <1>1, <1>3 DEF Dispose, IInv, ManagerInv, managerVars, lifeVars
<1>8. LifeInv'
  BY <1>3 DEF Dispose, IInv, LifeInv, ContextAlive, subVars, managerVars, waiterVars, lifeVars
<1> QED BY <1>3, <1>4, <1>5, <1>6, <1>7, <1>8 DEF IInv

\* A buffer that was not submitted is not on the GPU.
LEMMA DropCommandBufferHolds ==
  ASSUME IInv, NEW s \in Subs, DropCommandBuffer(s)
  PROVE  IInv'
<1> DEFINE t == ThreadOf[s]
           live == tracked \ {s}
<1>0. ThreadOf[s] \in Threads \ {Manager, Waiter}
  BY ContextAssumption DEF Threads
<1>1. /\ t \in Threads \ {Manager} /\ pool[s] \in Pools \cup {None} /\ s \in tracked
      /\ tls \in [Clients -> Pools \cup {None}] /\ live \in SUBSET tracked
  BY <1>0 DEF DropCommandBuffer, IInv, TypeOK, SubsInv, SubInv, Abandoned, Live
<1>2. DropPool(t, pool[s], live, tls) /\ UNCHANGED <<pool, manager>>
  BY DEF DropCommandBuffer, DropTracked
<1> HIDE DEF t, live
<1>3. /\ tracked' = live /\ tls' = tls
      /\ reclaimables' \in SUBSET Pools /\ recycled' \in SUBSET Pools /\ gone' \in SUBSET Pools
      /\ contextRefs' \in SUBSET Threads /\ managerRefs' \in SUBSET Threads
      /\ contextRefs \subseteq contextRefs' /\ contextRefs' \subseteq contextRefs \cup {t}
      /\ contextRefs' # contextRefs => ContextAlive
      /\ managerRefs \subseteq managerRefs' /\ managerRefs' \subseteq contextRefs' \ {Manager}
      /\ reclaimables' # reclaimables => managerMember
      /\ UNCHANGED <<reclaimables, recycled>> \/ ContextAlive
      /\ PoolsInv'
  BY <1>1, <1>2, DropPoolEffect
<1>4. phase' \in [Subs -> Phases]
  BY DEF DropCommandBuffer, IInv, TypeOK, Phases
<1>5. TypeOK'
  BY <1>1, <1>3, <1>4 DEF DropCommandBuffer, IInv, TypeOK, managerVars, waiterVars, lifeVars,
     live
<1>6. SubsInv'
  BY <1>3 DEF DropCommandBuffer, IInv, TypeOK, SubsInv, SubInv, Abandoned, Live, live, LifeInv,
     ContextAlive, managerVars, waiterVars, lifeVars
<1>7. WaiterInv'
  BY <1>0, <1>3 DEF DropCommandBuffer, IInv, TypeOK, WaiterInv, managerVars, waiterVars, t
<1>8. ManagerInv'
  BY <1>1, <1>3 DEF DropCommandBuffer, IInv, ManagerInv, managerVars, lifeVars
<1>9. LifeInv'
  BY <1>3 DEF DropCommandBuffer, IInv, TypeOK, LifeInv, ContextAlive, managerVars, waiterVars,
     lifeVars
<1> QED BY <1>3, <1>5, <1>6, <1>7, <1>8, <1>9 DEF IInv

\* The one case where a buffer on the GPU is dropped: the waiter refused it.
LEMMA SubmitUnwindsHolds ==
  ASSUME IInv, NEW s \in Subs, SubmitUnwinds(s)
  PROVE  IInv'
<1> DEFINE t == ThreadOf[s]
           live == tracked \ {s}
<1>0. ThreadOf[s] \in Threads \ {Manager, Waiter}
  BY ContextAssumption DEF Threads
<1>1. /\ t \in Threads \ {Manager} /\ pool[s] \in Pools \cup {None} /\ s \in tracked
      /\ tls \in [Clients -> Pools \cup {None}] /\ live \in SUBSET tracked
  BY <1>0 DEF SubmitUnwinds, IInv, TypeOK, SubsInv, SubInv, Abandoned, Live
<1>2. DropPool(t, pool[s], live, tls) /\ UNCHANGED <<pool, manager>>
  BY DEF SubmitUnwinds, DropTracked
<1> HIDE DEF t, live
<1>3. /\ tracked' = live /\ tls' = tls
      /\ reclaimables' \in SUBSET Pools /\ recycled' \in SUBSET Pools /\ gone' \in SUBSET Pools
      /\ contextRefs' \in SUBSET Threads /\ managerRefs' \in SUBSET Threads
      /\ contextRefs \subseteq contextRefs' /\ contextRefs' \subseteq contextRefs \cup {t}
      /\ contextRefs' # contextRefs => ContextAlive
      /\ managerRefs \subseteq managerRefs' /\ managerRefs' \subseteq contextRefs' \ {Manager}
      /\ reclaimables' # reclaimables => managerMember
      /\ UNCHANGED <<reclaimables, recycled>> \/ ContextAlive
      /\ PoolsInv'
  BY <1>1, <1>2, DropPoolEffect
<1>4. phase' \in [Subs -> Phases]
  BY DEF SubmitUnwinds, IInv, TypeOK, Phases
<1>5. TypeOK'
  BY <1>1, <1>3, <1>4 DEF SubmitUnwinds, IInv, TypeOK, managerVars, waiterVars, lifeVars, live
<1>6. SubsInv'
  BY <1>3 DEF SubmitUnwinds, IInv, TypeOK, SubsInv, SubInv, Abandoned, Live, live, LifeInv,
     ContextAlive, managerVars, waiterVars, lifeVars
<1>7. WaiterInv'
  BY <1>0, <1>3 DEF SubmitUnwinds, IInv, TypeOK, WaiterInv, managerVars, waiterVars, t
<1>8. ManagerInv'
  BY <1>1, <1>3 DEF SubmitUnwinds, IInv, ManagerInv, managerVars, lifeVars
<1>9. LifeInv'
  BY <1>3 DEF SubmitUnwinds, IInv, TypeOK, LifeInv, ContextAlive, managerVars, waiterVars,
     lifeVars
<1> QED BY <1>3, <1>5, <1>6, <1>7, <1>8, <1>9 DEF IInv

\* The waiter drops what the GPU has completed, and may come to hold the
\* Context and the manager until it calls back.
LEMMA WaiterUnwindsHolds ==
  ASSUME IInv, NEW s \in Subs, WaiterUnwinds(s)
  PROVE  IInv'
<1> DEFINE t == Waiter
           live == tracked \ {s}
<1>1. /\ t \in Threads \ {Manager} /\ pool[s] \in Pools \cup {None} /\ s \in tracked
      /\ tls \in [Clients -> Pools \cup {None}] /\ live \in SUBSET tracked
  BY ContextAssumption DEF WaiterUnwinds, IInv, TypeOK, SubsInv, SubInv, Abandoned, Live,
     Threads
<1>2. DropPool(t, pool[s], live, tls) /\ UNCHANGED <<pool, manager>>
  BY DEF WaiterUnwinds, DropTracked
<1> HIDE DEF t, live
<1>3. /\ tracked' = live /\ tls' = tls
      /\ reclaimables' \in SUBSET Pools /\ recycled' \in SUBSET Pools /\ gone' \in SUBSET Pools
      /\ contextRefs' \in SUBSET Threads /\ managerRefs' \in SUBSET Threads
      /\ contextRefs \subseteq contextRefs' /\ contextRefs' \subseteq contextRefs \cup {t}
      /\ contextRefs' # contextRefs => ContextAlive
      /\ managerRefs \subseteq managerRefs' /\ managerRefs' \subseteq contextRefs' \ {Manager}
      /\ reclaimables' # reclaimables => managerMember
      /\ UNCHANGED <<reclaimables, recycled>> \/ ContextAlive
      /\ PoolsInv'
  BY <1>1, <1>2, DropPoolEffect
<1>4. phase' \in [Subs -> Phases]
  BY DEF WaiterUnwinds, IInv, TypeOK, Phases
<1>5. TypeOK'
  BY <1>1, <1>3, <1>4 DEF WaiterUnwinds, IInv, TypeOK, managerVars, waiterVars, lifeVars, live
<1>6. SubsInv'
  BY <1>3 DEF WaiterUnwinds, IInv, TypeOK, SubsInv, SubInv, Abandoned, Live, live, LifeInv,
     ContextAlive, managerVars, waiterVars, lifeVars
<1>7. WaiterInv'
  BY ContextAssumption, <1>1, <1>3 DEF WaiterUnwinds, IInv, TypeOK, WaiterInv, managerVars,
     waiterVars, t
<1>8. ManagerInv'
  BY <1>1, <1>3 DEF WaiterUnwinds, IInv, ManagerInv, managerVars, lifeVars
<1>9. LifeInv'
  BY <1>3 DEF WaiterUnwinds, IInv, TypeOK, LifeInv, ContextAlive, managerVars, waiterVars,
     lifeVars
<1> QED BY <1>3, <1>5, <1>6, <1>7, <1>8, <1>9 DEF IInv

-----------------------------------------------------------------------------
\* The invariant holds initially.
LEMMA InitHolds == Init => IInv
<1>1. Init => TypeOK
  <2> SUFFICES ASSUME Init PROVE TypeOK
    OBVIOUS
  <2>1. /\ phase \in [Subs -> Phases] /\ gpu \in [Subs -> {"idle", "pending", "complete"}]
        /\ told \in [Subs -> {<<>>, <<"error">>, <<"completed">>}]
        /\ pool \in [Subs -> Pools \cup {None}] /\ tls \in [Clients -> Pools \cup {None}]
    BY DEF Init, Phases
  <2>2. /\ manager \in [at: {"check", "collect", "ended"}, hand: SUBSET Pools, exit: BOOLEAN]
        /\ waiter \in [at: {"check", "fences", "callbacks", "ended"}, snapshot: SUBSET Subs]
        /\ dtor \in [at: {"none", "idle", "manager", "joinManager", "waiter", "joinWaiter", "done"},
                     thread: Threads \cup {None}]
    BY DEF Init
  <2> QED BY <2>1, <2>2 DEF Init, TypeOK, Threads
<1>2. Init => SubsInv /\ PoolsInv
  BY DEF Init, SubsInv, SubInv, Abandoned, Live, PoolsInv
<1>3. Init => WaiterInv /\ ManagerInv /\ LifeInv
  BY ContextAssumption DEF Init, WaiterInv, ManagerInv, LifeInv
<1> QED BY <1>1, <1>2, <1>3 DEF IInv

\* Every step preserves the invariant.
LEMMA StepHolds ==
  ASSUME IInv, [Next]_vars
  PROVE  IInv'
<1>1. CASE UNCHANGED vars
  <2>1. UNCHANGED <<phase, gpu, told, pool, tracked, tls, reclaimables, recycled, gone, manager>>
    BY <1>1 DEF vars, subVars, poolVars
  <2>2. UNCHANGED <<managerMember, managerDtor, shouldExit, holders, contextRefs, managerRefs,
                    waiter, terminate, deviceError, shutdown, dtor>>
    BY <1>1 DEF vars, managerVars, refVars, waiterVars, lifeVars
  <2>3. TypeOK' /\ SubsInv' /\ PoolsInv'
    BY <2>1, <2>2 DEF IInv, TypeOK, SubsInv, SubInv, Abandoned, PoolsInv
  <2>4. WaiterInv' /\ ManagerInv' /\ LifeInv'
    BY <2>1, <2>2 DEF IInv, WaiterInv, ManagerInv, LifeInv
  <2> QED BY <2>3, <2>4 DEF IInv
<1>2. CASE ClientCall
  BY <1>2, CreateCommandBufferHolds, DropCommandBufferHolds, SubmitEndsHolds,
     SubmitCannotEndHolds, DisposeHolds, DropReferenceHolds, ShutdownTerminatesHolds
     DEF ClientCall
<1>3. CASE \E s \in Subs : SubmitStep(s) \/ GpuCompletes(s)
  BY <1>3, QueueSubmitHolds, AddFenceHolds, SubmitUnwindsHolds, SubmitFailsHolds,
     GpuCompletesHolds DEF SubmitStep
<1>4. CASE \E t \in Threads : ReleaseStep(t)
  BY <1>4, ReleaseManagerHolds, ReleaseContextHolds DEF ReleaseStep
<1>5. CASE WaiterStep \/ FencesFail
  BY <1>5, WaiterLooksHolds, FencesWaitedHolds, WaiterAgainHolds, WaiterUnwindsHolds,
     WaiterCallsBackHolds, FencesFailHolds DEF WaiterStep
<1>6. CASE ManagerJoined \/ ManagerStep
  BY <1>6, ManagerJoinedHolds, ManagerTakesHolds, ManagerAgainHolds, ManagerRecyclesHolds
     DEF ManagerStep
<1>7. CASE ShutdownStep
  BY <1>7, ShutdownJoinsHolds, ShutdownResetsManagerHolds, ShutdownReturnsHolds DEF ShutdownStep
<1>8. CASE DtorStep
  BY <1>8, DtorDestroysPoolsHolds, DtorDropsManagerHolds, DtorTerminatesWaiterHolds,
     DtorDropsWaiterHolds DEF DtorStep
<1> QED BY <1>1, <1>2, <1>3, <1>4, <1>5, <1>6, <1>7, <1>8 DEF Next

\* IInv is an invariant of the specification.
LEMMA IInvInvariant == Spec => []IInv
<1>1. IInv /\ [Next]_vars => IInv'
  BY StepHolds
<1> QED BY InitHolds, <1>1, PTL DEF Spec

(***************************************************************************)
(* Every variable keeps its type: in particular a completion callback is   *)
(* called at most once, whichever thread comes to call it.                 *)
(***************************************************************************)
THEOREM TypeInvariant == Spec => []TypeOK
BY IInvInvariant, PTL DEF IInv

(***************************************************************************)
(* A command pool that CommandPoolRecycler may reset or hand out again is  *)
(* in no thread's record, has no living command buffer, and the GPU runs   *)
(* none of its buffers but those Submit had refused.                       *)
(***************************************************************************)
THEOREM PoolIdleWhenResetInvariant == Spec => []PoolIdleWhenReset
<1>1. IInv => PoolIdleWhenReset
  <2> SUFFICES ASSUME IInv, NEW p \in reclaimables \cup manager.hand \cup recycled
               PROVE  /\ UsedBy(p) = {}
                      /\ \A c \in Clients : tls[c] # p
                      /\ \A s \in Subs : pool[s] = p /\ gpu[s] = "pending" =>
                           phase[s] = "erring" \/ told[s] = <<"error">>
    BY DEF PoolIdleWhenReset
  <2>1. \A s \in tracked : pool[s] # p
    BY DEF IInv, PoolsInv
  <2>2. UsedBy(p) = {} /\ \A c \in Clients : tls[c] # p
    BY <2>1 DEF UsedBy, IInv, PoolsInv
  <2>3. \A s \in Subs : pool[s] = p /\ gpu[s] = "pending" =>
          phase[s] = "erring" \/ told[s] = <<"error">>
    BY <2>1 DEF IInv, SubsInv, SubInv, Abandoned
  <2> QED BY <2>2, <2>3
<1> QED BY <1>1, IInvInvariant, PTL

(***************************************************************************)
(* Whatever fails, the callback says "completed" only of what the GPU has  *)
(* completed, except in ~FenceWaiter, for the entries that a failed wait   *)
(* for fences has left: these the GPU may still execute, if the waitIdle   *)
(* of ~Context has failed as well.                                         *)
(***************************************************************************)
THEOREM CompletedIsTrueInvariant == Spec => []CompletedIsTrue
<1>1. IInv => CompletedIsTrue
  BY DEF IInv, SubsInv, SubInv, Abandoned, CompletedIsTrue
<1> QED BY <1>1, IInvInvariant, PTL

(***************************************************************************)
(* If the owner shuts the Context down before it lets go, ~Context and     *)
(* ~ResourceManager never run on the thread that they join.                *)
(***************************************************************************)
THEOREM NoSelfJoinInvariant == Spec => []NoSelfJoin
<1>1. IInv => NoSelfJoin
  BY ContextAssumption DEF IInv, ManagerInv, LifeInv, NoSelfJoin
<1> QED BY <1>1, IInvInvariant, PTL

(***************************************************************************)
(* When Shutdown has returned and the device has not failed, the           *)
(* FenceWaiter has called back all that it had accepted.                   *)
(***************************************************************************)
THEOREM ShutdownDrainsInvariant == Spec => []ShutdownDrains
<1>1. IInv => ShutdownDrains
  BY DEF IInv, WaiterInv, LifeInv, ShutdownDrains
<1> QED BY <1>1, IInvInvariant, PTL

(***************************************************************************)
(* The thread of the ResourceManager ends with nothing left to collect.    *)
(***************************************************************************)
THEOREM ManagerCollectsAllInvariant == Spec => []ManagerCollectsAll
<1>1. IInv => ManagerCollectsAll
  BY DEF IInv, ManagerInv, ManagerCollectsAll
<1> QED BY <1>1, IInvInvariant, PTL
=============================================================================

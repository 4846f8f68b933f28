---------------------------- MODULE GpuSubmission ----------------------------
(***************************************************************************)
(* The way of a command buffer through a Vulkan Context: a command pool of *)
(* the recording thread, CommandQueue::Submit, the thread of the           *)
(* FenceWaiter, which calls back when the GPU is done, and the thread of   *)
(* the ResourceManager, which resets command pools for reuse; then         *)
(* Context::Shutdown and ~Context.                                         *)
(*                                                                         *)
(* What is hard is who drops the last reference: to a command pool, to the *)
(* ResourceManager and to the Context.  Each is destroyed by the thread    *)
(* that does, and two of the destructors join a thread.  A thread that has *)
(* locked a weak pointer holds a reference until a later step.             *)
(*                                                                         *)
(* A submission stands for the command buffers of one Submit.  Each of the *)
(* two background threads is alone on its condition variable and is always *)
(* notified when its predicate has become true, so a wait is a guard here. *)
(* The device_holder_ a waiter locks is the last member of ~Context to go, *)
(* after the waiter thread: it is always there.                            *)
(***************************************************************************)
EXTENDS Integers, Sequences

CONSTANTS
  Clients,      \* threads that record and submit
  Owner,        \* the client that calls Shutdown
  Waiter,       \* the thread of the FenceWaiter
  Manager,      \* the thread of the ResourceManager
  Subs,         \* bound: the submissions
  ThreadOf,     \* the client that records and submits each
  Pools,        \* bound: the vk::CommandPools
  None          \* no pool, or no thread

ASSUME ContextAssumption ==
  /\ Owner \in Clients
  /\ Waiter \notin Clients /\ Manager \notin Clients /\ Waiter # Manager
  /\ ThreadOf \in [Subs -> Clients]
  /\ None \notin Pools \cup Clients \cup {Waiter, Manager}

Threads == Clients \cup {Waiter, Manager}

VARIABLES
  phase,          \* where each submission is, see Phases
  gpu,            \* what the GPU has made of it
  told,           \* the statuses its completion callback was called with
  pool,           \* the pool its command buffer is from
  tracked,        \* the submissions whose TrackedObjects live
  tls,            \* the thread-local CommandPool of each client
  reclaimables,   \* reclaimables_ of the ResourceManager: command pools
  recycled,       \* recycled_ of the CommandPoolRecycler
  gone,           \* vk::CommandPools that are destroyed
  holders,        \* clients with a reference to the Context
  contextRefs,    \* threads that have locked their weak pointer to it
  managerRefs,    \* threads that hold the ResourceManager
  managerMember,  \* resource_manager_ of the Context is set
  managerDtor,    \* the thread in ~ResourceManager
  manager,        \* its thread: [at, hand, exit]
  shouldExit,     \* should_exit_
  waiter,         \* the thread of the FenceWaiter: [at, snapshot]
  terminate,      \* terminate_
  deviceError,    \* waitForFences has failed
  shutdown,       \* the step of Context::Shutdown
  dtor            \* the step and thread of ~Context

subVars == <<phase, gpu, told, pool>>
poolVars == <<tracked, tls, reclaimables, recycled, gone>>
managerVars == <<managerMember, managerDtor, shouldExit>>
refVars == <<holders, contextRefs, managerRefs>>
waiterVars == <<waiter, terminate, deviceError>>
lifeVars == <<shutdown, dtor>>
vars == <<subVars, poolVars, managerVars, refVars, waiterVars, manager, lifeVars>>

(***************************************************************************)
(* recorded: in a CommandBuffer of the client.  ended: Submit has ended    *)
(* the buffer and locked the Context.  queued: given to the GPU.  waiting: *)
(* in wait_set_.  signalled: erased from it.  failing, refused: Submit is  *)
(* about to return an error, before or after the GPU got it.  completing,  *)
(* erring: all but the callback is done.  rejected: its buffer could not   *)
(* be ended.                                                               *)
(***************************************************************************)
Phases == {"none", "recorded", "ended", "queued", "waiting", "signalled",
           "completing", "failing", "refused", "erring", "rejected", "done"}

TypeOK ==
  /\ phase \in [Subs -> Phases]
  /\ gpu \in [Subs -> {"idle", "pending", "complete"}]
  /\ told \in [Subs -> {<<>>, <<"error">>, <<"completed">>}]
  /\ pool \in [Subs -> Pools \cup {None}]
  /\ tracked \subseteq Subs
  /\ tls \in [Clients -> Pools \cup {None}]
  /\ reclaimables \subseteq Pools /\ recycled \subseteq Pools /\ gone \subseteq Pools
  /\ holders \subseteq Clients
  /\ contextRefs \subseteq Threads /\ managerRefs \subseteq Threads
  /\ managerMember \in BOOLEAN /\ shouldExit \in BOOLEAN
  /\ managerDtor \in Threads \cup {None}
  /\ manager \in [at: {"check", "collect", "ended"}, hand: SUBSET Pools, exit: BOOLEAN]
  /\ waiter \in [at: {"check", "fences", "callbacks", "ended"}, snapshot: SUBSET Subs]
  /\ terminate \in BOOLEAN /\ deviceError \in BOOLEAN
  /\ shutdown \in {"none", "waiter", "manager", "returning", "done"}
  /\ dtor \in [at: {"none", "idle", "manager", "joinManager", "waiter", "joinWaiter", "done"},
               thread: Threads \cup {None}]

-----------------------------------------------------------------------------
(* References.                                                             *)

ContextAlive == holders # {} \/ contextRefs # {}

\* The thread has dropped what it locked and is in no destructor.
Settled(t) ==
  /\ t \notin contextRefs \cup managerRefs
  /\ managerDtor # t
  /\ dtor.thread = t => dtor.at = "done"

Submitting(c) ==
  \E s \in Subs : ThreadOf[s] = c
                  /\ phase[s] \in {"ended", "queued", "failing", "refused", "erring"}

\* The client is between calls.
Idle(c) ==
  /\ Settled(c)
  /\ ~Submitting(c)
  /\ c = Owner => shutdown \in {"none", "done"}

\* A step drops a reference to the ResourceManager: the last destroys it.
DropManager(t, member, refs) ==
  /\ managerMember' = member
  /\ managerRefs' = refs
  /\ IF member \/ refs # {} THEN UNCHANGED <<managerDtor, shouldExit>>
     ELSE managerDtor' = t /\ shouldExit' = TRUE

ReleaseManager(t) ==
  /\ t \in managerRefs
  /\ DropManager(t, managerMember, managerRefs \ {t})
  /\ UNCHANGED <<subVars, poolVars, holders, contextRefs, waiterVars, manager, lifeVars>>

\* ~ResourceManager: the join returns.
ManagerJoined ==
  /\ managerDtor # None
  /\ manager.at = "ended"
  /\ managerDtor' = None
  /\ UNCHANGED <<subVars, poolVars, managerMember, shouldExit, refVars, waiterVars,
                 manager, lifeVars>>

\* Likewise for the Context.
DropContext(t, holds, refs) ==
  /\ holders' = holds
  /\ contextRefs' = refs
  /\ dtor' = IF holds # {} \/ refs # {} THEN dtor ELSE [at |-> "idle", thread |-> t]

\* A client keeps the reference it locked until Submit returns or fails.
ReleaseContext(t) ==
  /\ t \in contextRefs
  /\ t \notin managerRefs
  /\ managerDtor # t
  /\ \A s \in Subs : ThreadOf[s] = t => phase[s] \notin {"ended", "queued", "refused"}
  /\ DropContext(t, holders, contextRefs \ {t})
  /\ UNCHANGED <<subVars, poolVars, managerVars, managerRefs, waiterVars, manager, shutdown>>

-----------------------------------------------------------------------------
(* Command pools.                                                          *)

UsedBy(p) == {s \in tracked : pool[s] = p}
NoneLeft(p, live, local) ==
  /\ p # None
  /\ \A s \in live : pool[s] # p
  /\ \A c \in Clients : local[c] # p

\* Without a manager the background pool is recycled on the spot.
CommandPoolDtor(t, p) ==
  /\ contextRefs' = IF p \notin gone /\ ContextAlive THEN contextRefs \cup {t} ELSE contextRefs
  /\ IF p \in gone THEN UNCHANGED <<reclaimables, recycled, gone, managerRefs>>
     ELSE IF ~ContextAlive
     THEN gone' = gone \cup {p} /\ UNCHANGED <<reclaimables, recycled, managerRefs>>
     ELSE IF managerMember
     THEN /\ reclaimables' = reclaimables \cup {p}
          /\ managerRefs' = managerRefs \cup {t}
          /\ UNCHANGED <<recycled, gone>>
     ELSE recycled' = recycled \cup {p} /\ UNCHANGED <<reclaimables, gone, managerRefs>>

\* Thread t drops what may be the last references to p, leaving these.
DropPool(t, p, live, local) ==
  /\ tracked' = live
  /\ tls' = local
  /\ IF NoneLeft(p, live, local) THEN CommandPoolDtor(t, p)
     ELSE UNCHANGED <<reclaimables, recycled, gone, contextRefs, managerRefs>>

\* ~TrackedObjects.
DropTracked(t, s) == DropPool(t, pool[s], tracked \ {s}, tls)

\* CommandPoolRecycler::Get: the pool of the thread, a recycled one, a new one.
PoolsFor(c) ==
  IF tls[c] # None THEN {tls[c]}
  ELSE IF recycled # {} THEN recycled
  ELSE {p \in Pools : /\ \A s \in Subs : pool[s] # p
                      /\ \A d \in Clients : tls[d] # p}

CreateCommandBuffer(s) ==
  LET c == ThreadOf[s] IN
  /\ Idle(c) /\ c \in holders
  /\ phase[s] = "none"
  /\ phase' = [phase EXCEPT ![s] = "recorded"]
  /\ \E p \in PoolsFor(c) :
       /\ pool' = [pool EXCEPT ![s] = p]
       /\ tls' = [tls EXCEPT ![c] = p]
       /\ recycled' = recycled \ {p}
  /\ tracked' = tracked \cup {s}
  /\ UNCHANGED <<gpu, told, reclaimables, gone, managerVars, refVars, waiterVars,
                 manager, lifeVars>>

\* DisposeThreadLocalCachedResources, at the end of a frame.
Dispose(c) ==
  /\ Idle(c) /\ c \in holders
  /\ tls[c] # None
  /\ DropPool(c, tls[c], tracked, [tls EXCEPT ![c] = None])
  /\ UNCHANGED <<subVars, managerVars, holders, waiterVars, manager, lifeVars>>

\* The client drops a CommandBuffer it has not submitted, or that failed to end.
DropCommandBuffer(s) ==
  /\ Idle(ThreadOf[s])
  /\ phase[s] \in {"recorded", "rejected"}
  /\ phase' = [phase EXCEPT ![s] = "done"]
  /\ DropTracked(ThreadOf[s], s)
  /\ UNCHANGED <<gpu, told, pool, managerVars, holders, waiterVars, manager, lifeVars>>

-----------------------------------------------------------------------------
(* CommandQueue::Submit.                                                   *)

\* A client may hold the CommandQueue without the Context.
SubmitEnds(s) ==
  LET c == ThreadOf[s] IN
  /\ Idle(c)
  /\ phase[s] = "recorded"
  /\ phase' = [phase EXCEPT ![s] = IF ContextAlive THEN "ended" ELSE "failing"]
  /\ contextRefs' = IF ContextAlive THEN contextRefs \cup {c} ELSE contextRefs
  /\ UNCHANGED <<gpu, told, pool, poolVars, managerVars, holders, managerRefs, waiterVars,
                 manager, lifeVars>>

SubmitCannotEnd(s) ==
  /\ Idle(ThreadOf[s])
  /\ phase[s] = "recorded"
  /\ phase' = [phase EXCEPT ![s] = "rejected"]
  /\ told' = [told EXCEPT ![s] = Append(@, "error")]
  /\ UNCHANGED <<gpu, pool, poolVars, managerVars, refVars, waiterVars, manager, lifeVars>>

\* The fence is created and the queue takes the buffers, or one of them fails.
QueueSubmit(s) ==
  /\ phase[s] = "ended"
  /\ \/ phase' = [phase EXCEPT ![s] = "queued"] /\ gpu' = [gpu EXCEPT ![s] = "pending"]
     \/ phase' = [phase EXCEPT ![s] = "failing"] /\ UNCHANGED gpu
  /\ UNCHANGED <<told, pool, poolVars, managerVars, refVars, waiterVars, manager, lifeVars>>

AddFence(s) ==
  /\ phase[s] = "queued"
  /\ phase' = [phase EXCEPT ![s] = IF terminate THEN "refused" ELSE "waiting"]
  /\ UNCHANGED <<gpu, told, pool, poolVars, managerVars, refVars, waiterVars, manager, lifeVars>>

\* The locals of a Submit that fails: the Context goes before the tracked
\* objects, except where these were in the callback the waiter refused.
SubmitUnwinds(s) ==
  LET c == ThreadOf[s] IN
  /\ \/ phase[s] = "failing" /\ Settled(c)
     \/ phase[s] = "refused"
  /\ phase' = [phase EXCEPT ![s] = "erring"]
  /\ DropTracked(c, s)
  /\ UNCHANGED <<gpu, told, pool, managerVars, holders, waiterVars, manager, lifeVars>>

\* A fault: the scoped closure was released.
SubmitReturnsQuietly(s) ==
  /\ phase[s] = "erring"
  /\ Settled(ThreadOf[s])
  /\ phase' = [phase EXCEPT ![s] = "done"]
  /\ UNCHANGED <<gpu, told, pool, poolVars, managerVars, refVars, waiterVars, manager, lifeVars>>

SubmitFails(s) ==
  /\ phase[s] = "erring"
  /\ Settled(ThreadOf[s])
  /\ phase' = [phase EXCEPT ![s] = "done"]
  /\ told' = [told EXCEPT ![s] = Append(@, "error")]
  /\ UNCHANGED <<gpu, pool, poolVars, managerVars, refVars, waiterVars, manager, lifeVars>>

SubmitStep(s) == QueueSubmit(s) \/ AddFence(s) \/ SubmitUnwinds(s) \/ SubmitFails(s)

GpuCompletes(s) ==
  /\ gpu[s] = "pending"
  /\ gpu' = [gpu EXCEPT ![s] = "complete"]
  /\ UNCHANGED <<phase, told, pool, poolVars, managerVars, refVars, waiterVars, manager, lifeVars>>

-----------------------------------------------------------------------------
(* FenceWaiter::Main and Wait.                                             *)

WaitSet == {s \in Subs : phase[s] = "waiting"}

\* A fault: a terminated waiter ends with fences in its set.
EndAtOnce ==
  /\ waiter.at = "check"
  /\ waiter' = IF terminate THEN [waiter EXCEPT !.at = "ended"]
               ELSE [at |-> "fences", snapshot |-> WaitSet]
  /\ WaitSet # {} \/ terminate
  /\ UNCHANGED <<subVars, poolVars, managerVars, refVars, terminate, deviceError, manager, lifeVars>>

\* The wait of Main, WaitUntilEmpty, and the snapshot of Wait.
WaiterLooks ==
  /\ waiter.at = "check"
  /\ waiter' = IF WaitSet = {} THEN [waiter EXCEPT !.at = "ended"]
               ELSE [at |-> "fences", snapshot |-> WaitSet]
  /\ WaitSet # {} \/ terminate
  /\ UNCHANGED <<subVars, poolVars, managerVars, refVars, terminate, deviceError, manager, lifeVars>>

\* A fault: all fences waited for are taken for signalled, some or none are.
AllSignalled ==
  /\ waiter.at = "fences"
  /\ phase' = [s \in Subs |-> IF s \in waiter.snapshot THEN "signalled" ELSE phase[s]]
  /\ waiter' = [at |-> "callbacks", snapshot |-> {}]
  /\ UNCHANGED <<gpu, told, pool, poolVars, managerVars, refVars, terminate, deviceError,
                 manager, lifeVars>>

\* waitForFences returns, with a fence signalled or after 100 ms.
FencesWaited ==
  /\ waiter.at = "fences"
  /\ phase' = [s \in Subs |-> IF s \in waiter.snapshot /\ gpu[s] = "complete"
                              THEN "signalled" ELSE phase[s]]
  /\ waiter' = [at |-> "callbacks", snapshot |-> {}]
  /\ UNCHANGED <<gpu, told, pool, poolVars, managerVars, refVars, terminate, deviceError,
                 manager, lifeVars>>

\* An error tears the thread down; AddFence goes on accepting.
FencesFail ==
  /\ waiter.at = "fences"
  /\ waiter' = [at |-> "ended", snapshot |-> {}]
  /\ deviceError' = TRUE
  /\ UNCHANGED <<subVars, poolVars, managerVars, refVars, terminate, manager, lifeVars>>

Completing == {s \in Subs : phase[s] = "completing"}

\* The callback of an erased entry drops the tracked objects ...
WaiterUnwinds(s) ==
  /\ waiter.at = "callbacks"
  /\ Completing = {} /\ Settled(Waiter)
  /\ phase[s] = "signalled"
  /\ phase' = [phase EXCEPT ![s] = "completing"]
  /\ DropTracked(Waiter, s)
  /\ UNCHANGED <<gpu, told, pool, managerVars, holders, waiterVars, manager, lifeVars>>

\* A fault: the entry is not erased.
CalledBackEntryStays(s) ==
  /\ phase[s] = "completing"
  /\ Settled(Waiter)
  /\ phase' = [phase EXCEPT ![s] = "waiting"]
  /\ told' = [told EXCEPT ![s] = Append(@, "completed")]
  /\ UNCHANGED <<gpu, pool, poolVars, managerVars, refVars, waiterVars, manager, lifeVars>>

\* ... and calls the completion callback.
WaiterCallsBack(s) ==
  /\ phase[s] = "completing"
  /\ Settled(Waiter)
  /\ phase' = [phase EXCEPT ![s] = "done"]
  /\ told' = [told EXCEPT ![s] = Append(@, "completed")]
  /\ UNCHANGED <<gpu, pool, poolVars, managerVars, refVars, waiterVars, manager, lifeVars>>

WaiterAgain ==
  /\ waiter.at = "callbacks"
  /\ \A s \in Subs : phase[s] \notin {"signalled", "completing"}
  /\ waiter' = [waiter EXCEPT !.at = "check"]
  /\ UNCHANGED <<subVars, poolVars, managerVars, refVars, terminate, deviceError, manager, lifeVars>>

WaiterStep ==
  \/ WaiterLooks \/ FencesWaited \/ WaiterAgain
  \/ \E s \in Subs : WaiterUnwinds(s) \/ WaiterCallsBack(s)

-----------------------------------------------------------------------------
(* ResourceManager::Start.                                                 *)

ManagerTakes ==
  /\ manager.at = "check"
  /\ reclaimables # {} \/ shouldExit
  /\ manager' = [at |-> "collect", hand |-> reclaimables, exit |-> shouldExit]
  /\ reclaimables' = {}
  /\ UNCHANGED <<subVars, tracked, tls, recycled, gone, managerVars, refVars, waiterVars, lifeVars>>

\* ~BackgroundCommandPool and CommandPoolRecycler::Reclaim, which resets it.
ManagerRecycles(p) ==
  /\ p \in manager.hand
  /\ Settled(Manager)
  /\ manager' = [manager EXCEPT !.hand = @ \ {p}]
  /\ IF ContextAlive
     THEN /\ contextRefs' = contextRefs \cup {Manager}
          /\ recycled' = recycled \cup {p} /\ UNCHANGED gone
     ELSE gone' = gone \cup {p} /\ UNCHANGED <<contextRefs, recycled>>
  /\ UNCHANGED <<subVars, tracked, tls, reclaimables, managerVars, holders, managerRefs,
                 waiterVars, lifeVars>>

\* A fault: should_exit_ is read after the mutex is released.
ReadExitUnlocked ==
  /\ manager.at = "collect"
  /\ manager.hand = {}
  /\ Settled(Manager)
  /\ manager' = [manager EXCEPT !.at = IF shouldExit THEN "ended" ELSE "check"]
  /\ UNCHANGED <<subVars, poolVars, managerVars, refVars, waiterVars, lifeVars>>

ManagerAgain ==
  /\ manager.at = "collect"
  /\ manager.hand = {}
  /\ Settled(Manager)
  /\ manager' = [manager EXCEPT !.at = IF manager.exit THEN "ended" ELSE "check"]
  /\ UNCHANGED <<subVars, poolVars, managerVars, refVars, waiterVars, lifeVars>>

ManagerStep == ManagerTakes \/ ManagerAgain \/ \E p \in Pools : ManagerRecycles(p)

-----------------------------------------------------------------------------
(* Context::Shutdown and ~Context.                                         *)

\* A fault: only the resource manager is reset.
SkipWaiter ==
  /\ Idle(Owner) /\ Owner \in holders
  /\ shutdown = "none"
  /\ shutdown' = "manager"
  /\ UNCHANGED <<subVars, poolVars, managerVars, refVars, waiterVars, manager, dtor>>

ShutdownTerminates ==
  /\ Idle(Owner) /\ Owner \in holders
  /\ shutdown = "none"
  /\ terminate' = TRUE
  /\ shutdown' = "waiter"
  /\ UNCHANGED <<subVars, poolVars, managerVars, refVars, waiter, deviceError, manager, dtor>>

ShutdownJoins ==
  /\ shutdown = "waiter"
  /\ waiter.at = "ended"
  /\ shutdown' = "manager"
  /\ UNCHANGED <<subVars, poolVars, managerVars, refVars, waiterVars, manager, dtor>>

ShutdownResetsManager ==
  /\ shutdown = "manager"
  /\ DropManager(Owner, FALSE, managerRefs)
  /\ shutdown' = "returning"
  /\ UNCHANGED <<subVars, poolVars, holders, contextRefs, waiterVars, manager, dtor>>

ShutdownReturns ==
  /\ shutdown = "returning"
  /\ managerDtor # Owner
  /\ shutdown' = "done"
  /\ UNCHANGED <<subVars, poolVars, managerVars, refVars, waiterVars, manager, dtor>>

ShutdownStep == ShutdownJoins \/ ShutdownResetsManager \/ ShutdownReturns

\* The owner lets go of a Context that is shut down.
DropReference(c) ==
  /\ Idle(c) /\ c \in holders
  /\ c = Owner => shutdown = "done"
  /\ DropContext(c, holders \ {c}, contextRefs)
  /\ UNCHANGED <<subVars, poolVars, managerVars, managerRefs, waiterVars, manager, shutdown>>

LocalPools == {tls[c] : c \in Clients} \ {None}

\* The body of ~Context: waitIdle leaves the device idle, or fails, which is
\* ignored; the pools that are thread-local are destroyed wherever they are
\* still referred to.
DtorDestroysPools ==
  /\ dtor.at = "idle"
  /\ \/ gpu' = [s \in Subs |-> IF gpu[s] = "pending" THEN "complete" ELSE gpu[s]]
     \/ UNCHANGED gpu
  /\ gone' = gone \cup LocalPools
  /\ tls' = [c \in Clients |-> IF c = dtor.thread THEN None ELSE tls[c]]
  /\ recycled' = {}
  /\ dtor' = [dtor EXCEPT !.at = "manager"]
  /\ UNCHANGED <<phase, told, pool, tracked, reclaimables, managerVars, refVars, waiterVars,
                 manager, shutdown>>

\* Its members, in the order they go.
DtorDropsManager ==
  /\ dtor.at = "manager"
  /\ IF managerMember THEN DropManager(dtor.thread, FALSE, managerRefs)
     ELSE UNCHANGED <<managerVars, managerRefs>>
  /\ dtor' = [dtor EXCEPT !.at = "joinManager"]
  /\ UNCHANGED <<subVars, poolVars, holders, contextRefs, waiterVars, manager, shutdown>>

DtorTerminatesWaiter ==
  /\ dtor.at = "joinManager"
  /\ managerDtor # dtor.thread
  /\ terminate' = TRUE
  /\ dtor' = [dtor EXCEPT !.at = IF terminate THEN "waiter" ELSE "joinWaiter"]
  /\ UNCHANGED <<subVars, poolVars, managerVars, refVars, waiter, deviceError, manager, shutdown>>

\* The entries a failed waiter left behind call back when they are destroyed.
DtorDropsWaiter ==
  /\ \/ dtor.at = "waiter"
     \/ dtor.at = "joinWaiter" /\ waiter.at = "ended"
  /\ phase' = [s \in Subs |-> IF s \in WaitSet THEN "done" ELSE phase[s]]
  /\ told' = [s \in Subs |-> IF s \in WaitSet THEN Append(told[s], "completed") ELSE told[s]]
  /\ tracked' = tracked \ WaitSet
  /\ gone' = gone \cup {p \in Pools : UsedBy(p) # {} /\ NoneLeft(p, tracked \ WaitSet, tls)}
  /\ dtor' = [dtor EXCEPT !.at = "done"]
  /\ UNCHANGED <<gpu, pool, tls, reclaimables, recycled, managerVars, refVars, waiterVars,
                 manager, shutdown>>

DtorStep == DtorDestroysPools \/ DtorDropsManager \/ DtorTerminatesWaiter \/ DtorDropsWaiter

-----------------------------------------------------------------------------
Init ==
  /\ phase = [s \in Subs |-> "none"]
  /\ gpu = [s \in Subs |-> "idle"]
  /\ told = [s \in Subs |-> <<>>]
  /\ pool = [s \in Subs |-> None]
  /\ tracked = {}
  /\ tls = [c \in Clients |-> None]
  /\ reclaimables = {} /\ recycled = {} /\ gone = {}
  /\ holders = Clients
  /\ contextRefs = {} /\ managerRefs = {}
  /\ managerMember = TRUE /\ managerDtor = None /\ shouldExit = FALSE
  /\ manager = [at |-> "check", hand |-> {}, exit |-> FALSE]
  /\ waiter = [at |-> "check", snapshot |-> {}]
  /\ terminate = FALSE /\ deviceError = FALSE
  /\ shutdown = "none"
  /\ dtor = [at |-> "none", thread |-> None]

ReleaseStep(t) == ReleaseManager(t) \/ ReleaseContext(t)

ClientCall ==
  \/ \E s \in Subs : CreateCommandBuffer(s) \/ DropCommandBuffer(s)
                     \/ SubmitEnds(s) \/ SubmitCannotEnd(s)
  \/ \E c \in Clients : Dispose(c) \/ DropReference(c)
  \/ ShutdownTerminates

Next ==
  \/ ClientCall
  \/ \E s \in Subs : SubmitStep(s) \/ GpuCompletes(s)
  \/ \E t \in Threads : ReleaseStep(t)
  \/ ManagerJoined
  \/ WaiterStep
  \/ FencesFail
  \/ ManagerStep
  \/ ShutdownStep
  \/ DtorStep

Spec == Init /\ [][Next]_vars

\* The threads are scheduled and the GPU completes what it was given; what
\* clients call, and when, is theirs.
FairSpec ==
  /\ Spec
  /\ \A s \in Subs : WF_vars(SubmitStep(s)) /\ WF_vars(GpuCompletes(s))
  /\ \A t \in Threads : WF_vars(ReleaseStep(t))
  /\ WF_vars(WaiterStep)
  /\ WF_vars(ManagerJoined) /\ WF_vars(ManagerStep)
  /\ WF_vars(ShutdownStep) /\ WF_vars(DtorStep)

-----------------------------------------------------------------------------
(* Properties.                                                             *)

(* A command pool is reset when nothing refers to it: no thread records in *)
(* it, no command buffer of it is alive and, but for a submission that was *)
(* refused after the queue had taken it, the GPU executes none of them.    *)
PoolIdleWhenReset ==
  \A p \in reclaimables \cup manager.hand \cup recycled :
    /\ UsedBy(p) = {}
    /\ \A c \in Clients : tls[c] # p
    /\ \A s \in Subs : pool[s] = p /\ gpu[s] = "pending" =>
         phase[s] = "erring" \/ told[s] = <<"error">>

(* The callback says "completed" of what the GPU has completed, with one   *)
(* exception: ~FenceWaiter says it of the entries that a wait for fences   *)
(* which failed has left behind, though the waitIdle of ~Context may have  *)
(* failed too.  A device that never fails is never misreported.            *)
CompletedIsTrue ==
  \A s \in Subs : told[s] = <<"completed">> =>
    gpu[s] = "complete" \/ (deviceError /\ dtor.at = "done")

(* "Without it, we get thread::join failures on shutdown": if the owner    *)
(* shuts the Context down before it lets go, the last references to it and *)
(* to the ResourceManager are dropped by clients, whatever the background  *)
(* threads have locked, and neither of these comes to join itself.         *)
NoSelfJoin ==
  /\ dtor.thread \notin {Waiter, Manager}
  /\ managerDtor # Manager

(* When Shutdown returns, all that was accepted has been called back,      *)
(* unless the device failed: the terminated waiter empties its set.        *)
ShutdownDrains ==
  shutdown = "done" /\ ~deviceError =>
    \A s \in Subs : phase[s] \notin {"waiting", "signalled", "completing"}

(* The thread of the ResourceManager ends with nothing left to collect:    *)
(* should_exit_ is read in the critical section that takes the resources.  *)
ManagerCollectsAll == manager.at = "ended" => reclaimables = {} /\ manager.hand = {}

(* What Submit was given is called back, one way or the other, unless the  *)
(* waiter's thread was torn down by a device error.                        *)
CallbackComes ==
  \A s \in Subs : phase[s] \in {"ended", "failing"} ~> told[s] # <<>> \/ deviceError

(* "Clean up resources held by all per-thread command pools associated     *)
(* with the context": after the body of ~Context no command pool is held.  *)
(* False: a pool its thread has disposed of is not found.                  *)
PoolsDestroyedWithContext ==
  dtor.at \notin {"none", "idle"} => \A s \in tracked : pool[s] \in gone
=============================================================================

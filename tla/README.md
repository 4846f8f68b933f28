# A verification project for ogre

TLA+ models, TLC runs and TLAPS proofs about `src/src`, the C++ of ogre: a Vulkan hardware
abstraction layer (`hal/`) on a fork of Flutter's `fml/` runtime.  The program's own core logic is
concurrent: message loops that serve merged task queues, raster and platform threads that merge for a
lease of frames, worker pools and the pipelines compiled on them, the way of a command buffer to the GPU
and back, the pools it draws on, the frames of a swapchain, and a cache file that must survive a crash.
That is what is modelled.

To check: `tlc -workers 2 -config <cfg> <module>` for each row of the table of runs, and `tlapm` on the
eight `*Proofs` modules, in this directory.

## Inventory

| Part (files) | State | Operations | Talks to | What makes it correct |
|---|---|---|---|---|
| Task dispatcher: `fml/message_loop_task_queues`, `task_source`, `delayed_task` | per queue: two heaps of delayed tasks, pause count, `owner_of`, `subsumed_by`; one order counter | create, dispose, register, get next task, merge, unmerge, pause, resume | wakes the loops, its wakeables | tasks run once and in order; a loop waits no longer than for its first task; merge tables agree |
| Message loops: `fml/message_loop_impl`, `platform/linux/message_loop_linux`, `platform/linux/timerfd` | `terminated_`, `running_`, timer | run, flush, post, terminate, destroy | takes from the dispatcher | due tasks are served; termination ends the loop; leftovers are destroyed |
| Raster thread mergers: `fml/raster_thread_merger`, `shared_thread_merger` | leases per caller, `enabled_`, the waiter | merge, unmerge, extend, decrement, enable, wait | merges queues of the dispatcher | leases and queues agree; CHECKs hold; waiters return |
| Concurrent loop: `fml/concurrent_message_loop` | queue, per-worker queues, `shutdown_` | post, broadcast, terminate, destroy | its workers; weak runners | tasks run once, no lost wake-up, every worker ends |
| GPU submission: `hal/command_queue_vk`, `fence_waiter_vk`, `resource_manager_vk`, `command_pool_vk`, `tracked_objects_vk`, `context_vk` | wait set, reclaimables, recycled pools, three kinds of counted references | record, submit, wait, call back, reclaim, recycle, shut down, destroy | GPU; two background threads | no pool is reset in use; one callback each; no thread joins itself |
| Pipelines: `hal/pipeline_compile_queue`, `pipeline_library_vk`, `pipeline.h` | maps of futures, pending jobs, promises | ask for, wait for, prioritise, remove, finish at destruction | concurrent loop | each promise is set once; no job without a taker; locks come back; waiters return |
| Pipeline cache: `hal/pipeline_cache_vk`, `pipeline_cache_data_vk`, `fml/platform/posix/file_posix` | dirty flag, frame count, two files | count frames, save on a worker, load | library, workers, file system | a stop at any instant leaves a whole file or none; the driver is given its own data |
| Descriptor pools: `hal/descriptor_pool_vk`, keys of `pipeline_vk` | per pool used and unused sets by key; a recycler of 32 | allocate, reuse, reclaim, dispose | command buffers, the fence waiter's thread | a set is used by one live command buffer, and for the pipeline it was made for |
| KHR swapchain: `hal/swapchain/khr` | synchronizers, current frame, size, retries | acquire, add a final buffer, present, resize, recreate | GPU queue and window system | Vulkan's rules on fences and semaphores; buffers outlive their execution; acquisitions return |
| Android swapchain: `hal/swapchain/ahb`; GPU tracer | a texture pool and pending presents; per-frame query pools | acquire, present; begin, end | Android's compositor; completion callbacks | not modelled, see below |
| Threads, latches, waitable events, sync switch | flags and counts under a lock | signal, wait, observe | everything | no lost signal |
| The rest: passes, allocator, formats, libraries, geometry, files, mappings, tracing | values and handles | calls of Vulkan and of the system | | sequential, or out of TLC's reach |

`PROJECT.json` lists each with its status, and, under `hazards`, what of it is hard to test, at its line.
What is hard throughout: calls from any thread that interleave with a loop that is in the middle of a
flush; predicates tested under one mutex and used under another; destructors run by whichever thread
drops the last reference; a shutdown that races posts, submissions and waits.

## The modules

| Module | Stands for | Uses |
|---|---|---|
| `TaskService` | what posting a task promises: abstract | |
| `TaskQueues` | dispatcher and loops | implements `TaskService` |
| `TaskQueuesProofs` | proofs about `TaskQueues` | |
| `ThreadMerger` | raster and shared thread mergers | the merge table, as proved in `TaskQueuesProofs` |
| `ThreadMergerProofs` | proofs about `ThreadMerger` | |
| `Executor` | what posting to the worker pool promises: abstract | |
| `ConcurrentLoop` | the worker pool | implements `Executor` |
| `ConcurrentLoopProofs` | proofs about `ConcurrentLoop` | |
| `GpuSubmission`, `GpuSubmissionProofs` | submission, pools, shutdown of a Context | |
| `Pipelines`, `PipelinesProofs` | library, compile queue, handles, shutdown | `Executor` as its worker pool (INSTANCE) |
| `PipelineCacheFile`, `PipelineCacheFileProofs` | the cache and its file, over stops and restarts | |
| `DescriptorPools`, `DescriptorPoolsProofs` | descriptor pools and their recycler | |
| `KHRSwapchain`, `KHRSwapchainProofs` | the swapchain of a window | |
| `MC*` | constants of the runs | |

Definitions keep the names of the functions they model; `map` in `PROJECT.json` gives the lines.

### TaskQueues

A task is a record of its queue, its source (primary, or secondary for tasks of the Dart event loop),
its target time and its order number; `pending` is the set of those in the heaps, so the top of a heap is
the least by `Before`.  `ran` and `dropped` are history.  Every operation of `MessageLoopTaskQueues` holds
`queue_mutex_` from end to end and is one action; waking the loop (`WakeUpUnlocked`) is part of it, as
`alarm`, the instant the timer is armed for, `Never` if it is not.

A loop is not atomic: `loop[q]` is where its thread is.  `DoRun` tests `terminated_` before `Run` sets
`running_`; `OnEventFired` drains the timer and starts a flush, which fixes `cutoff`, its local `now`;
`RunNextTask` takes one task, whose body may make any call; `EndFlush` comes when
`GetNextTaskToRun` has nothing more or the loop was terminated meanwhile; after `Run` come a last drain
and `DisposeTasks`.  `PostTask` tests `terminated_` and registers later, so a post races a termination.
An embedder may call `RunExpiredTasksNow` on loops in `Polled`.

Simplified: a return of `epoll_wait` and the drain of the timer are one step; the three stores of
`Terminate` and of a run's end are one action; the timer re-fires at no interval (it would flush an empty
queue); a loop has one `PostTask` in flight and one pause request at most.  DCHECKs are obligations of
the callers: nobody merges a queue with itself or uses a disposed one.

### ThreadMerger

A thread's call is a record in `call`: its checks under the mutex of the `RasterThreadMerger` are its
first step, the atomic call of the shared merger its second (`at = "shared"`), callback and notification
its third (`at = "callback"`).  `lease` is `lease_term_by_caller_`, with `NoRecord` for an absent entry.
`subsumes` is the merge table of the dispatcher.  A CHECK that fails sets `failed` and the program stops.

Which thread calls is the clients' choice, and an assumption of the module (`MayRun`).  The header asks of
`UnMergeNowIfLastOne` that it be "executed on the raster task runner" (`raster_thread_merger.h:60`), so its
caller is the thread whose loop is offered the raster queue: `RasterTaskThreads`.  Of `MergeWithLease`,
`ExtendLeaseTo` and `DecrementLease` it says nothing, and the unit tests with one merger call them
from other threads.  So the mergers in `Unconfined`, which have their pair to themselves, make these three calls on any
thread; for mergers that share a pair they are assumed to come from the raster task runner too, because nothing
in the code would otherwise keep a check and its use together: each merger locks a mutex of its own.

`UnMergeNowIfLastOne` does not ask whether anything is merged.  Called with nothing merged it erases
the record, calls `Unmerge`, and its CHECK aborts; the model has that outcome.

### ConcurrentLoop

One step per critical section of `tasks_mutex_`; apart from it are the `notify_one` of `PostTask`, the
execution of the tasks a worker took, the reference a task runner holds during its call (`call`), and the
join of the destructor.  Whoever drops the last reference is `destructor.thread`.  A worker may, by
executing a task that posts; it then joins itself, which the code does not survive: the model leaves it
there and claims nothing further.

### GpuSubmission

A submission goes through `phase`, from recorded to done; `told` lists the statuses its callback got.
References are explicit: `tracked` (a command buffer's `TrackedObjects`, which hold its pool), `tls` (the
thread-local pool of a recorder), `contextRefs` and `managerRefs` (threads that have locked a weak
pointer), `holders` (clients).  A step that lets the last of them go starts the destructor on that thread.
The waiter copies the wait set, waits for fences with the lock released, erases what is signalled,
calls back outside the lock; the manager swaps out the reclaimables, resets them outside the lock.
Shutdown and `~Context` are one step per thing they end, wait for or join.  `~Context` ignores the result of
`waitIdle` (`context_vk.cc:130`): it leaves the device idle, or it fails and what was pending stays so.  Both background
threads are alone on their condition variables and every change of a predicate is followed by a notification, so a
wait is the guard of a step.

Taken from the comments of the code: the owner calls Shutdown before it lets its reference go
(`context_vk.cc:600-604`, `resource_manager_vk.cc:27-31`), a buffer is submitted once, and a Submit has
at least one buffer (an empty one returns without a callback).  A submission stands for the buffers of
one Submit.

### Executor and Pipelines

`Executor` is what a caller of `ConcurrentTaskRunner` may rely on: a posted task is executed at most
once (`SafeSpec`), and unless the pool is shut down it is executed (the fairness of `Spec`).
`ConcurrentLoop` has it as the property `ImplementsExecutor`, fairness included, under the mapping of
`posted`, of the tasks that `ran`, and of `shutdown`; and `Pipelines` uses it as its pool:
its workers start tasks of `Unstarted`, and after the shutdown they may end with some left.  So
the two modules compose along that interface without the product of their states.  `Executor` accepts a
task once; that this never holds a call of the library back is the theorem `PostsAcceptedInvariant`.

In `Pipelines` a job is a generation task with its promise.  `thread` says of each thread where it is and
which mutexes it has: `GetPipeline` holds `pipelines_mutex_` over the post, and, when the pool is closed
and gives the task back, over its execution.  A second job for a descriptor that is in the queue is
posted by itself (`pipeline_compile_queue.cc:36`).  A waiter takes the job of its descriptor out of the
queue and performs it, if it is eager.  Destruction is in the order of `~Context`: the pool is joined
and its leftovers are destroyed, then `FinishAllJobs` performs the queue's.

### PipelineCacheFile

Every system call of `WriteAtomically` is a step: open (without truncation), truncate, each
possibly short write, sync, rename; each may fail.  A file is a sequence of blocks, each named after the save
that wrote it, so a mix of two saves can be told from one.  `Stop` is the fault: the process or the
machine ends between any two steps.  Of an unsynced file any blocks may be lost or cut off; a rename may not have
reached the disk (`durable`).  `CreateCache` is the restart, under the same driver or another.

### DescriptorPools

A `DescriptorPool` is referenced by the thread that caches it and by the command buffers it made; the last
to go reclaims it.  What is drawn with is a member of `Layouts`, a pipeline with the immutable sampler of its variant, if
any.  A set is a number, with `layouts` a history of what it was allocated for; `NullSet` is the
handle of a failed allocation, which the code records among the used sets all the same.

### KHRSwapchain

`pc` is where `AcquireNextDrawable` is: at the wait for the fence, at the acquisition of an image, at a
recreation.  `sync` is per frame the fence, the semaphore `render_ready` and the final command buffer;
`gpu` the submissions not yet executed, in order.  Any call of Vulkan may fail where the code handles it.  A
failed `Present` of the queue leaves the image with the application, as Vulkan does.  A tear-down waits for the
device to be idle, ignores the result (`khr_swapchain_impl_vk.cc:320-324`) and drops the synchronizers: after a failed
wait the submissions of the old implementation stay in `gpu` as `None`.

## What the runs check

| Run | Instance | Checks | Shows |
|---|---|---|---|
| `task_queues_merge` | 3 queues, one with a thread, one that is disposed of, one with Dart tasks, 2 tasks, 2 instants | `TypeOK` `MergeStates` `WakesInTime` `NoOvertaking` | merging, unmerging, pausing and disposing, in any order, between the steps of a flush |
| `task_queues_loops` | 2 loops with threads, one polled as well, one terminated and destroyed | `ImplementsTaskService` `TerminationTakesEffect` `DueTasksAreServed` | a task runs at most once, in order, or is destroyed with its queue; loops end; due tasks are served |
| `thread_merger` | 2 mergers of one pair, one of another with the same platform queue that any thread calls, leases to 2 | `TypeOK` `LeaseAgreesWithQueues` `ChecksStillHold` `CheckFailures` `MergeEndsWait` | what is checked without the shared mutex still holds when it is used; a CHECK aborts in two known calls only |
| `concurrent_loop` | 2 workers, 2 clients, 2 tasks, 1 broadcast | `TypeOK` `EveryTaskOnce` `NoTaskWithoutWorker` `EarlyBroadcastsRun` `ImplementsExecutor` `DestructorReturns` | no task lost or run twice, no lost wake-up, a shutdown that ends; the pool is an `Executor` |
| `gpu_submission` | 2 clients that submit once each, 2 pools | `TypeOK` `PoolIdleWhenReset` `CompletedIsTrue` `NoSelfJoin` `ShutdownDrains` `ManagerCollectsAll` `CallbackComes` | recycling, callbacks and shutdown with any failure of a submission, of the device and of `waitIdle` |
| `pipelines` | 2 graphics descriptors, 1 compute, 2 clients, 1 worker, keys to 2 | `TypeOK` `EveryJobOnce` `QueuedJobsHaveTakers` `LibraryUnlocks` `WaitersReturn` | no promise is lost or set twice, though workers take any job, waiters theirs, and a pool is shut down in between |
| `pipeline_cache_file` | 2 workers, 2 drivers, data to 2 blocks, 3 saves | `TypeOK` `PublishedWhole` `LoadedWhole` | a stop between any two calls leaves a whole file; left-over temporary files do no harm |
| `descriptor_pools` | 2 threads, 2 command buffers, 2 pools, a recycler of 1; a pipeline, a variant of it, a variant of another | `TypeOK` `SetsNotShared` `SetsOfPipeline` | sets are offered after their last user, and by key |
| `khr_swapchain` | 3 images, 2 frames in flight, 2 sizes, 3 retries, 1 failed wait for the device | `TypeOK` `FrameReadyWhenUsed` `BufferOutlivesGpu` `AcquireReturns` | fences, semaphores and buffers through failures and resizes; what alone can make an acquisition hang |

Three more runs look for, and find, a behaviour that contradicts the text of the code:

| Run | Violates | The code does | The code says |
|---|---|---|---|
| `task_queues_resume` | `WakesForEveryTask` | `ResumeSecondarySource` of a subsumed queue wakes nobody; the owner waits with no alarm for tasks it could run | "wakes up the loop at the required times" |
| `gpu_submission_pools` | `PoolsDestroyedWithContext` | `Dispose` takes a pool off the list that `~Context` clears while buffers of it live | "all per-thread command pools associated with the context" |
| `descriptor_variants` | `VariantsApart` | every variant of a pipeline has the key `-1 * pipeline_key_`, so a recycled set that was allocated with the layout of one is handed out for another | "This keeps the descriptors separate" |

Three disagreements of the mergers with their texts have no run of their own.  Properties that hold in
`thread_merger` say how far they go:

- `UnMergeNowIfLastOne` called with nothing merged aborts in a CHECK, where `raster_thread_merger.h:55-58` has it
  "remove the caller record and return".  `CheckFailures` says that no other call fails the CHECK of an unmerge.
- "lease_term should always be positive when merged" (`shared_thread_merger.cc:63`): the CHECK is about the
  caller's own lease, "merged" about all leases.  A client's expired lease fails it while another's keeps the
  queues merged; `CheckFailures` says that nothing else does.
- "Waits until the threads are merged." (`raster_thread_merger.h:83`): a waiter is notified by its own merger only.
  When another merger of the pair merges, the threads are merged and the waiter sleeps on.
  `MergeEndsWait` speaks of merges by the waiter's own merger, which do end its wait.

One more thing is no disagreement with any text: the callback of `SetMergeUnmergeCallback` comes after the merge,
when the platform thread may have begun a raster task.

Two results of `waitIdle` are ignored by the code, and the properties say what follows.  After a device error, and
only then, a callback may say "completed" of work that was never executed; it comes from `~FenceWaiter`
(`CompletedIsTrue`).  After a failed wait, and only then, a final command buffer may be freed while the GPU executes
it (`BufferOutlivesGpu`).

### Bounds

- *Tasks and time* (`MaxTasks`, `MaxTime`). The proofs below hold for every value.  For TLC two tasks are
  enough for one to overtake, hide or delay another, and two instants for a task that is due, one that is
  not yet, and an alarm that is early, in time or missing.
- *Queues.* Three for merging: an owner, two subsumed, one left when another is unmerged or disposed.  One may be
  disposed of at any time, as owner, subsumed or by itself.
- *Mergers.* Two share a pair, where leases can disagree; the third has the same platform queue, where
  calls of two pairs meet on one thread, and has its pair to itself, so any thread calls it.  Leases of 1 and 2
  tell the last frame from one before.
- *Concurrent loop.* Two workers, so that one sleeps while the other takes; two tasks, so that one is
  queued behind another.  An instance with three tasks (1.3 million states) was checked once too.
- *GPU.* Two submissions of two threads: one may be in the waiter's snapshot while another is added,
  and a pool recycled by one thread is reused by the other.  With a third submission the safety
  properties were checked once (9.4 million states).

- *Pipelines.* Two graphics descriptors, so that a worker can take the job a waiter does not want; keys
  to 2, so that a descriptor that was removed has a second job; one worker, since several differ by
  interleavings that `ConcurrentLoop` has.
- *Cache file.* Three saves: one published, one interrupted, one over its remains.  Two blocks of data,
  so that there are short writes and files of different length; a save every second frame.  Proved for
  all values.
- *Descriptor pools.* Two buffers share a pool of one thread, or have one each, and are created again after
  they end, so a pool comes back from the recycler; a recycler of 1 in place of 32 is full at once; a Vulkan pool of
  one set (`Capacity`) grows with the second; a buffer uses two sets (`MaxSets`), the failed allocations of a
  pool are one null set.  `Layouts` has keys k, -k and that of another variant; two samplers of one pipeline are in
  the instance of `descriptor_variants`.  Proved for all values.
- *Swapchain.* The code's two frames and three retries; one wait for the device fails (`MaxFailedWaits`), so that
  implementations before and after it are there.  Safety is proved for all values.

`MCTaskQueues` and `MCDescriptorPools` use symmetry, over queues with the same rights, and over
threads, buffers and pools, in runs of invariants only.

`CHECK_DEADLOCK FALSE` where the system may stop: tasks and time are used up (`TaskQueues`), nothing moves
after a failed CHECK or if nobody calls (`ThreadMerger`), and pools and Contexts end (`ConcurrentLoop`,
`GpuSubmission`, `Pipelines`).  The other three are checked for deadlock.

### Fairness

Weak, and only of threads that have something to do: a loop in `Run`, a call that has begun, a worker, a
destructor, a background thread, a clock, and a GPU that completes what it was given. The operating system
schedules runnable threads. `Pipelines` also relies on `Executor`: a pool that is not shut down starts what
was posted; and `KHRSwapchain` on a presentation engine that gives images back, with a wait in the driver
that ends when there is one. Acquisitions are owed the steps of the calling thread; failures, resizes and
suboptimal images are not; nor is a failed wait for the device, and the queue executes what it was given
after one as well. Nobody has to post, merge, submit, terminate or let go; wake-ups without reason and
device errors are never owed. One consequence is worth a remark: `epoll_wait` and condition variables are
weakly fair only, because a timer that is armed and a notification that was sent stay in the state until
they are consumed.

## What is proved

For any values of the constants that meet the named assumptions (`QueuesAssumption`,
`MergersAssumption`, `ThreadsAssumption`, `NoneAssumption`, `ContextAssumption`, `BoundsAssumption`,
`KeysAssumption`, `FramesAssumption`), without bounds on tasks, time, leases, threads, submissions,
descriptors, saves, sets or frames:

- **TaskQueuesProofs**: `TypeCorrectness`, `MergeStatesInvariant`, `NoOvertakingInvariant`,
  `WakesInTimeInvariant` and `Refinement` (`Spec` implies `TaskService!Spec`).  Types alone are not
  inductive: they go with `Bookkeeping`, which says that order numbers in use are below the counter
  and that tasks belong to live queues.  `MergeStates` is inductive over it.  `NoOvertaking` and each
  step of the refinement rest on one fact: the task `GetNextTaskToRun` takes is first of its heap, as it
  is first of all the heaps offered.  `WakesInTime` is
  inductive over types, bookkeeping and `MergeStates`, which says whose loop a task is to wake.  It
  claims nothing of a loop that is flushing: such a loop comes to wait again after a call that found nothing to
  run, which armed its timer for the least of the tasks left, or after a termination, which armed it
  for the past.
- **ThreadMergerProofs**: `MergerInvariant`, that is `TypeOK`, `LeaseAgreesWithQueues`,
  `ChecksStillHold` and `CheckFailures` at once, and all but the second as theorems of their own.  No one is
  inductive without the others: a CHECK fails in the two calls named only, because leases agree with the queues,
  leases stay so because a call at the shared merger still sees what it checked, and that in turn because the calls of
  one pair are made by the single thread which is offered the pair's raster tasks, so there is one at a time, or
  the merger has its pair, and with its own mutex the calls of it, to itself.  This rests on the confinement that
  `MayRun` assumes of mergers that share a pair.
- **ConcurrentLoopProofs**: `EarlyBroadcastsRunInvariant`.  The property speaks of ended workers only;
  the inductive `LoopInv` says the same of every worker that has seen the shutdown (`exiting`), whose queue
  was emptied in the critical section in which it saw it, and that none ends without having seen it.
  `TypeInvariant` and `EveryTaskOnceInvariant` rest on `IInv`.  `EveryTaskOnce` counts the places of a task;
  `PlacesInv` says instead in which of them it is, at its caller, in the queue, at the head of one
  worker's jobs or executed (`Placed`), so that each step moves one task from a place to the next, and
  `JobsInv` that a worker's jobs begin with the only task that came from the queue.  The type of `ran`
  needs it too: a task that could run twice would leave `0 .. 1`.
  `LoopRefinesExecutor` is the refinement, step by step: `Spec` implies `Executor!SafeSpec`.
  `NoTaskWithoutWorkerInvariant` compares the length of the queue with the number of callers about to notify and
  of workers about to look (`AwakeInv`); a notification moves one from the first to the second, unless nobody
  sleeps, and then there is nothing to show.
- **GpuSubmissionProofs** (a callback is true but for entries `Abandoned` by a failed wait, told when `~Context` is
  done): `TypeInvariant`, `PoolIdleWhenResetInvariant`, `CompletedIsTrueInvariant`,
  `NoSelfJoinInvariant`, `ShutdownDrainsInvariant`, `ManagerCollectsAllInvariant`.  The conjuncts of `IInv` need each other:
  `SubsInv` ties the phase of a submission to its references, the GPU and its callback; `PoolsInv` says that a pool
  on its way to be reset is referred to by nobody, and is in one of the reclaimables, the manager's hand and the
  recycler; `WaiterInv` and `ManagerInv` say at which step a background thread can hold a reference,
  whence the waiter never drops the last one of the Context and the manager never that of its own
  thread; `LifeInv` has the order of Shutdown: the waiter is joined before the manager is let go, both before
  the owner's reference is.  Two facts carry the results: whoever holds the manager holds the Context, and nothing
  is added to the reclaimables from the round in which the manager has seen `should_exit_`.
- **PipelinesProofs**: `TypeInvariant`, `EveryJobOnceInvariant`, `QueuedJobsHaveTakersInvariant` and
  `PostsAcceptedInvariant`.  `JobsInv` gives an unset promise one place, a thread, the queue or a pool
  that lives, and a set one none; it needs that a task of the pool is executed by one thread
  (`ThreadsInv`), that what destruction finishes was posted before (`LifeInv`), that a job is
  queued under its own descriptor (`PendingInv`), and that a new key was never given out (`KeysInv`, by
  counting the jobs there have been).  `QueuedJobsHaveTakers` compares the number of queued jobs with that of tasks to come;
  a step that takes a job without a task (a waiter's) only makes the first smaller (`TakersInv`).
  `PostsInv` follows from fresh jobs: a thread that is about to post is alone with its job.

- **PipelineCacheFileProofs**: `TypeCorrectness`, `PublishedWholeInvariant` and `LoadedWholeInvariant`.
  The inductive invariant follows a save through its calls: there is one at a time (`OneSave`, from
  `persist_mutex_`), so nobody else touches the temporary file; it is as long as the save once it is
  truncated, its first `written` blocks are the save's, and at the rename it is whole and synced (`TempOf`).
  What has the name of the cache was renamed to it, so a stop leaves it alone (`Whole`).
- **DescriptorPoolsProofs**: `TypeCorrectness` and `SetsOfPipelineInvariant`.  The property is about sets in
  use; the invariant says the same of all that a pool remembers, used or unused: whatever is under a key
  was allocated with that key (`PoolsByKey`).  Keys are positive, so those of variants, negated, collide with none
  (`KeysApart`).  `SetsNotSharedInvariant` rests on two more parts: a set is remembered once, in one pool, used or
  unused (`PlacesInv`), and what a live buffer uses is among the used sets of the buffer's own pool, each use
  another set (`UsedInv`); so a set that is reused, which is an unused one, is in nobody's hands.  A pool whose
  used sets become unused has no buffer left.
- **KHRSwapchainProofs**: `TypeCorrectness`, `FrameReadyWhenUsedInvariant` and `BufferOutlivesGpuInvariant`.
  They hold together: a frame is submitted with its fence reset, hence is not in the queue, hence
  has one submission at most (`OneSubmission`); so the fence that a completion signals is that of no
  frame in hand, and a signalled fence means that the semaphore is idle (`SynchronizersAgree`).  Submissions of
  an implementation that is gone are `None`; there are none before a wait for the device has failed.

So every invariant that a passing run checks is proved, and both refinements in their safety part.  Left to TLC is
what the prover cannot state facts about, fairness and `ENABLED`: `TerminationTakesEffect`,
`DueTasksAreServed`, `MergeEndsWait`, `DestructorReturns`, `CallbackComes`, `LibraryUnlocks`,
`WaitersReturn`, `AcquireReturns`, and the fair half of `ImplementsExecutor`.  The inductive
invariants were checked with TLC before they were proved.  No definition is recursive.

## Not modelled, and why

- Linux's loop stands for that of every platform; those of Darwin, Android, Fuchsia and Windows wait
  on a primitive of their system and call the same `MessageLoopImpl`.
- Task observers, the thread-local task grade, closures: no control of the modelled parts depends on
  them.
- Data races on `resource_manager_` in Shutdown, on the leases of the shared merger and on the pending command
  buffers of a batch: the model reads a value from before or after, never a torn one.
- The Android swapchain: its frames are those of `KHRSwapchain`, but who may draw to a buffer depends on
  the fences and callbacks of Android's compositor, of which the source says little.
- A client with several drawables at a time, Android's unlimited resize loop, and the choice of format,
  alpha mode and extent (`KHRSwapchain`); the translation of a descriptor into a Vulkan pipeline
  (`Pipelines`).
- The GPU tracer (debug builds), latches and waitable events, the task runner checker: small and, beside
  the tracer, one lock each.
- Geometry, 18,000 of the 60,000 lines with its tests, is floating point and generic templates, out of
  TLC's reach.  Passes, render targets, formats, capabilities and libraries translate descriptions into
  calls of Vulkan in one thread; files, mappings and tracing wrap the system.  So the map covers a small
  part of the lines of the repository, and most of those where threads meet.

Hazards of the code beside those in `PROJECT.json`, with what the modules say of them:

- A `Terminate` between `DoRun`'s test and `Run`'s `running_ = true` is overwritten
  (`message_loop_linux.cc:48`): reachable in `TaskQueues`, and no text promises otherwise.
- `Thread::Join` posts the task that ends the loop; while its queue is subsumed the owner's thread
  runs it (`thread.cc:175`).
- A client that merges while another has merged gets no lease recorded (`shared_thread_merger.cc:29`).
- Each worker takes one task after the shutdown, the rest are dropped (`concurrent_message_loop.cc:110`):
  `Executor` says what is left of the promise.
- A compute job left in a destroyed pool breaks its `std::promise`, graphics jobs do not
  (`pipeline_library_vk.cc:222`): `Pipelines` has the outcome.
- `cache_dirty_` is cleared when a save is posted: what is compiled after is saved with a later request
  (`pipeline_library_vk.cc:278`); two processes with one cache directory share the temporary file
  (`file_posix.cc:200`).
- A failed allocation comes back as a null set from the unused ones (`descriptor_pool_vk.cc:89`).

## Plan

1. `KHRSwapchain` with several drawables, and the GPU tracer whose frames it marks.
2. Latches and waitable events, with their proofs; last, the task runner checker over `TaskQueues`.

---------------------------- MODULE KHRSwapchain ----------------------------
(***************************************************************************)
(* KHRSwapchain and KHRSwapchainImpl: drawables for the images of a window *)
(* surface, with kMaxFramesInFlight frames under way on the GPU.  The      *)
(* fence of a frame is reset when a drawable is acquired and signalled     *)
(* when the final command buffer that Present submits has been executed;   *)
(* an implementation that is out of date, or not of the wanted size, is    *)
(* torn down and made again within the acquisition.                        *)
(*                                                                         *)
(* A client, the GPU, the presentation engine and the window system act.   *)
(* The client holds one drawable at a time, and gives its final command    *)
(* buffer while it holds one.  The Context lives.  The resize loop is that *)
(* of the platforms other than Android, which has no limit of retries.     *)
(*                                                                         *)
(* The tear-down waits for the device to be idle and ignores the result.   *)
(* When that wait fails, the synchronizers and the final command buffers   *)
(* go while the GPU may execute their submissions, which are None then.    *)
(***************************************************************************)
EXTENDS Integers, Sequences

CONSTANTS
  Images,               \* of the swapchain
  Sizes,                \* of surfaces and swapchains
  kMaxFramesInFlight,
  kMaxResizeAttempts,
  MaxFailedWaits,       \* bound: the waits for an idle device that fail
  None                  \* no image, or a submission whose synchronizer is gone

Frames == 0 .. kMaxFramesInFlight - 1

\* Enough to tell the final command buffers that are referenced from a new one.
CommandBuffers == 1 .. kMaxFramesInFlight + 1

NoBuffer == 0

\* Of the final command buffers.
Submissions == [frame: Frames, image: Images, buffer: CommandBuffers]

ASSUME FramesAssumption ==
  /\ kMaxFramesInFlight \in Nat \ {0} /\ kMaxResizeAttempts \in Nat
  /\ MaxFailedWaits \in Nat
  /\ None \notin Images \cup Submissions

VARIABLES
  valid,        \* KHRSwapchain::IsValid()
  size,         \* size_ of the KHRSwapchain
  implSize,     \* size_ of its impl_
  extent,       \* the current extent of the surface
  frame,        \* current_frame_
  sync,         \* synchronizers_
  image,        \* whose each image is
  gpu,          \* the submissions that the graphics queue has not executed
  drawable,     \* the image of the client's Surface, or None
  pc,           \* where AcquireNextDrawable is
  retry,        \* resize_retry_count
  failedWaits   \* how many waits for an idle device have failed

vars == <<valid, size, implSize, extent, frame, sync, image, gpu, drawable, pc, retry, failedWaits>>

\* acquire starts signalled; render_ready is "armed" from the acquisition of an
\* image to the execution of the submission that waits for it.
KHRFrameSynchronizer == [fence |-> "signalled", ready |-> "idle", buffer |-> NoBuffer, onscreen |-> FALSE]

TypeOK ==
  /\ valid \in BOOLEAN
  /\ {size, implSize, extent} \subseteq Sizes
  /\ frame \in Frames
  /\ sync \in [Frames -> [fence: {"signalled", "reset", "pending"}, ready: {"idle", "armed"},
                          buffer: CommandBuffers \cup {NoBuffer}, onscreen: BOOLEAN]]
  /\ image \in [Images -> {"free", "acquired", "queued"}]
  /\ gpu \in Seq(Submissions \cup {None})
  /\ drawable \in Images \cup {None}
  /\ pc \in {"idle", "fence", "image", "recreate"}
  /\ retry \in 0 .. kMaxResizeAttempts
  /\ failedWaits \in 0 .. MaxFailedWaits

-----------------------------------------------------------------------------
(* Acquiring a drawable.                                                   *)

\* A fault: the index of the frame is not wrapped.
FrameAfter(f) == f + 1

NextFrame(f) == (f + 1) % kMaxFramesInFlight

\* KHRSwapchain::AcquireNextDrawable, up to the wait for the fence of the next
\* frame.  An invalid swapchain has no drawables.
AcquireNextDrawable ==
  /\ pc = "idle" /\ drawable = None
  /\ valid
  /\ frame' = NextFrame(frame)
  /\ pc' = "fence"
  /\ retry' = 0
  /\ UNCHANGED <<valid, size, implSize, extent, sync, image, gpu, drawable, failedWaits>>

\* What KHRSwapchain::AcquireNextDrawable does with the result of impl_: the
\* surface, which may be null, goes to the client, or it is dropped.
Return(outOfDate, surface) ==
  IF ~outOfDate /\ size = implSize THEN pc' = "idle" /\ drawable' = surface
  ELSE pc' = "recreate" /\ UNCHANGED drawable

\* A fault: the fence stays signalled.
WaitOnly ==
  /\ pc = "fence"
  /\ sync[frame].fence = "signalled"
  /\ pc' = "image"
  /\ UNCHANGED <<valid, size, implSize, extent, frame, sync, image, gpu, drawable, retry, failedWaits>>

\* KHRFrameSynchronizer::WaitForFence, without a limit of time: it returns when
\* the fence is signalled, and resets it.
WaitForFence ==
  /\ pc = "fence"
  /\ sync[frame].fence = "signalled"
  /\ sync' = [sync EXCEPT ![frame].fence = "reset"]
  /\ pc' = "image"
  /\ UNCHANGED <<valid, size, implSize, extent, frame, image, gpu, drawable, retry, failedWaits>>

\* The wait or the reset fails.
WaitForFenceFails ==
  /\ pc = "fence"
  /\ Return(FALSE, None)
  /\ UNCHANGED <<valid, size, implSize, extent, frame, sync, image, gpu, retry, failedWaits>>

\* acquireNextImageKHR has an image, which the client gets unless the swapchain
\* is suboptimal.
ImageAcquired ==
  /\ pc = "image"
  /\ \E i \in Images, suboptimal \in BOOLEAN :
       /\ image[i] = "free"
       /\ image' = [image EXCEPT ![i] = "acquired"]
       /\ Return(suboptimal, IF suboptimal THEN None ELSE i)
  /\ sync' = [sync EXCEPT ![frame].ready = "armed"]
  /\ UNCHANGED <<valid, size, implSize, extent, frame, gpu, retry, failedWaits>>

\* It has none: out of date, or an error that cannot be recovered from; or its
\* index is invalid, and the semaphore will be signalled all the same.
NoImage ==
  /\ pc = "image"
  /\ \/ \E outOfDate \in BOOLEAN : Return(outOfDate, None)
        /\ UNCHANGED sync
     \/ /\ Return(FALSE, None)
        /\ sync' = [sync EXCEPT ![frame].ready = "armed"]
  /\ UNCHANGED <<valid, size, implSize, extent, frame, image, gpu, retry, failedWaits>>

-----------------------------------------------------------------------------
(* Recreation.                                                             *)

NewSynchronizers == [f \in Frames |-> KHRFrameSynchronizer]

\* GetCurrentUnderlyingSurfaceSize().value_or(size_): the query may fail, or
\* the surface leave its size to the swapchain.
UnderlyingSizes == {extent, size}

GiveUp ==
  /\ pc = "recreate" /\ retry = kMaxResizeAttempts
  /\ pc' = "idle"
  /\ UNCHANGED <<valid, size, implSize, extent, frame, sync, image, gpu, drawable, retry, failedWaits>>

\* A fault: the implementation is destroyed at once.
NoWait(fails) == fails => failedWaits < MaxFailedWaits

\* The wait ends when the queue has executed everything, or it fails.
WaitIdle(fails) == IF fails THEN failedWaits < MaxFailedWaits ELSE gpu = <<>>

\* The synchronizers go, with the final command buffers they hold, whatever
\* the wait has returned.
DestroySwapchain ==
  /\ \E fails \in BOOLEAN :
       /\ WaitIdle(fails)
       /\ failedWaits' = failedWaits + (IF fails THEN 1 ELSE 0)
  /\ gpu' = [n \in 1 .. Len(gpu) |-> None]
  /\ sync' = NewSynchronizers
  /\ image' = [i \in Images |-> "free"]

\* A fault: retries are not counted.
SameRetry(n) == 0

NextRetry(n) == n + 1

\* The new implementation starts at the frame before the first, and the
\* acquisition starts again, up to the wait for the fence.
Recreate ==
  /\ pc = "recreate" /\ retry < kMaxResizeAttempts
  /\ DestroySwapchain
  /\ \E s \in UnderlyingSizes : size' = s /\ implSize' = s
  /\ frame' = NextFrame(kMaxFramesInFlight - 1)
  /\ pc' = "fence"
  /\ retry' = NextRetry(retry)
  /\ UNCHANGED <<valid, extent, drawable>>

\* The swapchain, its images or a synchronizer cannot be created: the old
\* implementation is gone with its surface.
RecreateFails ==
  /\ pc = "recreate" /\ retry < kMaxResizeAttempts
  /\ DestroySwapchain
  /\ size' \in UnderlyingSizes
  /\ valid' = FALSE
  /\ pc' = "idle"
  /\ UNCHANGED <<implSize, extent, frame, drawable, retry>>

\* ~KHRSwapchain; a Surface may outlive it.
Destroy ==
  /\ pc = "idle" /\ valid
  /\ DestroySwapchain
  /\ valid' = FALSE
  /\ UNCHANGED <<size, implSize, extent, frame, drawable, pc, retry>>

-----------------------------------------------------------------------------
(* The client with its drawable.                                           *)

\* The submissions of this implementation.
Submitted == {gpu[n] : n \in 1 .. Len(gpu)} \ {None}

\* A new CommandBuffer: one that nobody refers to.
NewBuffers ==
  {b \in CommandBuffers : (\A f \in Frames : sync[f].buffer # b) /\ (\A s \in Submitted : s.buffer # b)}

AddFinalCommandBuffer ==
  /\ pc = "idle" /\ drawable # None /\ valid
  /\ \E b \in NewBuffers : sync' = [sync EXCEPT ![frame].buffer = b, ![frame].onscreen = TRUE]
  /\ UNCHANGED <<valid, size, implSize, extent, frame, image, gpu, drawable, pc, retry, failedWaits>>

\* The buffer that Present submits: what the client gave, else one of its own.
FinalBuffers == IF sync[frame].onscreen THEN {sync[frame].buffer} ELSE NewBuffers

\* The queue takes the final command buffer, to wait for render_ready and to
\* signal the fence.
SubmitFinal(b) ==
  /\ sync' = [sync EXCEPT ![frame].fence = "pending", ![frame].buffer = b, ![frame].onscreen = FALSE]
  /\ gpu' = Append(gpu, [frame |-> frame, image |-> drawable, buffer |-> b])

\* Surface::Present.  The result of the queue's Present is only logged: when it
\* was an error, the image is not given back.
Present ==
  /\ pc = "idle" /\ drawable # None /\ valid
  /\ \E b \in FinalBuffers : SubmitFinal(b)
  /\ \E owner \in {"queued", "acquired"} : image' = [image EXCEPT ![drawable] = owner]
  /\ drawable' = None
  /\ UNCHANGED <<valid, size, implSize, extent, frame, pc, retry, failedWaits>>

\* There is no command buffer, or the barrier, its end or the submission fails.
PresentFails ==
  /\ pc = "idle" /\ drawable # None /\ valid
  /\ \E b \in FinalBuffers \cup (IF sync[frame].onscreen THEN {} ELSE {NoBuffer}) :
       sync' = [sync EXCEPT ![frame].buffer = b, ![frame].onscreen = FALSE]
  /\ drawable' = None
  /\ UNCHANGED <<valid, size, implSize, extent, frame, image, gpu, pc, retry, failedWaits>>

\* The client drops the Surface; Present of one that has outlived the swapchain
\* does no more.
DropDrawable ==
  /\ pc = "idle" /\ drawable # None
  /\ drawable' = None
  /\ UNCHANGED <<valid, size, implSize, extent, frame, sync, image, gpu, pc, retry, failedWaits>>

UpdateSurfaceSize ==
  /\ pc = "idle"
  /\ size' \in Sizes
  /\ UNCHANGED <<valid, implSize, extent, frame, sync, image, gpu, drawable, pc, retry, failedWaits>>

-----------------------------------------------------------------------------
(* The GPU, the presentation engine and the window system.                 *)

\* The oldest submission is executed.
FinishSubmission ==
  /\ gpu # <<>>
  /\ IF Head(gpu) = None THEN UNCHANGED sync
     ELSE sync' = [sync EXCEPT ![Head(gpu).frame].fence = "signalled", ![Head(gpu).frame].ready = "idle"]
  /\ gpu' = Tail(gpu)
  /\ UNCHANGED <<valid, size, implSize, extent, frame, image, drawable, pc, retry, failedWaits>>

\* An image that was presented may be acquired again.
ReleaseImage(i) ==
  /\ image[i] = "queued"
  /\ \A s \in Submitted : s.image # i
  /\ image' = [image EXCEPT ![i] = "free"]
  /\ UNCHANGED <<valid, size, implSize, extent, frame, sync, gpu, drawable, pc, retry, failedWaits>>

ResizeSurface ==
  /\ extent' \in Sizes
  /\ UNCHANGED <<valid, size, implSize, frame, sync, image, gpu, drawable, pc, retry, failedWaits>>

-----------------------------------------------------------------------------
Init ==
  /\ valid = TRUE
  /\ size \in Sizes /\ implSize = size /\ extent = size
  /\ frame = kMaxFramesInFlight - 1
  /\ sync = NewSynchronizers
  /\ image = [i \in Images |-> "free"]
  /\ gpu = <<>>
  /\ drawable = None
  /\ pc = "idle"
  /\ retry = 0
  /\ failedWaits = 0

Next ==
  \/ AcquireNextDrawable
  \/ WaitForFence
  \/ WaitForFenceFails
  \/ ImageAcquired
  \/ NoImage
  \/ GiveUp
  \/ Recreate
  \/ RecreateFails
  \/ Destroy
  \/ AddFinalCommandBuffer
  \/ Present
  \/ PresentFails
  \/ DropDrawable
  \/ UpdateSurfaceSize
  \/ FinishSubmission
  \/ \E i \in Images : ReleaseImage(i)
  \/ ResizeSurface

\* The steps of an acquisition that can be taken are; the queue executes what it
\* was given, and the presentation engine gives images back.
Fairness ==
  /\ WF_vars(WaitForFence) /\ WF_vars(ImageAcquired)
  /\ WF_vars(GiveUp) /\ WF_vars(Recreate)
  /\ WF_vars(FinishSubmission) /\ \A i \in Images : WF_vars(ReleaseImage(i))

Spec == Init /\ [][Next]_vars /\ Fairness

-----------------------------------------------------------------------------
(* Properties.                                                             *)

(* What Vulkan asks of acquireNextImageKHR and of the queue's Submit: the  *)
(* semaphore of the frame has no signal or wait under way when it is given *)
(* to the acquisition, and when the client presents, the fence of the same *)
(* frame is reset and its semaphore is about to be signalled.              *)
FrameReadyWhenUsed ==
  valid =>
    /\ pc = "image" => sync[frame].ready = "idle" /\ sync[frame].fence = "reset"
    /\ drawable # None =>
         /\ sync[frame].ready = "armed" /\ sync[frame].fence = "reset"
         /\ image[drawable] = "acquired"

(* The final command buffer of every submission that the GPU has is still  *)
(* referenced by the synchronizer of its frame, through retries, failures  *)
(* and the frames that follow: it is not freed while it is executed.  The  *)
(* exception is a submission of an implementation that was torn down after *)
(* a failed wait for the idle device; those of its successors are kept.    *)
BufferOutlivesGpu ==
  \A n \in 1 .. Len(gpu) :
    IF gpu[n] = None THEN failedWaits > 0
    ELSE /\ sync[gpu[n].frame].buffer = gpu[n].buffer
         /\ sync[gpu[n].frame].fence = "pending"

\* A frame was acquired, and its fence will not be signalled: the drawable was
\* dropped, or the acquisition or Present failed.
FrameLost ==
  \E f \in Frames :
    sync[f].fence = "reset" /\ (f = frame => pc \in {"idle", "fence"} /\ drawable = None)

\* An image was acquired and will not be presented.
ImageLost ==
  pc \in {"idle", "fence", "image"} /\ \E i \in Images : image[i] = "acquired" /\ i # drawable

(* An acquisition returns: as long as no drawable was dropped and no       *)
(* acquisition and no Present has failed, the infinite waits for the       *)
(* fence, for an image and for the idle device end, and the swapchain is   *)
(* not recreated for ever, whatever sizes and extents follow one another.  *)
(* After one of these a frame or an image may be lost, and a wait for it   *)
(* need not end.                                                           *)
AcquireReturns == (pc # "idle" /\ ~FrameLost /\ ~ImageLost) ~> (pc = "idle" \/ FrameLost \/ ImageLost)
=============================================================================

------------------------- MODULE KHRSwapchainProofs -------------------------
(***************************************************************************)
(* Proofs about KHRSwapchain, for any images, sizes, frames in flight,     *)
(* number of resize attempts and number of failed waits.                   *)
(***************************************************************************)
EXTENDS KHRSwapchain, SequenceTheorems, TLAPS

\* A frame has one submission at most: its fence is pending from Present to the
\* execution, and another Present needs it reset.
OneSubmission ==
  \A m, n \in 1 .. Len(gpu) :
    gpu[m] # None /\ gpu[n] # None /\ gpu[m].frame = gpu[n].frame => m = n

\* A signalled fence says that the semaphore of its frame was consumed, too; a
\* final command buffer of the client is one.
SynchronizersAgree ==
  \A f \in Frames :
    /\ sync[f].fence = "signalled" => sync[f].ready = "idle"
    /\ sync[f].onscreen => sync[f].buffer # NoBuffer

\* There is no drawable during an acquisition, and only a valid swapchain makes one.
DrawableAtRest ==
  /\ drawable # None => pc = "idle"
  /\ pc # "idle" => valid

IInv ==
  /\ TypeOK
  /\ OneSubmission
  /\ SynchronizersAgree
  /\ DrawableAtRest
  /\ FrameReadyWhenUsed
  /\ BufferOutlivesGpu

LEMMA InitHolds == Init => IInv
<1> SUFFICES ASSUME Init PROVE IInv
  OBVIOUS
<1> USE FramesAssumption DEF Init, NewSynchronizers, KHRFrameSynchronizer, Frames, NoBuffer
<1>1. gpu = <<>> /\ Len(gpu) = 0
  OBVIOUS
<1>2. TypeOK
  BY <1>1 DEF TypeOK
<1>3. OneSubmission /\ BufferOutlivesGpu
  BY <1>1 DEF OneSubmission, BufferOutlivesGpu
<1>4. SynchronizersAgree /\ DrawableAtRest /\ FrameReadyWhenUsed
  BY DEF SynchronizersAgree, DrawableAtRest, FrameReadyWhenUsed
<1> QED BY <1>2, <1>3, <1>4 DEF IInv

\* The next frame is one of the frames, as the index is wrapped.
LEMMA NextFrameType == \A f \in Frames : NextFrame(f) \in Frames
  BY FramesAssumption DEF Frames, NextFrame

\* What the GPU has are submissions of the frames, or of frames that are gone.
LEMMA SubmissionType ==
  ASSUME TypeOK
  PROVE  /\ gpu \in Seq(Submissions \cup {None}) /\ Len(gpu) \in Nat
         /\ \A n \in 1 .. Len(gpu) :
              gpu[n] # None => gpu[n] \in Submissions /\ gpu[n].frame \in Frames
<1>1. gpu \in Seq(Submissions \cup {None})
  BY DEF TypeOK
<1>2. Len(gpu) \in Nat /\ \A n \in 1 .. Len(gpu) : gpu[n] \in Submissions \cup {None}
  BY <1>1, ElementOfSeq, LenProperties
<1>3. \A u \in Submissions : u.frame \in Frames
  BY DEF Submissions
<1> QED BY <1>1, <1>2, <1>3

\* Of a frame whose fence is not pending the GPU has no submission.
LEMMA NotSubmitted ==
  ASSUME BufferOutlivesGpu, NEW f, sync[f].fence # "pending"
  PROVE  \A n \in 1 .. Len(gpu) : gpu[n] # None => gpu[n].frame # f
  BY DEF BufferOutlivesGpu

\* The frame of the client's drawable has none.
LEMMA DrawableNotSubmitted ==
  ASSUME IInv, drawable # None, valid
  PROVE  /\ pc = "idle" /\ frame \in Frames
         /\ sync[frame].ready = "armed" /\ sync[frame].fence = "reset"
         /\ image[drawable] = "acquired" /\ drawable \in Images
         /\ \A n \in 1 .. Len(gpu) : gpu[n] # None => gpu[n].frame # frame
<1>1. sync[frame].fence = "reset"
  BY DEF IInv, FrameReadyWhenUsed
<1> QED BY <1>1, NotSubmitted DEF IInv, FrameReadyWhenUsed, DrawableAtRest, TypeOK

-----------------------------------------------------------------------------
(* The steps of an acquisition.                                            *)

\* The steps that leave the synchronizers and the queue as they are.
LEMMA AcquireStepsHold ==
  ASSUME IInv,
         \/ AcquireNextDrawable \/ WaitForFenceFails \/ GiveUp
         \/ NoImage /\ UNCHANGED sync
  PROVE  IInv'
<1>1. UNCHANGED <<valid, size, implSize, extent, sync, image, gpu, failedWaits>>
  BY DEF AcquireNextDrawable, WaitForFenceFails, NoImage, GiveUp
<1>2. frame' \in Frames /\ pc' \in {"idle", "fence", "recreate"} /\ retry' \in 0 .. kMaxResizeAttempts
  BY NextFrameType, FramesAssumption
     DEF AcquireNextDrawable, WaitForFenceFails, NoImage, GiveUp, Return, IInv, TypeOK
<1>3. drawable' = None
  BY DEF AcquireNextDrawable, WaitForFenceFails, NoImage, GiveUp, Return, IInv, DrawableAtRest
<1>4. TypeOK'
  BY <1>1, <1>2, <1>3 DEF IInv, TypeOK
<1>5. OneSubmission' /\ BufferOutlivesGpu' /\ SynchronizersAgree'
  BY <1>1 DEF IInv, OneSubmission, BufferOutlivesGpu, SynchronizersAgree
<1>6. DrawableAtRest' /\ FrameReadyWhenUsed'
  BY <1>1, <1>2, <1>3
     DEF DrawableAtRest, FrameReadyWhenUsed, IInv, AcquireNextDrawable, WaitForFenceFails, NoImage, GiveUp
<1> QED BY <1>4, <1>5, <1>6 DEF IInv

\* What arming the semaphore of a frame whose fence is reset leaves true.
LEMMA ArmHolds ==
  ASSUME IInv, frame \in Frames, sync[frame].fence = "reset",
         sync' = [sync EXCEPT ![frame].ready = "armed"],
         UNCHANGED <<gpu, failedWaits>>
  PROVE  /\ sync' \in [Frames -> [fence: {"signalled", "reset", "pending"}, ready: {"idle", "armed"},
                                  buffer: CommandBuffers \cup {NoBuffer}, onscreen: BOOLEAN]]
         /\ sync'[frame].ready = "armed" /\ sync'[frame].fence = "reset"
         /\ OneSubmission' /\ BufferOutlivesGpu' /\ SynchronizersAgree'
<1>1. /\ sync' \in [Frames -> [fence: {"signalled", "reset", "pending"}, ready: {"idle", "armed"},
                               buffer: CommandBuffers \cup {NoBuffer}, onscreen: BOOLEAN]]
      /\ sync'[frame].ready = "armed" /\ sync'[frame].onscreen = sync[frame].onscreen
      /\ \A f \in Frames : sync'[f].fence = sync[f].fence /\ sync'[f].buffer = sync[f].buffer
      /\ \A f \in Frames \ {frame} : sync'[f] = sync[f]
  BY DEF IInv, TypeOK
<1>2. OneSubmission' /\ BufferOutlivesGpu'
  BY <1>1, SubmissionType DEF IInv, OneSubmission, BufferOutlivesGpu
<1>3. SynchronizersAgree'
  BY <1>1 DEF IInv, SynchronizersAgree
<1> QED BY <1>1, <1>2, <1>3

\* The index is invalid: the semaphore is armed, and there is no drawable.
LEMMA InvalidImageHolds ==
  ASSUME IInv, NoImage, Return(FALSE, None), sync' = [sync EXCEPT ![frame].ready = "armed"]
  PROVE  IInv'
<1>1. /\ UNCHANGED <<valid, size, implSize, extent, frame, image, gpu, retry, failedWaits>>
      /\ pc = "image" /\ pc' \in {"idle", "recreate"}
  BY DEF NoImage, Return
<1>2. drawable = None /\ drawable' = None /\ valid /\ frame \in Frames
  BY <1>1 DEF Return, IInv, DrawableAtRest, TypeOK
<1>3. sync[frame].fence = "reset"
  BY <1>1, <1>2 DEF IInv, FrameReadyWhenUsed
<1>4. /\ sync' \in [Frames -> [fence: {"signalled", "reset", "pending"}, ready: {"idle", "armed"},
                               buffer: CommandBuffers \cup {NoBuffer}, onscreen: BOOLEAN]]
      /\ OneSubmission' /\ BufferOutlivesGpu' /\ SynchronizersAgree'
  BY <1>1, <1>2, <1>3, ArmHolds
<1>5. TypeOK'
  BY <1>1, <1>2, <1>4 DEF IInv, TypeOK
<1>6. DrawableAtRest' /\ FrameReadyWhenUsed'
  BY <1>1, <1>2 DEF DrawableAtRest, FrameReadyWhenUsed
<1> QED BY <1>4, <1>5, <1>6 DEF IInv

\* The fence was signalled, so the semaphore is idle when the image is asked for.
LEMMA WaitForFenceHolds ==
  ASSUME IInv, WaitForFence
  PROVE  IInv'
<1>1. frame \in Frames /\ sync[frame].ready = "idle" /\ sync[frame].fence = "signalled"
  BY DEF IInv, TypeOK, WaitForFence, SynchronizersAgree
<1>2. \A n \in 1 .. Len(gpu) : gpu[n] # None => gpu[n].frame # frame
  BY <1>1, NotSubmitted DEF IInv
<1>3. drawable = None
  BY DEF IInv, DrawableAtRest, WaitForFence
<1>4. /\ sync' \in [Frames -> [fence: {"signalled", "reset", "pending"}, ready: {"idle", "armed"},
                               buffer: CommandBuffers \cup {NoBuffer}, onscreen: BOOLEAN]]
      /\ sync'[frame].fence = "reset" /\ sync'[frame].ready = "idle"
      /\ sync'[frame].buffer = sync[frame].buffer /\ sync'[frame].onscreen = sync[frame].onscreen
      /\ \A f \in Frames \ {frame} : sync'[f] = sync[f]
  BY <1>1 DEF WaitForFence, IInv, TypeOK
<1>5. TypeOK'
  BY <1>4 DEF WaitForFence, IInv, TypeOK
<1>6. \A n \in 1 .. Len(gpu) : gpu[n] # None => gpu[n].frame \in Frames
  BY SubmissionType DEF IInv
<1>7. OneSubmission' /\ BufferOutlivesGpu'
  BY <1>2, <1>4, <1>6 DEF WaitForFence, IInv, OneSubmission, BufferOutlivesGpu
<1>8. SynchronizersAgree'
  BY <1>4 DEF IInv, SynchronizersAgree
<1>9. DrawableAtRest' /\ FrameReadyWhenUsed'
  BY <1>3, <1>4 DEF WaitForFence, IInv, DrawableAtRest, FrameReadyWhenUsed
<1> QED BY <1>5, <1>7, <1>8, <1>9 DEF IInv

\* The acquisition arms the semaphore of a frame whose fence is reset.
LEMMA ImageAcquiredHolds ==
  ASSUME IInv, ImageAcquired
  PROVE  IInv'
<1>1. PICK i \in Images, suboptimal \in BOOLEAN :
        /\ image[i] = "free"
        /\ image' = [image EXCEPT ![i] = "acquired"]
        /\ Return(suboptimal, IF suboptimal THEN None ELSE i)
  BY DEF ImageAcquired
<1>2. UNCHANGED <<valid, size, implSize, extent, frame, gpu, retry, failedWaits>> /\ pc = "image"
  BY DEF ImageAcquired
<1>3. drawable = None /\ frame \in Frames
  BY <1>2 DEF IInv, DrawableAtRest, TypeOK
<1>4. /\ pc' \in {"idle", "recreate"}
      /\ drawable' \in {None, i}
      /\ drawable' # None => pc' = "idle" /\ drawable' = i
  BY <1>1, <1>3 DEF Return
<1>5. sync[frame].fence = "reset"
  BY <1>2 DEF IInv, FrameReadyWhenUsed, DrawableAtRest
<1>6. /\ sync' \in [Frames -> [fence: {"signalled", "reset", "pending"}, ready: {"idle", "armed"},
                               buffer: CommandBuffers \cup {NoBuffer}, onscreen: BOOLEAN]]
      /\ sync'[frame].ready = "armed" /\ sync'[frame].fence = "reset"
      /\ OneSubmission' /\ BufferOutlivesGpu' /\ SynchronizersAgree'
  BY <1>2, <1>3, <1>5, ArmHolds DEF ImageAcquired
<1>7. image' \in [Images -> {"free", "acquired", "queued"}] /\ image'[i] = "acquired"
  BY <1>1 DEF IInv, TypeOK
<1>8. TypeOK'
  BY <1>1, <1>2, <1>4, <1>6, <1>7 DEF IInv, TypeOK
<1>9. DrawableAtRest' /\ FrameReadyWhenUsed'
  BY <1>2, <1>3, <1>4, <1>6, <1>7 DEF IInv, DrawableAtRest, FrameReadyWhenUsed
<1> QED BY <1>6, <1>8, <1>9 DEF IInv

\* When an implementation is torn down the queue is empty, or the wait failed.
LEMMA DestroySwapchainHolds ==
  ASSUME IInv, DestroySwapchain
  PROVE  /\ gpu' \in Seq(Submissions \cup {None})
         /\ failedWaits' \in 0 .. MaxFailedWaits
         /\ sync' \in [Frames -> [fence: {"signalled", "reset", "pending"}, ready: {"idle", "armed"},
                                  buffer: CommandBuffers \cup {NoBuffer}, onscreen: BOOLEAN]]
         /\ image' \in [Images -> {"free", "acquired", "queued"}]
         /\ OneSubmission' /\ BufferOutlivesGpu' /\ SynchronizersAgree'
<1>1. PICK fails \in BOOLEAN :
        WaitIdle(fails) /\ failedWaits' = failedWaits + (IF fails THEN 1 ELSE 0)
  BY DEF DestroySwapchain
<1>2. failedWaits' \in 0 .. MaxFailedWaits
  BY <1>1, FramesAssumption DEF WaitIdle, IInv, TypeOK
<1>3. Len(gpu) \in Nat
  BY SubmissionType DEF IInv
<1>4. gpu' \in Seq(Submissions \cup {None}) /\ Len(gpu') = Len(gpu)
  <2>1. gpu' = [n \in 1 .. Len(gpu) |-> None]
    BY DEF DestroySwapchain
  <2> QED BY <1>3, <2>1, IsASeq, LenProperties
<1>5. \A n \in 1 .. Len(gpu') : gpu'[n] = None
  BY <1>4 DEF DestroySwapchain
<1>6. failedWaits' > 0 \/ Len(gpu') = 0
  BY <1>1, <1>4, FramesAssumption DEF WaitIdle, IInv, TypeOK
<1>7. OneSubmission' /\ BufferOutlivesGpu'
  BY <1>3, <1>4, <1>5, <1>6 DEF OneSubmission, BufferOutlivesGpu
<1> QED BY <1>2, <1>4, <1>7
        DEF DestroySwapchain, NewSynchronizers, KHRFrameSynchronizer, NoBuffer, SynchronizersAgree

LEMMA RecreationHolds ==
  ASSUME IInv, Recreate \/ RecreateFails \/ Destroy
  PROVE  IInv'
<1>1. DestroySwapchain /\ UNCHANGED <<extent, drawable>>
  BY DEF Recreate, RecreateFails, Destroy
<1>2. \/ pc = "recreate" /\ pc' = "fence" /\ valid' = valid
      \/ valid' = FALSE /\ pc' = "idle"
  BY DEF Recreate, RecreateFails, Destroy
<1>3. frame' \in Frames /\ retry' \in 0 .. kMaxResizeAttempts /\ {size', implSize'} \subseteq Sizes
  <2>1. UnderlyingSizes \subseteq Sizes
    BY DEF UnderlyingSizes, IInv, TypeOK
  <2>2. kMaxFramesInFlight - 1 \in Frames
    BY FramesAssumption DEF Frames
  <2>3. CASE Recreate
    <3>1. frame' \in Frames
      BY <2>2, <2>3, NextFrameType DEF Recreate
    <3>2. retry' \in 0 .. kMaxResizeAttempts
      BY <2>3, FramesAssumption DEF Recreate, NextRetry, IInv, TypeOK
    <3> QED BY <2>1, <2>3, <3>1, <3>2 DEF Recreate
  <2>4. CASE RecreateFails \/ Destroy
    BY <2>1, <2>4 DEF RecreateFails, Destroy, IInv, TypeOK
  <2> QED BY <2>3, <2>4
<1>4. TypeOK'
  BY <1>1, <1>2, <1>3, DestroySwapchainHolds DEF IInv, TypeOK
<1>5. DrawableAtRest' /\ FrameReadyWhenUsed'
  BY <1>1, <1>2 DEF IInv, DrawableAtRest, FrameReadyWhenUsed
<1> QED BY <1>1, <1>4, <1>5, DestroySwapchainHolds DEF IInv

-----------------------------------------------------------------------------
(* The client with its drawable.                                           *)

\* A buffer is kept in the synchronizer of a frame that is not submitted.
LEMMA KeepBufferHolds ==
  ASSUME IInv, drawable # None, valid,
         AddFinalCommandBuffer \/ PresentFails
  PROVE  IInv'
<1>1. PICK b \in CommandBuffers \cup {NoBuffer}, o \in BOOLEAN :
        /\ sync' = [sync EXCEPT ![frame].buffer = b, ![frame].onscreen = o]
        /\ o => b \in CommandBuffers
  BY DEF AddFinalCommandBuffer, PresentFails, FinalBuffers, NewBuffers, IInv, TypeOK
<1>2. /\ UNCHANGED <<valid, size, implSize, extent, frame, image, gpu, pc, retry, failedWaits>>
      /\ drawable' \in {drawable, None}
  BY DEF AddFinalCommandBuffer, PresentFails
<1>3. /\ sync' \in [Frames -> [fence: {"signalled", "reset", "pending"}, ready: {"idle", "armed"},
                               buffer: CommandBuffers \cup {NoBuffer}, onscreen: BOOLEAN]]
      /\ \A f \in Frames : sync'[f].fence = sync[f].fence /\ sync'[f].ready = sync[f].ready
      /\ sync'[frame].buffer = b /\ sync'[frame].onscreen = o
      /\ \A f \in Frames \ {frame} : sync'[f] = sync[f]
  BY <1>1, DrawableNotSubmitted DEF IInv, TypeOK
<1>4. TypeOK'
  BY <1>2, <1>3 DEF IInv, TypeOK
<1>5. OneSubmission' /\ BufferOutlivesGpu'
  BY <1>2, <1>3, DrawableNotSubmitted, SubmissionType DEF IInv, OneSubmission, BufferOutlivesGpu
<1>6. SynchronizersAgree'
  BY <1>1, <1>3, FramesAssumption DEF IInv, SynchronizersAgree, CommandBuffers, NoBuffer
<1>7. DrawableAtRest' /\ FrameReadyWhenUsed'
  BY <1>2, <1>3, DrawableNotSubmitted DEF IInv, DrawableAtRest, FrameReadyWhenUsed
<1> QED BY <1>4, <1>5, <1>6, <1>7 DEF IInv

\* Present submits the frame of the drawable, of which there was no submission.
LEMMA PresentHolds ==
  ASSUME IInv, Present
  PROVE  IInv'
<1>1. /\ drawable # None /\ valid /\ drawable' = None
      /\ UNCHANGED <<valid, size, implSize, extent, frame, pc, retry, failedWaits>>
  BY DEF Present
<1>2. PICK b \in FinalBuffers : SubmitFinal(b)
  BY DEF Present
<1>3. b \in CommandBuffers /\ NoBuffer \notin CommandBuffers
  BY <1>2, DrawableNotSubmitted, FramesAssumption, <1>1
     DEF FinalBuffers, NewBuffers, NoBuffer, CommandBuffers, IInv, SynchronizersAgree, TypeOK
<1>4. /\ sync' \in [Frames -> [fence: {"signalled", "reset", "pending"}, ready: {"idle", "armed"},
                               buffer: CommandBuffers \cup {NoBuffer}, onscreen: BOOLEAN]]
      /\ sync'[frame].fence = "pending" /\ sync'[frame].buffer = b /\ ~sync'[frame].onscreen
      /\ \A f \in Frames \ {frame} : sync'[f] = sync[f]
  BY <1>1, <1>2, <1>3, DrawableNotSubmitted DEF SubmitFinal, IInv, TypeOK
<1> DEFINE new == [frame |-> frame, image |-> drawable, buffer |-> b]
<1>5. /\ new \in Submissions /\ new # None
      /\ gpu' = Append(gpu, new) /\ gpu \in Seq(Submissions \cup {None})
  BY <1>1, <1>2, <1>3, DrawableNotSubmitted, SubmissionType, FramesAssumption
     DEF SubmitFinal, Submissions, IInv
<1>6. /\ gpu' \in Seq(Submissions \cup {None}) /\ Len(gpu') = Len(gpu) + 1 /\ Len(gpu) \in Nat
      /\ gpu'[Len(gpu) + 1] = new
      /\ \A n \in 1 .. Len(gpu) :
           gpu'[n] = gpu[n] /\ (gpu[n] # None => gpu[n].frame \in Frames \ {frame})
  <2>1. \A n \in 1 .. Len(gpu) : gpu[n] # None => gpu[n].frame \in Frames \ {frame}
    BY <1>1, DrawableNotSubmitted, SubmissionType DEF IInv
  <2>2. new \in Submissions \cup {None}
    BY <1>5
  <2> HIDE DEF new
  <2> QED BY <2>1, <2>2, <1>5, AppendProperties, LenProperties
<1>7. image' \in [Images -> {"free", "acquired", "queued"}]
  BY DEF Present, IInv, TypeOK
<1>8. TypeOK'
  BY <1>1, <1>4, <1>6, <1>7 DEF IInv, TypeOK, Submissions
<1>9. new.frame = frame /\ new.buffer = b /\ new # None
  BY <1>5
<1> HIDE DEF new
<1>10. OneSubmission'
  BY <1>6, <1>9 DEF IInv, OneSubmission
<1>11. BufferOutlivesGpu'
  BY <1>1, <1>4, <1>6, <1>9 DEF IInv, BufferOutlivesGpu
<1>12. SynchronizersAgree'
  BY <1>4 DEF IInv, SynchronizersAgree
<1>13. DrawableAtRest' /\ FrameReadyWhenUsed'
  BY <1>1, DrawableNotSubmitted DEF DrawableAtRest, FrameReadyWhenUsed
<1> QED BY <1>8, <1>10, <1>11, <1>12, <1>13 DEF IInv

-----------------------------------------------------------------------------
(* The others.                                                             *)

\* What is left of the queue.
LEMMA TailOfQueue ==
  ASSUME IInv, FinishSubmission
  PROVE  /\ gpu' \in Seq(Submissions \cup {None}) /\ Head(gpu) = gpu[1] /\ 1 \in 1 .. Len(gpu)
         /\ \A n \in 1 .. Len(gpu') : n + 1 \in 1 .. Len(gpu) /\ n + 1 # 1 /\ gpu'[n] = gpu[n + 1]
         /\ UNCHANGED <<valid, size, implSize, extent, frame, image, drawable, pc, retry, failedWaits>>
         /\ OneSubmission'
<1>1. gpu # <<>> /\ gpu \in Seq(Submissions \cup {None}) /\ Len(gpu) \in Nat
  BY SubmissionType DEF FinishSubmission, IInv
<1>2. /\ gpu' \in Seq(Submissions \cup {None}) /\ Head(gpu) = gpu[1] /\ 1 \in 1 .. Len(gpu)
      /\ \A n \in 1 .. Len(gpu') : n + 1 \in 1 .. Len(gpu) /\ n + 1 # 1 /\ gpu'[n] = gpu[n + 1]
      /\ UNCHANGED <<valid, size, implSize, extent, frame, image, drawable, pc, retry, failedWaits>>
  BY <1>1, HeadTailProperties DEF FinishSubmission
<1>3. OneSubmission'
  <2> SUFFICES ASSUME NEW m \in 1 .. Len(gpu'), NEW n \in 1 .. Len(gpu'),
                      gpu'[m] # None, gpu'[n] # None, gpu'[m].frame = gpu'[n].frame
               PROVE  m = n
    BY DEF OneSubmission
  <2>1. /\ m + 1 \in 1 .. Len(gpu) /\ n + 1 \in 1 .. Len(gpu)
        /\ gpu'[m] = gpu[m + 1] /\ gpu'[n] = gpu[n + 1]
    BY <1>2
  <2>2. m + 1 = n + 1
    BY <2>1 DEF IInv, OneSubmission
  <2> QED BY <2>2
<1> QED BY <1>2, <1>3

\* A submission of an implementation that is gone signals nothing that is left.
LEMMA FinishForgottenHolds ==
  ASSUME IInv, FinishSubmission, Head(gpu) = None
  PROVE  IInv'
<1>1. UNCHANGED sync
  BY DEF FinishSubmission
<1>2. TypeOK'
  BY <1>1, TailOfQueue DEF IInv, TypeOK
<1>3. OneSubmission'
  BY TailOfQueue
<1>4. BufferOutlivesGpu'
  BY <1>1, TailOfQueue DEF IInv, BufferOutlivesGpu
<1>5. SynchronizersAgree' /\ DrawableAtRest' /\ FrameReadyWhenUsed'
  BY <1>1, TailOfQueue DEF IInv, SynchronizersAgree, DrawableAtRest, FrameReadyWhenUsed
<1> QED BY <1>2, <1>3, <1>4, <1>5 DEF IInv

\* The submission that ends is the only one of its frame.
LEMMA FinishSubmissionHolds ==
  ASSUME IInv, FinishSubmission, Head(gpu) # None
  PROVE  IInv'
<1> DEFINE f == Head(gpu).frame
<1>1. Head(gpu) = gpu[1] /\ 1 \in 1 .. Len(gpu) /\ gpu[1] # None /\ gpu[1].frame = f
  BY TailOfQueue
<1>2. f \in Frames
  BY <1>1, SubmissionType DEF IInv
<1>3. \A n \in 1 .. Len(gpu') : gpu'[n] # None => gpu'[n].frame \in Frames \ {f}
  BY <1>1, TailOfQueue, SubmissionType DEF IInv, OneSubmission
<1>4. UNCHANGED <<valid, size, implSize, extent, frame, image, drawable, pc, retry, failedWaits>>
  BY TailOfQueue
<1>5. /\ sync' \in [Frames -> [fence: {"signalled", "reset", "pending"}, ready: {"idle", "armed"},
                               buffer: CommandBuffers \cup {NoBuffer}, onscreen: BOOLEAN]]
      /\ sync'[f].ready = "idle" /\ sync'[f].buffer = sync[f].buffer
      /\ sync'[f].onscreen = sync[f].onscreen
      /\ \A g \in Frames \ {f} : sync'[g] = sync[g]
  <2>1. sync' = [sync EXCEPT ![f].fence = "signalled", ![f].ready = "idle"]
    BY DEF FinishSubmission
  <2> HIDE DEF f
  <2> QED BY <1>2, <2>1 DEF IInv, TypeOK
<1>6. sync[f].fence = "pending"
  BY <1>1 DEF IInv, BufferOutlivesGpu
<1> HIDE DEF f
<1>7. TypeOK'
  BY <1>4, <1>5, TailOfQueue DEF IInv, TypeOK
<1>8. OneSubmission'
  BY TailOfQueue
<1>9. BufferOutlivesGpu'
  BY <1>3, <1>4, <1>5, TailOfQueue DEF IInv, BufferOutlivesGpu
<1>10. SynchronizersAgree'
  BY <1>5 DEF IInv, SynchronizersAgree
<1>11. DrawableAtRest' /\ FrameReadyWhenUsed'
  BY <1>4, <1>5, <1>6 DEF IInv, DrawableAtRest, FrameReadyWhenUsed, TypeOK
<1> QED BY <1>7, <1>8, <1>9, <1>10, <1>11 DEF IInv

\* Steps that touch neither a synchronizer nor the queue nor an acquisition.
LEMMA QuietStepsHold ==
  ASSUME IInv,
         \/ DropDrawable \/ UpdateSurfaceSize \/ ResizeSurface
         \/ \E i \in Images : ReleaseImage(i)
         \/ UNCHANGED vars
  PROVE  IInv'
<1>1. /\ UNCHANGED <<valid, implSize, frame, sync, gpu, pc, retry, failedWaits>>
      /\ drawable' \in {drawable, None}
  BY DEF DropDrawable, UpdateSurfaceSize, ResizeSurface, ReleaseImage, vars
<1>2. {size', extent'} \subseteq Sizes
  BY DEF DropDrawable, UpdateSurfaceSize, ResizeSurface, ReleaseImage, vars, IInv, TypeOK
<1>3. /\ image' \in [Images -> {"free", "acquired", "queued"}]
      /\ \A i \in Images : image[i] = "acquired" => image'[i] = "acquired"
  BY DEF DropDrawable, UpdateSurfaceSize, ResizeSurface, ReleaseImage, vars, IInv, TypeOK
<1>4. TypeOK'
  BY <1>1, <1>2, <1>3 DEF IInv, TypeOK
<1>5. OneSubmission' /\ BufferOutlivesGpu' /\ SynchronizersAgree'
  BY <1>1 DEF IInv, OneSubmission, BufferOutlivesGpu, SynchronizersAgree
<1>6. DrawableAtRest' /\ FrameReadyWhenUsed'
  BY <1>1, <1>3 DEF IInv, DrawableAtRest, FrameReadyWhenUsed, TypeOK
<1> QED BY <1>4, <1>5, <1>6 DEF IInv

-----------------------------------------------------------------------------
LEMMA IInvInvariant == Spec => []IInv
<1>1. IInv /\ [Next]_vars => IInv'
  <2> SUFFICES ASSUME IInv, [Next]_vars PROVE IInv'
    OBVIOUS
  <2>1. CASE AcquireNextDrawable \/ WaitForFenceFails \/ NoImage \/ GiveUp
    BY <2>1, AcquireStepsHold, InvalidImageHolds DEF NoImage
  <2>2. CASE WaitForFence
    BY <2>2, WaitForFenceHolds
  <2>3. CASE ImageAcquired
    BY <2>3, ImageAcquiredHolds
  <2>4. CASE Recreate \/ RecreateFails \/ Destroy
    BY <2>4, RecreationHolds
  <2>5. CASE AddFinalCommandBuffer \/ PresentFails
    <3>1. drawable # None /\ valid
      BY <2>5 DEF AddFinalCommandBuffer, PresentFails
    <3> QED BY <2>5, <3>1, KeepBufferHolds
  <2>6. CASE Present
    BY <2>6, PresentHolds
  <2>7. CASE FinishSubmission
    BY <2>7, FinishSubmissionHolds, FinishForgottenHolds
  <2>8. CASE \/ DropDrawable \/ UpdateSurfaceSize \/ ResizeSurface
             \/ \E i \in Images : ReleaseImage(i)
             \/ UNCHANGED vars
    BY <2>8, QuietStepsHold
  <2> QED BY <2>1, <2>2, <2>3, <2>4, <2>5, <2>6, <2>7, <2>8 DEF Next
<1> QED BY <1>1, InitHolds, PTL DEF Spec

(***************************************************************************)
(* The swapchain stays in its types, whatever is recreated and whatever    *)
(* fails in between: the index of the frame wraps, and the number of       *)
(* retries keeps its limit.                                                *)
(***************************************************************************)
THEOREM TypeCorrectness == Spec => []TypeOK
  BY IInvInvariant, PTL DEF IInv

(***************************************************************************)
(* Fences and semaphores are in the state Vulkan asks for when             *)
(* AcquireNextDrawable gives them to the acquisition and when Present      *)
(* submits them, for any number of frames in flight, images and retries.   *)
(***************************************************************************)
THEOREM FrameReadyWhenUsedInvariant == Spec => []FrameReadyWhenUsed
  BY IInvInvariant, PTL DEF IInv

(***************************************************************************)
(* The synchronizer of a frame keeps the final command buffer that Present *)
(* gave to the GPU until it has been executed, for every implementation    *)
(* that is not torn down after a failed wait for the idle device.          *)
(***************************************************************************)
THEOREM BufferOutlivesGpuInvariant == Spec => []BufferOutlivesGpu
  BY IInvInvariant, PTL DEF IInv
=============================================================================

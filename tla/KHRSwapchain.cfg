CONSTANTS
  i1 = i1
  i2 = i2
  i3 = i3
  None = None
  Images = {i1, i2, i3}
  Sizes = {1, 2}
  kMaxFramesInFlight = 2
  kMaxResizeAttempts = 3
  MaxFailedWaits = 1
SPECIFICATION Spec
INVARIANTS TypeOK FrameReadyWhenUsed BufferOutlivesGpu
PROPERTIES AcquireReturns

SPECIFICATION Spec
CONSTANTS
  NumFrames = 5
  FillSize = 2
  RxSize = 2
  RxBatch = 2
  KernelHold = 1
  INVALID_UMEM_FRAME = INVALID_UMEM_FRAME
INVARIANTS
  OneOwner
  FillEntriesAreFrames
  NeverStarved
  DetachedAtExit
PROPERTIES
  ReplenishFills
  FramesGoRound

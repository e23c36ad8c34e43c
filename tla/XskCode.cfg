SPECIFICATION Spec
CONSTANTS
  NumFrames = 4
  FillSize = 2
  RxSize = 2
  RxBatch = 1
  KernelHold = 1
  INVALID_UMEM_FRAME = INVALID_UMEM_FRAME
INVARIANT FillEntriesAreFrames

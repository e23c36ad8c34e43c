SPECIFICATION Spec
CONSTANTS
  nTxBuf = 1
  Frame <- TwoKinds
  MaxFrames = 5
  None = None
INVARIANTS FlagMeansFree NothingOverwritten OnlyWhatWasAsked
PROPERTY StreamEnds

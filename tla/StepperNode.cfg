SPECIFICATION Spec
CONSTANTS
  MAX_STEPS = 3
  TIMEOUTVALUE = 2
  Frames <- AllFrames
  MaxFrames = 5
  None = None
INVARIANTS PositionTracksMotor HandledOnce AnswersAccountedFor OkMeansSent
PROPERTY FramesAreProcessed

SPECIFICATION SystemSpec
CONSTANTS
  MAX_STEPS = 4
  TIMEOUTVALUE = 2
  Base = 2
  MaxQueries = 2
  MaxOrders = 1
  None = None
  Frames <- SystemFrames
  MaxFrames <- AllFrames
INVARIANTS SystemTypeOK AnsweredOnce
PROPERTIES KeepsPromises QueriesEnd

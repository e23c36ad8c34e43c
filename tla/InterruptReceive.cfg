SPECIFICATION Spec
CONSTANTS
  MaxTries = 2
  None = None
INVARIANTS NoWakeUpLost AwakeOnBus
PROPERTIES ReadingGoesOn WakesOnMessage

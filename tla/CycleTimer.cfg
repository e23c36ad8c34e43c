SPECIFICATION TimerSpec
CONSTANTS
  NsPerSec = 4
  CycleTime = 9
  MaxTime = 40
INVARIANTS
  TimespecOK
  NoDrift
  NeverEarly
PROPERTY CatchesUp

SPECIFICATION FairSpec
CONSTANTS
  Period = 2
  MaxTime = 7
INVARIANTS
  NeverEarly
PROPERTIES
  DueTicksHappen
  StopReturnsOnceAcquired
CHECK_DEADLOCK FALSE

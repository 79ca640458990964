SPECIFICATION Phase1Spec
CONSTANTS
  N = 2
  SlowProcessing = FALSE
  MaxCrashes = 1
  LenientVerify = FALSE
INVARIANTS
  RestartAssertions
CHECK_DEADLOCK FALSE

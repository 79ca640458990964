SPECIFICATION Phase1FairSpec
CONSTANTS
  N = 2
  SlowProcessing = FALSE
  MaxCrashes = 1
  LenientVerify = TRUE
INVARIANTS
  CompleteImpliesOutput
  ContributionsInOrder
PROPERTIES
  ImplementsCeremony
  OutputKept
  CompletionPublishes
CHECK_DEADLOCK FALSE

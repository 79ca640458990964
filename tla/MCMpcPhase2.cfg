SPECIFICATION Phase2FairSpec
CONSTANTS
  N = 2
  SlowProcessing = FALSE
  MaxCrashes = 2
INVARIANTS
  FinalMatchesTranscript
PROPERTIES
  ImplementsCeremony
  CountedIsKept
  CompletionPublishes
CHECK_DEADLOCK FALSE

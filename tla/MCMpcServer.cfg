SPECIFICATION FairSpec
CONSTANTS
  N = 3
  SlowProcessing = FALSE
  MaxCrashes = 2
INVARIANTS
  TypeOK
  NoRequestWhileProcessing
  OneAdvancer
  UploadInOwnSlot
  CrashRepeatsAtMostOneSlot
PROPERTIES
  ProcessingEnds
  CeremonyEnds
CHECK_DEADLOCK FALSE

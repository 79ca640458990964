SPECIFICATION FairSpec
CONSTANTS
  NumIn = 2
  NumOut = 2
  BatchSize = 2
  MaxBlocks = 3
  MaxInserts = 1
  MaxCrashes = 1
INVARIANTS
  SyncedWalletExact
  NoNoteLost
PROPERTIES
  CatchesUp
CHECK_DEADLOCK FALSE

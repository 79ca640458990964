SPECIFICATION Spec
CONSTANTS
  NumIn = 2
  NumOut = 2
  BatchSize = 2
  MaxBlocks = 2
  MaxInserts = 0
  MaxCrashes = 1
INVARIANTS
  RootAssertion
CHECK_DEADLOCK FALSE

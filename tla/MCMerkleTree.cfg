SPECIFICATION Spec
CONSTANTS
  Depth = 3
  NumOut = 2
  Leaves <- TermLeaves
  Default <- TermDefault
  Hash <- TermHash
  MaxStale = 1
INVARIANTS
  ContractRootCorrect
  ClientRootMatches
  PathsAuthenticate
CHECK_DEADLOCK FALSE

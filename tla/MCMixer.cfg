SPECIFICATION Spec
CONSTANTS
  NumIn = 2
  NumOut = 1
  MaxLeaves = 3
  MaxValue = 2
  Owners = {o1}
  Phis = {p1}
  Vks = {k1}
  LiftSets = {{1}, {0}}
  MaxLifts = 1
  MaxInserts = 1
  MaxDue = 2
INVARIANTS
  RhosDistinct
  NoDoubleSpend
  Solvent
CHECK_DEADLOCK FALSE

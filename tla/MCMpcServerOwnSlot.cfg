SPECIFICATION Spec
CONSTANTS
  N = 2
  SlowProcessing = TRUE
  MaxCrashes = 0
PROPERTIES
  ContributionEndsOwnSlot
CHECK_DEADLOCK FALSE

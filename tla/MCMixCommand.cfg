SPECIFICATION FairSpec
CONSTANTS
    Users = {1, 2}
    Commands = {1, 2}
    Genesis <- MCGenesis
    Scenarios <- MCScenarios
    Unit = 5
    Mantissa = 4
    ValueBits = 6
    MaxCrashes = 1
INVARIANTS
    MinedAsAsked
    PaidAsAsked
    Backed
    WalletsExact
PROPERTY
    PossibleIsMined
CHECK_DEADLOCK FALSE

SPECIFICATION Spec
CONSTANTS
    Base = 16
    WordBytes = 4
    curve_order = 7
    field_modulus = 11
    DigestBits = 16
    ValueBits = 2
    MimcRounds = 3
    HashIV = 51966
    AddressBytes = 3
    Calls <- MCCalls
INVARIANTS
    ConversionsLossless
    TreeHashesAgree
    KeyReadAsProved
    ContractReadsPublicData
    HonestCallAccepted
    BalanceExact
CHECK_DEADLOCK FALSE

SPECIFICATION LzssFairSpec
CONSTANTS
    MIN_MATCH = 2
    MAX_MATCH = 5
    WINDOW = 3
    LenField = 4
    DistField = 3
    MaxInput = 6
    Byte <- MCByte
    Inputs <- MCInputs
    ParamSet <- MCParamSet
    HashSlots <- MCHashSlots
    Hash <- MCHash
INVARIANTS
    TokensTile
    ChainsExact
    LongestFound
    CopyInBounds
    CutIsNoticed
PROPERTIES
    Returns
    ImplementsCodec
CHECK_DEADLOCK FALSE

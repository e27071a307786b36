SPECIFICATION Spec
CONSTANTS
    MATCH_MIN_LEN = 2
    MATCH_MAX_LEN = 3
    MaxDist = 4
    PosStates = 2
    LitPositions = 1
    MaxInput = 2
    LongInputs <- MCLongInputs
    Tails = {0, 5}
    Byte <- MCByte
    HighBits <- MCHighBits
    Inputs <- MCInputs
    Damageable <- MCShortInputs
    Forms <- Form
INVARIANTS
    InStep
    MatchByteExists
PROPERTY
    ImplementsCodec
CHECK_DEADLOCK FALSE

SPECIFICATION Spec
CONSTANTS
    BASE = 4
    PROB_ONE = 8
    MOVE = 2
    WITH_ONE = 16
    BYTE_BITS = 3
    LC = 1
    LP = 1
    PB = 1
    LOW_BITS = 1
    HIGH_BITS = 2
    SLOT_BITS = 4
    END_POS_MODEL_INDEX = 8
    ALIGN_BITS = 2
    MATCH_MIN_LEN = 2
    MaxMixed = 2
    MaxCarry = 5
    MaxBytes = 3
    Callers <- MCCallers
    Coded <- CodedCalls
    Ask <- AskedCall
    Understood <- Meaning
INVARIANTS
    CarryExact
    InStep
    UsedExactly
    PricedAsCoded
CHECK_DEADLOCK FALSE

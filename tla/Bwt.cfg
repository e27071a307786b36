SPECIFICATION Spec
CONSTANTS
    MAX_BYTE = 2
    BLOCK_SIZE = 6
    WORD = 256
    MaxInput = 7
    Inputs <- MCInputs
    Damage <- MCDamage
INVARIANT
    RanksExact
PROPERTY
    ImplementsCodec
CHECK_DEADLOCK FALSE

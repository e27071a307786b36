SPECIFICATION Spec
CONSTANTS
    SYMBOLS = 3
    M = 8
    BYTE = 4
    LANES = 2
    MaxInput = 4
    MaxRecoded = 4
    MaxPlace = 30
    MaxPairPlace = 20
    BlockSizes = {3, 40}
    LongCounts = {0, 1, 6, 11}
    Inputs <- MCInputs
    Tables <- MCTables
    Changes <- MCChanges
INVARIANTS
    OneWordIsEnough
    CutIsNoticed
    OneStreamPerTable
PROPERTY
    ImplementsCodec
CHECK_DEADLOCK FALSE

SPECIFICATION Spec
CONSTANTS
    MAX_CODE_LEN = 4
    MaxLens = {3, 4}
    BYTE = 2
    LEN_BITS = 3
    MaxSymbol = 5
    MaxInput = 6
    MaxChanged = 4
    Symbol <- MCSymbol
    Inputs <- MCInputs
    Changed <- MCChanged
INVARIANTS
    CompleteCode
    Optimal
    CutIsNoticed
PROPERTY
    ImplementsCodec
CHECK_DEADLOCK FALSE

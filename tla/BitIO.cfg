SPECIFICATION Spec
CONSTANTS
    BYTE = 2
    FIELD = 4
    MaxOps = 3
    Programs <- MCPrograms
INVARIANTS
    CursorExact
    ReadsWritten
    ReadIffWhole
CHECK_DEADLOCK FALSE

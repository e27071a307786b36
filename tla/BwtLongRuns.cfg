SPECIFICATION Spec
CONSTANTS
    MAX_BYTE = 2
    BLOCK_SIZE = 6
    WORD = 256
    MaxInput = 3
    Inputs <- MCFewInputs
    Damage <- MCLongRuns
PROPERTY
    RunsStayInside
CHECK_DEADLOCK FALSE

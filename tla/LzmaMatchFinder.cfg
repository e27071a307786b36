SPECIFICATION Spec
CONSTANTS
    MAX_LEN = 6
    MaxInput = 9
    Byte <- MCByte
    Inputs <- MCInputs
    Finders <- MCFinders
    Slots3 <- MCSlots3
    Slots4 <- MCSlots
    hash3 <- MChash3
    hash4 <- MChash4
INVARIANTS
    MatchesExact
    NothingCloserMissed
    LinksGoBack
    TreesOrdered
CHECK_DEADLOCK FALSE

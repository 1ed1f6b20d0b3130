CONSTANTS
    NConst = 2
    NLoop = 3
    NArray = 1
    ArraySize = 2
    Cells = 11
    UsedBase = 120
    Programs <- MCPrograms
SPECIFICATION RegSpec
CHECK_DEADLOCK FALSE
INVARIANTS
    ArraysIndexed

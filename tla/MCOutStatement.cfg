SPECIFICATION OutSpec
CONSTANTS
    Programs <- MCPrograms
    Consts <- MCConsts
    Arrays <- MCArrays
    Loops <- MCLoops
    Greedy = TRUE
    Layers <- MCLayers
    NLayers = 4
    ConstRegisters = 3
    ArrayRegisters = 1
    LoopRegisters = 3
    OutStatements = 2
    BytesCell = 2
    CellBits = 8
    MaxDepth = 4
    Values <- MCValues
INVARIANTS
    OutTypeOK
    ComputesProgram
    TreesLevelled
    CheckCoversUnits
    CellsNeverShared
CHECK_DEADLOCK FALSE

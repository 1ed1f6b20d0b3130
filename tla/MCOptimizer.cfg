SPECIFICATION OptSpec
CONSTANTS
    Word = 16
    Programs <- MCPrograms
    Names <- MCNames
    MaxDepth = 2
    Levels = {"OPT1", "OPTMAX"}
    Element <- MCElement
    Samples = {0, 1, 3}
INVARIANTS
    OptTypeOK
    ValuesPreserved
    NamesResolved
    NothingLeftToFold
    RegistersMinimal
\* the last pass ends the optimisation
CHECK_DEADLOCK FALSE

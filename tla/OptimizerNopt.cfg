SPECIFICATION OptSpec
CONSTANTS
    Word = 16
    Programs <- SharedNopt
    Names <- MCNames
    MaxDepth = 2
    Levels = {"OPTMAX"}
    Element <- MCElement
    Samples = {0, 1, 3}
INVARIANTS
    NamesResolved
\* the last pass ends the optimisation
CHECK_DEADLOCK FALSE

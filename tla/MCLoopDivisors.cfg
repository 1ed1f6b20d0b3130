SPECIFICATION DivSpec
CONSTANTS
    Width = 6
    Pow <- MCPow
    Nests <- MCNests
INVARIANTS
    DivTypeOK
    DivisionExact
    WordsSuffice
    UnrollExact
\* the computation ends, or stops at a division by zero
CHECK_DEADLOCK FALSE

CONSTANTS
    YY_BUF_SIZE = 2
    Programs <- UndocumentedPrograms
    Texts <- NoTexts
SPECIFICATION Spec
\* a call ends
CHECK_DEADLOCK FALSE
INVARIANT CompilesAsDocumented

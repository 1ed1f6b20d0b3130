CONSTANTS
    YY_BUF_SIZE = 2
    Programs <- MCPrograms
    Texts <- MCTexts
SPECIFICATION Spec
CHECK_DEADLOCK FALSE
INVARIANTS
    FrontTypeOK
    TokensExact
    ReductionsFollowGrammar
    TreeIsProgram
    AnalysesDecide
    CaseOfStatement
PROPERTY
    Answered

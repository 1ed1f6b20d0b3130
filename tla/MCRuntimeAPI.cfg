CONSTANTS
    Regions = {r1, r2, r3}
    Sizes = {2, 4}
    MinBlock = 2
    BackingSize = 4
    Requests = {1, 3}
    MaxCount = 4
    Powers = {1, 2, 4}
    ConfigBits = 3
    MaxConfigs = 2
    Programs = {p1, p2}
    Pages = {g1, g2, g3}
    None = None
SPECIFICATION MCSpec
SYMMETRY APISymmetry
INVARIANTS
    APITypeOK
    ConfigOwnership
    WindowInsideBlock
    WindowsDisjoint
    MappedPagesRegistered
    ProgramStaysBound
PROPERTIES
    OrphanedOnlyByFailure
    AllocatorSpec

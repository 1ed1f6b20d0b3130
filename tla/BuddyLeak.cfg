CONSTANTS
    Regions = {r1, r2, r3}
    Sizes = {2, 4, 8, 16}
    MinBlock = 2
    BackingSize = 16
    Requests = {1, 2, 3, 7, 16}
    MaxCount = 4
SPECIFICATION Spec
SYMMETRY RegionSymmetry
\* the bound MaxCount stops a system whose space leaked away
CHECK_DEADLOCK FALSE
INVARIANT InUseLeafHasRegion

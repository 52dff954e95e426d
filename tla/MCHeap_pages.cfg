\* Pages as well; TopSlot is not a whole number of pages.
SPECIFICATION Spec
CONSTANTS
    Q = 3
    NQ = 5
    PQ = 2
    TopSlot = 3
    Sizes = {1, 4}
    Paging = TRUE
    PastMapZero = FALSE
INVARIANTS
    RegionsDisjoint
    Encoded
    LeaksOnlyPageTails
PROPERTIES
    OthersUntouched
CHECK_DEADLOCK FALSE

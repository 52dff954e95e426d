\* A page that has been given back.
SPECIFICATION Spec
CONSTANTS
    Q = 3
    NQ = 5
    PQ = 2
    TopSlot = 3
    Sizes = {1, 4}
    Paging = TRUE
    PastMapZero = FALSE
INVARIANTS
    NoLeak
CHECK_DEADLOCK FALSE

\* A large region at the end of the map, with zeros behind it.
SPECIFICATION Spec
CONSTANTS
    Q = 3
    NQ = 3
    PQ = 2
    TopSlot = 1
    Sizes <- MCSizes
    Paging = FALSE
    PastMapZero = TRUE
INVARIANTS
    RegionsInHeap
CHECK_DEADLOCK FALSE

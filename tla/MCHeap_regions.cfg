\* malloc, free and realloc.
SPECIFICATION Spec
CONSTANTS
    Q = 3
    NQ = 3
    PQ = 2
    TopSlot = 1
    Sizes <- MCSizes
    Paging = FALSE
    PastMapZero = FALSE
PROPERTIES
    ImplementsRegions
CHECK_DEADLOCK FALSE

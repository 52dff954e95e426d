\* Freed memory is reused: what waitloop then reads.
SPECIFICATION Spec
CONSTANTS
    Terms <- MCTerms
    BootTerm = 1
    MaxInput = 2
    MaxPending = 2
    MaxFaults = 0
    MayReuse = TRUE
INVARIANTS
    NoGarbageNext
CHECK_DEADLOCK FALSE

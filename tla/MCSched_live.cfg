\* Liveness, with the fairness of the kernel; freed memory stays as it is.
SPECIFICATION KernelSpec
CONSTANTS
    Terms <- MCTerms
    BootTerm = 1
    MaxInput = 3
    MaxPending = 2
    MaxFaults = 1
    MayReuse = FALSE
INVARIANTS
    BlockedHasWaker
PROPERTIES
    PromptReturns
    NoStarvation

\* Safety, with one fault and with freed memory reused at once.
SPECIFICATION Spec
CONSTANTS
    Terms <- MCTerms
    BootTerm = 1
    MaxInput = 3
    MaxPending = 2
    MaxFaults = 1
    MayReuse = TRUE
INVARIANTS
    TypeOK
    RunnableOnce
    NoDoubleWake
    ShellAlive
    CpuOwner
    HltIdle
\* a corrupted curProc ends the behaviour
CHECK_DEADLOCK FALSE

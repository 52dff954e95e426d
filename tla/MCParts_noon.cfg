\* A twelve-hour CMOS at noon.
SPECIFICATION MCSpec
CONSTANTS
    Objects = {1}
    Addrs = {11}
    MaxLen = 1
    Keys = {}
    MaxPresses = 0
    MaxBytes = 1
    TickHz = 8
    PitFreq = 83
    InitCap = 2
    Wanted = {}
    BootTicks = 0
    MaxTicks = 0
    BootTimes = {43200}
    MaxCmosTicks = 1
    MaxLag = 0
    Pieces <- MCPieces
    Arguments <- MCArguments
    Beyond <- MCBeyond
    MaxWidth = 12
    MaxPieces = 1
    Cap0 = 4
    FixedCaps = {}
    Places <- MCPlaces
    Q = 4
    NQ = 12
    PQ = 2
    TopSlot = 10
    Sizes = {1, 2}
    Paging = TRUE
    PastMapZero = FALSE
    Terms = {1}
    PidsSz = 2
    MaxPid = 0
    MaxText = 0
INVARIANTS
    SecondsIntoDay
CHECK_DEADLOCK FALSE

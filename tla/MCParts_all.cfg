\* One part at a time.
SPECIFICATION MCSpec
CONSTANTS
    Objects = {1, 2, 3}
    Addrs = {11, 12, 13}
    MaxLen = 3
    Keys = {"shiftL", "shiftR", "ctrlL", "ctrlR", "caps", "a", "eight", "up"}
    MaxPresses = 3
    MaxBytes = 5
    TickHz = 8
    PitFreq = 83
    InitCap = 2
    Wanted <- MCWanted
    BootTicks = 1
    MaxTicks = 17
    BootTimes = {43198, 46799, 86398}
    MaxCmosTicks = 2
    MaxLag = 2
    Pieces <- MCPieces
    Arguments <- MCArguments
    Beyond <- MCBeyond
    MaxWidth = 12
    MaxPieces = 3
    Cap0 = 4
    FixedCaps = {1, 3, 5, 12}
    Places <- MCPlaces
    Q = 4
    NQ = 12
    PQ = 2
    TopSlot = 10
    Sizes = {1}
    Paging = TRUE
    PastMapZero = FALSE
    Terms = {1}
    PidsSz = 2
    MaxPid = 4
    MaxText = 1
INVARIANTS
    WellLinked
    LoopOnNodes
    NoStuckModifier
    AsTyped
    OftenEnough
    BootTime
    ShownNear
    ZeroFits
    Renders
    MemoryOwned
PROPERTIES
    ImplementsItems
    SecondsGoOn
\* a string is finished, and the bounds are reached
CHECK_DEADLOCK FALSE

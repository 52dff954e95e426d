SPECIFICATION FairSpec
CONSTANTS
    Cap = 3
    MaxKeys = 4
    MaxTicks = 1
    MaxNest = 2
    MaxDepth = 2
INVARIANTS
    HandlersAlone
    SectionsClosed
    KeysMatchWork
    NoSleepOnWork
PROPERTIES
    KeysInOrder
    KeysHandled
CHECK_DEADLOCK FALSE

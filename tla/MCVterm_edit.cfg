CONSTANTS
    Lines = 1
    Cols = 3
    MaxEnd = 7
    Keys <- Words
SPECIFICATION Spec
INVARIANTS
    TypeOK
    PagesThere
    ReadsTheLine
PROPERTIES
    ImplementsEditor
    HistoryKept
CHECK_DEADLOCK FALSE

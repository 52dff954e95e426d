CONSTANTS
    Lines = 2
    Cols = 2
    MaxEnd = 8
    Keys <- Letters
SPECIFICATION Spec
INVARIANTS
    TopInRange
    CursorTrue
    ScreenTrue
CHECK_DEADLOCK FALSE

CONSTANTS
    Items <- MCItems
    MaxVersion = 1
    Limit0 = 1
    Cap = 2
    MaxChanges = 9
    FrameMax = 9
    Worlds <- BareWorld
SPECIFICATION Spec
INVARIANT NeverDies
CHECK_DEADLOCK FALSE

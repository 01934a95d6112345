CONSTANTS
    Items <- MCItems
    MaxVersion = 1
    Limit0 = 1
    Cap = 2
    MaxChanges = 2
    FrameMax = 2
    Worlds <- AllWorlds
SPECIFICATION FairSpec
INVARIANTS ReplayIsSent WithinLimit NothingAfterBye
PROPERTIES ReadyComes Converges
CHECK_DEADLOCK FALSE

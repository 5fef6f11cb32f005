CONSTANTS
    Orders = {1}
    Timers = {t1}
    BatchLimit = 1
    MaxIdleTicks = 1
    MaxFaults = 0
    MaxPanics = 0
    Unbounded = TRUE
    MaxLapses = 2
SPECIFICATION ListedFairSpec
CHECK_DEADLOCK FALSE
PROPERTY
    MatchedResolved

CONSTANTS
    Orders = {1, 2}
    Timers = {t1}
    BatchLimit = 2
    MaxIdleTicks = 0
    MaxFaults = 0
    MaxPanics = 0
    Unbounded = FALSE
    MaxLapses = 2
SPECIFICATION ListedSpec
CHECK_DEADLOCK FALSE
INVARIANT
    CancelledNeverTraded

CONSTANTS
    Orders = {1, 2}
    Timers = {t1}
    BatchLimit = 2
    MaxIdleTicks = 1
    MaxFaults = 0
    MaxPanics = 0
    Unbounded = TRUE
    MaxLapses = 2
SPECIFICATION ListedFairSpec
CHECK_DEADLOCK FALSE
PROPERTY
    TimerComesBack

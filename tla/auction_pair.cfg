\* Two server instances over one database.
CONSTANTS
    Orders = {1, 2}
    Timers = {t1, t2}
    BatchLimit = 2
    MaxIdleTicks = 0
    MaxFaults = 0
    MaxPanics = 1
    Unbounded = FALSE
    MaxLapses = 2
SYMMETRY Symmetry
SPECIFICATION ListedSpec
CHECK_DEADLOCK FALSE
INVARIANTS
    SettledIsBacked
PROPERTIES
    FirstComeFirstServed

\* One server instance, every kind of failure, two of them; one order may expire.
CONSTANTS
    Orders = {1, 2, 3}
    Timers = {t1}
    BatchLimit = 2
    MaxIdleTicks = 0
    MaxFaults = 2
    MaxPanics = 0
    Unbounded = FALSE
    MaxLapses = 1
SPECIFICATION ListedSpec
CHECK_DEADLOCK FALSE
INVARIANTS
    TypeOK
    OneTradePerOrder
    TradedUnderItsBatch
    SettledIsBacked
    CountCoversTrades
PROPERTIES
    OrderLifecycle
    BatchLifecycle
    FirstComeFirstServed
    ImplementsRounds

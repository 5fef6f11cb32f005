\* One server, two solvers, a client that reads, one fault.
CONSTANTS
    Orders = {o1, o2}
    Timers = {t1}
    BatchLimit = 2
    MaxIdleTicks = 0
    MaxFaults = 1
    MaxPanics = 1
    Unbounded = FALSE
    Solvers = {1, 2}
    Scores = {0, 1}
    PageSize = 1
SYMMETRY Symmetry
SPECIFICATION SystemSpec
CHECK_DEADLOCK FALSE
INVARIANTS
    SystemTypeOK
    SettledIsTold
    DetailsAreWhole
    WalkMissesNothing
PROPERTIES
    BestIsPersisted
    FailedMeansUnsolved
    ImplementsRounds

\* No engine errors and no kill calls: only the clock can end a task early.
CONSTANTS
    b1 = b1
    b2 = b2
    k1 = k1
    k2 = k2
    None = None
    Backends <- MCBackends1
    Killers <- MCKillers0
    MaxTime = 4
    MaxCrashes = 0
    MaxIdle = 1
    EngineErrors = FALSE
SPECIFICATION Spec
INVARIANT NoOrphanedContainer
CHECK_DEADLOCK FALSE

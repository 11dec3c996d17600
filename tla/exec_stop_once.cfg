\* One backend, two kill_backend calls, no engine errors.
CONSTANTS
    b1 = b1
    b2 = b2
    k1 = k1
    k2 = k2
    None = None
    Backends <- MCBackends1
    Killers <- MCKillers2
    MaxTime = 4
    MaxCrashes = 0
    MaxIdle = 1
    EngineErrors = FALSE
SPECIFICATION Spec
INVARIANT StopAtMostOnce
CHECK_DEADLOCK FALSE

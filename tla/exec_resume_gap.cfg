\* One backend, one kill call, one drone crash: published states.
CONSTANTS
    b1 = b1
    b2 = b2
    k1 = k1
    k2 = k2
    None = None
    Backends <- MCBackends1
    Killers <- MCKillers1
    MaxTime = 4
    MaxCrashes = 1
    MaxIdle = 1
    EngineErrors = FALSE
SPECIFICATION Spec
PROPERTY
    LifecycleRefined
CHECK_DEADLOCK FALSE

\* One backend with engine errors and one kill call, safety only.
CONSTANTS
    b1 = b1
    b2 = b2
    k1 = k1
    k2 = k2
    None = None
    Backends <- MCBackends1
    Killers <- MCKillers1
    MaxTime = 4
    MaxCrashes = 0
    MaxIdle = 1
    EngineErrors = TRUE
SPECIFICATION Spec
INVARIANT TypeOK
INVARIANT NoLostWakeup
INVARIANT CleanExitStopsContainer
PROPERTY LifecycleRefined
\* A drone whose finite set of backends has exited and whose clock bound is
\* reached has nothing left to do.
CHECK_DEADLOCK FALSE

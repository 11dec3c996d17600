\* One backend, no kill call, one drone crash, under fairness: a crash
\* between the store write of a terminal state and engine.stop.
CONSTANTS
    b1 = b1
    b2 = b2
    k1 = k1
    k2 = k2
    None = None
    Backends <- MCBackends1
    Killers <- MCKillers0
    MaxTime = 4
    MaxCrashes = 1
    MaxIdle = 1
    EngineErrors = FALSE
SPECIFICATION FairSpec
PROPERTY
    TerminalContainerStopped
\* A drone whose backend has exited and whose clock bound is reached has
\* nothing left to do.
CHECK_DEADLOCK FALSE

CONSTANTS
    b1 = b1
    b2 = b2
    k1 = k1
    k2 = k2
    None = None
    Backends <- MCBackends1
    Killers <- MCKillers1
    MaxTime = 4
    MaxCrashes = 0
    MaxIdle = 1
    EngineErrors = FALSE
SPECIFICATION FairSpec
PROPERTY KillCompletes
\* The property is about a stuck state, so TLC's own deadlock report is off.
CHECK_DEADLOCK FALSE

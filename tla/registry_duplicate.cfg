\* Three requests, two drones, one client-chosen id that any request may carry.
CONSTANTS
    r1 = r1
    r2 = r2
    r3 = r3
    d1 = d1
    d2 = d2
    i1 = i1
    None = None
    Requests <- MCRequests
    Drones <- MCDrones
    ClientIds <- MCClientIds
SPECIFICATION Spec
INVARIANT SenderLostOnlyOnShutdown
CHECK_DEADLOCK FALSE

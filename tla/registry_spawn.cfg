\* Three requests, two drones, one client-chosen id that any request may carry.
CONSTANTS
    r1 = r1
    r2 = r2
    r3 = r3
    d1 = d1
    d2 = d2
    i1 = i1
    None = None
    Requests <- MCRequests
    Drones <- MCDrones
    ClientIds <- MCClientIds
SPECIFICATION FairSpec
INVARIANT TypeOK
INVARIANT ListenerOnlyForLiveTask
PROPERTY KilledTaskReturns
\* Once every request's task has ended the drone has nothing left to do.
CHECK_DEADLOCK FALSE

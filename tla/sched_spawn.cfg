\* Two drones of one cluster, a cluster with none, one request; safety and liveness under the scheduler tasks' fairness.
CONSTANTS
    c1 = c1
    c2 = c2
    d1 = d1
    d2 = d2
    r1 = r1
    None = None
    Clusters <- MCClusters
    Drones <- MCDrones
    ClusterOf <- MCClusterOf
    Requests <- MCRequests1
    Window = 2
    SpawnTimeout = 2
    MaxInbox = 2
SPECIFICATION FairSpec
INVARIANT TypeOK
PROPERTY ScheduleMatchesHeartbeats
PROPERTY EveryRequestAnswered

------------------------- MODULE MCClusterScheduler -------------------------
(* Instantiation of ClusterScheduler for TLC: two drones in one cluster,   *)
(* and a second cluster no drone has ever reported.                        *)
EXTENDS ClusterScheduler, TLC

CONSTANTS c1, c2, d1, d2, r1

MCClusters == {c1, c2}
MCDrones == {d1, d2}
MCClusterOf == (d1 :> c1) @@ (d2 :> c1)
MCRequests1 == {r1}
=============================================================================

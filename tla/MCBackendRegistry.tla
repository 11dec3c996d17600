-------------------------- MODULE MCBackendRegistry --------------------------
EXTENDS BackendRegistry

CONSTANTS r1, r2, r3, d1, d2, i1

MCRequests == {r1, r2, r3}
MCDrones == {d1, d2}
MCClientIds == {i1}
=============================================================================

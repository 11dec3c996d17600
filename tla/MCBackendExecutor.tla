-------------------------- MODULE MCBackendExecutor --------------------------
(* Instantiation of BackendExecutor for TLC.                               *)
EXTENDS BackendExecutor, TLC

CONSTANTS b1, b2, k1, k2

MCBackends1 == {b1}
MCBackends2 == {b1, b2}
MCKillers0 == {}
MCKillers1 == {k1}
MCKillers2 == {k1, k2}

\* Backend ids and kill calls are interchangeable model values.
Symmetry == Permutations(Backends) \cup Permutations(Killers)
=============================================================================

------------------------ MODULE MCObservabilityStore ------------------------
(* The instance of ObservabilityStore that TLC checks.                      *)
EXTENDS ObservabilityStore, TLC

\* Nothing tells one process from another.
ProcessSymmetry == Permutations(Processes)
=============================================================================

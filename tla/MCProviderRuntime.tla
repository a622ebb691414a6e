-------------------------- MODULE MCProviderRuntime --------------------------
(* ProviderRuntime for TLC. Runtimes are interchangeable in every safety   *)
(* property, so those runs use symmetry; the liveness run does not.        *)
EXTENDS ProviderRuntime, TLC

Symmetry == Permutations(Runtime)
AllFaults == FaultKinds
NoSaveFaults == FaultKinds \ {"save"}
=============================================================================

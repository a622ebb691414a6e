------------------------------ MODULE MCQkboxd ------------------------------
(* Qkboxd for TLC: two profiles that listen at different addresses and one *)
(* without an HTTP inbound.  The settings of users are interchangeable in  *)
(* every safety property.                                                  *)
EXTENDS Qkboxd, TLC

CONSTANTS p1, p2, p3, a1, a2

Listeners == (p1 :> a1) @@ (p2 :> a2) @@ (p3 :> None)
Symmetry == Permutations(Setting)
AllFaults == FaultKinds
SystemWorks == FaultKinds \ {"os", "half", "read"}
=============================================================================

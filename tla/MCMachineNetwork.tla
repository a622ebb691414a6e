--------------------------- MODULE MCMachineNetwork ---------------------------
(* MachineNetwork for TLC: the provider may be killed, starts and stops fail. *)
EXTENDS MachineNetwork

CallFaults == {"start", "stop", "crash"}
=============================================================================

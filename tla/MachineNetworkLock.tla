-------------------------- MODULE MachineNetworkLock --------------------------
(***************************************************************************)
(* What the privileged provider promises about the machine network, and    *)
(* nothing of how: one runtime holds it at a time, instances run for the   *)
(* holder alone, a stale holder is never replaced while it holds, and the  *)
(* network changes hands only when nothing runs.                           *)
(***************************************************************************)
CONSTANTS Runtime, None

VARIABLES
  holder,   \* the runtime the machine network is lent to
  mark,     \* "stale" when nobody vouches for the holder any more
  running   \* the runtimes whose instance runs

lockVars == <<holder, mark, running>>

Init == holder = None /\ mark = "valid" /\ running = {}

Acquire(r) ==
  /\ holder = None /\ running = {}
  /\ holder' = r
  /\ UNCHANGED <<mark, running>>

Run ==
  /\ holder # None /\ running = {}
  /\ running' = {holder}
  /\ UNCHANGED <<holder, mark>>

Halt == running' = {} /\ UNCHANGED <<holder, mark>>

MarkStale ==
  /\ holder # None
  /\ mark' = "stale"
  /\ UNCHANGED <<holder, running>>

Release ==
  /\ running = {}
  /\ holder' = None /\ mark' = "valid"
  /\ UNCHANGED running

\* The provider dies with everything it runs.
Lose == holder' = None /\ mark' = "valid" /\ running' = {}

\* It comes back and finds the record of a holder nobody vouches for.
Recover(r) ==
  /\ holder = None /\ running = {}
  /\ holder' = r /\ mark' = "stale"
  /\ UNCHANGED running

Next ==
  \/ \E r \in Runtime : Acquire(r) \/ Recover(r)
  \/ Run \/ Halt \/ MarkStale \/ Release \/ Lose

Spec == Init /\ [][Next]_lockVars
=============================================================================

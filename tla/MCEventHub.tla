----------------------------- MODULE MCEventHub -----------------------------
(* EventHub with budgets that exercise the logs and the status in turn. *)
EXTENDS EventHub

\* More entries than a ring and a channel hold, errors among them; and a
\* start and a stop, with another caller's beside them; and
\* a stream.
MCBudgets == {[logs |-> 5, errors |-> 1, changes |-> 0, streams |-> FALSE],
              [logs |-> 0, errors |-> 0, changes |-> 6, streams |-> FALSE],
              [logs |-> 0, errors |-> 0, changes |-> 0, streams |-> TRUE]}
=============================================================================

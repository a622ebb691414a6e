----------------------------- MODULE ProxyPromise -----------------------------
(***************************************************************************)
(* What qkboxd promises about the user's proxy setting, and nothing of     *)
(* how: it remembers a setting of a user's before it puts an address of    *)
(* its own in its place, never one of its own addresses and never a broken *)
(* one; whatever replaces its address is a setting of a user's, chosen by  *)
(* one or given back; and it does not forget what it remembers while an    *)
(* address of its own is in place.  The setting it remembers may be older  *)
(* than the user's last: an activation keeps what it captured at first.    *)
(***************************************************************************)
CONSTANTS Setting, Address, None

VARIABLES
  os,           \* the proxy setting of the operating system
  remembered    \* the setting qkboxd will put back

promiseVars == <<os, remembered>>

Init == os \in Setting /\ remembered = None

Remember == os \notin Address /\ remembered' \in Setting /\ UNCHANGED os

Take(a) == remembered # None /\ os' = a /\ UNCHANGED remembered

\* A user chooses, or qkboxd gives back what it remembered.
Settle(s) == os' = s /\ UNCHANGED remembered

Forget == os \notin Address /\ remembered' = None /\ UNCHANGED os

Next ==
  \/ Remember \/ Forget
  \/ \E a \in Address : Take(a)
  \/ \E s \in Setting : Settle(s)

Spec == Init /\ [][Next]_promiseVars
=============================================================================

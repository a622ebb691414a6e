--------------------------- MODULE QkboxdConstants ---------------------------
(* What Engine, SystemProxy and Qkboxd are parameterised by.               *)
CONSTANTS
  Profile,   \* profile ids
  Hosted,    \* the profiles that need the machine network, run by the provider
  Address,   \* the addresses qkbox runtimes listen on
  Listener,  \* the address of a profile's first HTTP inbound, None without one
  Setting,   \* the proxy settings users choose
  Mixed,     \* a half written proxy setting that is no address of qkbox
  Stray,     \* an address of qkbox that a failed write has brought back
  None,      \* no profile, no record, no address
  Faults     \* the faults that may occur

FaultKinds == {"start", "stop", "rpc", "os", "half", "read", "write", "crash"}

ASSUME ProfileAssumption == None \notin Profile /\ Hosted \subseteq Profile
ASSUME SettingAssumption ==
  /\ Setting \cap Address = {} /\ Mixed # Stray
  /\ {Mixed, Stray} \cap (Setting \cup Address) = {}
  /\ None \notin Setting \cup Address \cup {Mixed, Stray}
ASSUME ListenerAssumption == Listener \in [Profile -> Address \cup {None}]
ASSUME FaultsAssumption == Faults \subseteq FaultKinds
=============================================================================

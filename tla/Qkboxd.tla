-------------------------------- MODULE Qkboxd --------------------------------
(***************************************************************************)
(* qkboxd's runtime operations (activation_service.go, runtime_service.go, *)
(* platform_service.go) over the engine and the system proxy, with the     *)
(* daemon's start and shutdown around them (daemon.go, service.go).        *)
(*                                                                         *)
(* opMu is held by one of ActivateProfile, EngineStart, EngineStop and     *)
(* PlatformSetSystemProxyEnabled from its first to its last line: op says  *)
(* which and how far it has come.  Deleting a profile does not take opMu,  *)
(* nor does the daemon when it shuts down, and a user may change the       *)
(* proxy setting of the system at any time.  IPC calls end before the      *)
(* daemon shuts down; the tray calls EngineStart and EngineStop directly,  *)
(* and may do so during it.                                                *)
(*                                                                         *)
(* A step ends where another actor can see or change something in between: *)
(* at each call of the engine, each write of the database and each write   *)
(* of the proxy setting.  Calls that are refused change nothing and are    *)
(* not steps.  The proxy provider is taken to be available throughout.     *)
(***************************************************************************)
EXTENDS Engine, SystemProxy

VARIABLES
  profiles,  \* the rows of the profiles table
  active,    \* settings.active_profile_id
  op,        \* the call that holds opMu
  daemon     \* the daemon's own goroutine: start-up, serving, shutdown

engineVars == <<engine, box>>
proxyVars == <<os, record>>
dbVars == <<profiles, active>>
vars == <<engine, box, os, record, profiles, active, op, daemon>>

(* op.kept is the record whose snapshot the call would restore, op.old the *)
(* profile to start again should an activation fail, op.back whether it    *)
(* has failed.                                                             *)
NoOp == [call |-> "none", by |-> "none", at |-> "free", profile |-> None, old |-> None,
         kept |-> None, back |-> "no"]
Calls == {"none", "activate", "start", "stop", "enable", "disable"}
OpPoints == {"free", "check", "restore", "delete", "halt", "halting", "start", "starting",
             "save", "bind", "apply", "undo", "undone", "persist", "restart"}

Ops == [call: Calls, by: {"none", "ipc", "tray"}, at: OpPoints,
        profile: Profile \cup {None}, old: Profile \cup {None},
        kept: Records \cup {None}, back: {"no", "yes"}]

Down == [at |-> "down", kept |-> None]
DaemonPoints == {"down", "bootCheck", "bootRestore", "bootDelete", "serving", "shutdown",
                 "stopping", "check", "restore", "delete", "closed"}

TypeOK ==
  /\ EngineTypeOK
  /\ ProxyTypeOK
  /\ profiles \subseteq Profile
  /\ active \in Profile \cup {None}
  /\ op \in Ops
  /\ daemon \in [at: DaemonPoints, kept: Records \cup {None}]

Init ==
  /\ EngineInit /\ ProxyInit
  /\ profiles = Profile /\ active = None
  /\ op = NoOp
  /\ daemon = Down

Free == op = NoOp
Point(p) == op.at = p
Advance(point) == op' = [op EXCEPT !.at = point]
Return == op' = NoOp

Serving == daemon.at = "serving"
DbOpen == daemon.at # "closed"
Unreadable == "os" \in Faults \/ "read" \in Faults
ForgetRecord == IF DbOpen THEN Forget ELSE UNCHANGED proxyVars

-----------------------------------------------------------------------------
(* The calls                                                               *)

Callers == IF Serving THEN {"ipc", "tray"} ELSE {"tray"}

Open(call, by, point, p, old, kept) ==
  op' = [call |-> call, by |-> by, at |-> point, profile |-> p, old |-> old,
         kept |-> kept, back |-> "no"]

\* Up to CheckActivationAllowed: with a runtime held in a fatal state nothing
\* is activated.
ActivateProfile(p) ==
  /\ Free /\ Serving
  /\ p \in profiles
  /\ engine.state = "fatal" => engine.profile = None
  /\ Open("activate", "ipc", "check", p, IF engine.state = "started" THEN active ELSE None,
          None)
  /\ UNCHANGED <<engineVars, proxyVars, dbVars, daemon>>

EngineStart(by) ==
  /\ Free /\ DbOpen
  /\ active \in profiles
  /\ Open("start", by, "start", active, None, None)
  /\ UNCHANGED <<engineVars, proxyVars, dbVars, daemon>>

\* Variant: stops the runtime without releasing the proxy.
EngineStopAtOnce(by) ==
  /\ Free /\ DbOpen
  /\ Open("stop", by, "halt", None, None, None)
  /\ UNCHANGED <<engineVars, proxyVars, dbVars, daemon>>

EngineStop(by) ==
  /\ Free /\ DbOpen
  /\ Open("stop", by, "check", None, None, None)
  /\ UNCHANGED <<engineVars, proxyVars, dbVars, daemon>>

DisableProxy ==
  /\ Free /\ Serving
  /\ Open("disable", "ipc", "check", None, None, None)
  /\ UNCHANGED <<engineVars, proxyVars, dbVars, daemon>>

\* The first HTTP listener of a runtime that answers.
Listening(p) == p \in box /\ Listener[p] # None

\* Variant: takes the present setting for the user's, whatever the record says.
EnableProxyAfresh ==
  /\ Free /\ Serving
  /\ engine.state = "started" /\ Listening(engine.profile)
  /\ Open("enable", "ipc", "save", engine.profile, None,
          [snapshot |-> os, addr |-> Listener[engine.profile]])
  /\ UNCHANGED <<engineVars, proxyVars, dbVars, daemon>>

\* A record already there keeps its snapshot: only the address is new, and
\* nothing is put back if the setting cannot be written.
EnableProxy ==
  /\ Free /\ Serving
  /\ engine.state = "started" /\ Listening(engine.profile)
  /\ record # None => Differs
  /\ LET new == [snapshot |-> os, addr |-> Listener[engine.profile]]
     IN Open("enable", "ipc", "save", engine.profile, None,
             IF record = None THEN new ELSE None)
  /\ UNCHANGED <<engineVars, proxyVars, dbVars, daemon>>

SaveOwner ==
  /\ Point("save")
  /\ \/ /\ Save(IF op.kept = None THEN [record EXCEPT !.addr = Listener[op.profile]]
                ELSE op.kept)
        /\ Advance("apply")
     \/ "write" \in Faults /\ Return /\ UNCHANGED proxyVars
  /\ UNCHANGED <<engineVars, dbVars, daemon>>

-----------------------------------------------------------------------------
(* Releasing the proxy: the first thing ActivateProfile and EngineStop do, *)
(* all of disabling it, and part of a rollback                             *)

Released == IF op.call = "disable" THEN Return ELSE Advance("halt")

Capture == op' = [op EXCEPT !.at = "restore", !.kept = record]

CheckProxy ==
  /\ Point("check")
  /\ \/ DbOpen /\ record = None /\ Released /\ UNCHANGED proxyVars
     \/ DbOpen /\ record # None /\ Differs /\ Forget /\ Released
     \/ /\ DbOpen /\ record # None /\ Matches
        /\ Capture
        /\ UNCHANGED proxyVars
     \/ (Unreadable \/ ~DbOpen) /\ Return /\ UNCHANGED proxyVars
  /\ UNCHANGED <<engineVars, dbVars, daemon>>

\* Variant: a setting that cannot be given back holds nothing up.
RestoreProxyIgnored ==
  /\ Point("restore")
  /\ Write(op.kept.snapshot) \/ WriteFails(op.kept.snapshot)
  /\ Advance("delete")
  /\ UNCHANGED <<engineVars, dbVars, daemon>>

RestoreProxy ==
  /\ Point("restore")
  /\ \/ Write(op.kept.snapshot) /\ Advance("delete")
     \/ WriteFails(op.kept.snapshot) /\ Return
  /\ UNCHANGED <<engineVars, dbVars, daemon>>

DeleteOwner ==
  /\ Point("delete")
  /\ ForgetRecord
  /\ Released
  /\ UNCHANGED <<engineVars, dbVars, daemon>>

-----------------------------------------------------------------------------
(* Stopping and starting the runtime                                       *)

Rollback(point) == op' = [op EXCEPT !.at = point, !.back = "yes"]

HaltRuntime ==
  /\ Point("halt")
  /\ \/ BeginStop /\ Advance("halting")
     \/ /\ ~MayStop
        /\ IF op.call = "activate" /\ op.back = "no" THEN Advance("start") ELSE Return
        /\ UNCHANGED engineVars
  /\ UNCHANGED <<proxyVars, dbVars, daemon>>

Halted ==
  /\ Point("halting")
  /\ \/ /\ StopSucceeds
        /\ IF op.call = "stop" THEN Return
           ELSE Advance(IF op.back = "yes" THEN "restart" ELSE "start")
     \/ StopFails /\ Return
  /\ UNCHANGED <<proxyVars, dbVars, daemon>>

\* Preparing a capability may fail like starting; an activation then rolls
\* back, anything else gives up.
NotStarted ==
  IF op.call = "activate" /\ op.back = "no" THEN Rollback("restart") ELSE Return

StartRuntime ==
  /\ Point("start")
  /\ \/ BeginStart /\ Advance("starting")
     \/ (~MayStart \/ "start" \in Faults) /\ NotStarted /\ UNCHANGED engineVars
  /\ UNCHANGED <<proxyVars, dbVars, daemon>>

Started ==
  /\ Point("starting")
  /\ \/ /\ StartSucceeds(op.profile)
        /\ IF op.call = "activate" /\ op.back = "no"
             THEN Advance(IF op.kept = None THEN "persist" ELSE "bind")
             ELSE Return
     \/ StartFails(op.profile) /\ NotStarted
  /\ UNCHANGED <<proxyVars, dbVars, daemon>>

-----------------------------------------------------------------------------
(* The proxy follows the new runtime                                       *)

\* Variant: points the proxy to the new runtime without saving so first.
BindUnsaved ==
  /\ Point("bind")
  /\ Listening(op.profile)
  /\ Advance("apply")
  /\ UNCHANGED <<engineVars, proxyVars, dbVars, daemon>>

BindProxy ==
  /\ Point("bind")
  /\ \/ /\ Listening(op.profile)
        /\ Save([op.kept EXCEPT !.addr = Listener[op.profile]])
        /\ Advance("apply")
     \/ /\ \/ ~Listening(op.profile)
           \/ "write" \in Faults
           \/ "rpc" \in Faults /\ op.profile \in Hosted
        /\ Rollback("halt")
        /\ UNCHANGED proxyVars
  /\ UNCHANGED <<engineVars, dbVars, daemon>>

ApplyProxy ==
  /\ Point("apply")
  /\ \/ /\ Write(Listener[op.profile])
        /\ IF op.call = "activate" THEN Advance("persist") ELSE Return
     \/ /\ WriteFails(Listener[op.profile])
        /\ IF op.kept = None THEN Return ELSE Advance("undo")
  /\ UNCHANGED <<engineVars, dbVars, daemon>>

Undone == IF op.call = "activate" THEN Rollback("halt") ELSE Return

UndoApply ==
  /\ Point("undo")
  /\ \/ Write(op.kept.snapshot) /\ Advance("undone")
     \/ WriteFails(op.kept.snapshot) /\ Undone
  /\ UNCHANGED <<engineVars, dbVars, daemon>>

ForgetUndone ==
  /\ Point("undone")
  /\ ForgetRecord
  /\ Undone
  /\ UNCHANGED <<engineVars, dbVars, daemon>>

-----------------------------------------------------------------------------
(* The end of an activation                                                *)

PersistActive ==
  /\ Point("persist")
  /\ \/ active' = op.profile /\ Return
     \/ /\ "write" \in Faults
        /\ Rollback(IF op.kept = None THEN "halt" ELSE "restore")
        /\ UNCHANGED active
  /\ UNCHANGED <<engineVars, proxyVars, profiles, daemon>>

StartOld == op' = [op EXCEPT !.at = "start", !.profile = op.old]

\* Variant: the rollback starts the profile whose activation failed.
RestartFailed ==
  /\ Point("restart")
  /\ IF op.old \in profiles
       THEN Advance("start")
       ELSE Return
  /\ UNCHANGED <<engineVars, proxyVars, dbVars, daemon>>

RestartOld ==
  /\ Point("restart")
  /\ IF op.old \in profiles
       THEN StartOld
       ELSE Return
  /\ UNCHANGED <<engineVars, proxyVars, dbVars, daemon>>

-----------------------------------------------------------------------------
(* The daemon                                                              *)

Goto(point) == daemon' = [daemon EXCEPT !.at = point]

Boot ==
  /\ daemon.at = "down"
  /\ Goto("bootCheck")
  /\ UNCHANGED <<engineVars, proxyVars, dbVars, op>>

\* repairStaleProxy at start-up and bestEffortProxyRestore at shutdown do the
\* same: an error leaves everything for the next time.
Repair(check, restore, delete, after) ==
  \/ /\ daemon.at = check
     /\ \/ /\ record = None \/ Unreadable
           /\ Goto(after)
           /\ UNCHANGED proxyVars
        \/ record # None /\ Differs /\ Forget /\ Goto(after)
        \/ /\ record # None /\ Matches
           /\ daemon' = [at |-> restore, kept |-> record]
           /\ UNCHANGED proxyVars
  \/ /\ daemon.at = restore
     /\ \/ Write(daemon.kept.snapshot) /\ daemon' = [at |-> delete, kept |-> None]
        \/ WriteFails(daemon.kept.snapshot) /\ daemon' = [at |-> after, kept |-> None]
  \/ daemon.at = delete /\ Forget /\ Goto(after)

\* Variant: the daemon serves at once.
BootUnrepaired ==
  /\ daemon.at = "bootCheck"
  /\ Goto("serving")
  /\ UNCHANGED <<engineVars, proxyVars, dbVars, op>>

RepairStaleProxy ==
  /\ Repair("bootCheck", "bootRestore", "bootDelete", "serving")
  /\ UNCHANGED <<engineVars, dbVars, op>>

\* The IPC server has returned: no IPC call is in progress.
ServeReturns ==
  /\ Serving /\ op.by # "ipc"
  /\ Goto("shutdown")
  /\ UNCHANGED <<engineVars, proxyVars, dbVars, op>>

\* engine.Shutdown, which is refused while the engine is starting or stopping.
Shutdown ==
  /\ daemon.at = "shutdown"
  /\ \/ BeginStop /\ Goto("stopping")
     \/ ~MayStop /\ Goto("check") /\ UNCHANGED engineVars
  /\ UNCHANGED <<proxyVars, dbVars, op>>

\* Variant: a shutdown whose stop fails returns that error at once.
ShutdownStoppedOrGiveUp ==
  /\ daemon.at = "stopping"
  /\ \/ StopSucceeds /\ Goto("check")
     \/ StopFails /\ Goto("closed")
  /\ UNCHANGED <<proxyVars, dbVars, op>>

ShutdownStopped ==
  /\ daemon.at = "stopping"
  /\ StopSucceeds \/ StopFails
  /\ Goto("check")
  /\ UNCHANGED <<proxyVars, dbVars, op>>

RestoreOnShutdown ==
  /\ Repair("check", "restore", "delete", "closed")
  /\ UNCHANGED <<engineVars, dbVars, op>>

Die ==
  /\ daemon' = Down /\ op' = NoOp
  /\ EngineLost
  /\ UNCHANGED <<proxyVars, dbVars>>

Exit == daemon.at = "closed" /\ Die

Crash == "crash" \in Faults /\ daemon.at # "down" /\ Die

-----------------------------------------------------------------------------
(* The others                                                              *)

\* DeleteProfile: one transaction, without opMu.
DeleteProfile(p) ==
  /\ Serving
  /\ p \in profiles
  /\ profiles' = profiles \ {p}
  /\ active' = IF active = p THEN None ELSE active
  /\ UNCHANGED <<engineVars, proxyVars, op, daemon>>

UserSetsProxy(s) ==
  /\ os' = s
  /\ UNCHANGED <<engineVars, record, dbVars, op, daemon>>

ProviderReclaims(p) ==
  /\ Reclaimed(p)
  /\ UNCHANGED <<proxyVars, dbVars, op, daemon>>

-----------------------------------------------------------------------------
Begin ==
  \/ \E p \in Profile : ActivateProfile(p)
  \/ daemon.at \notin {"down", "bootCheck", "bootRestore", "bootDelete"}
     /\ \E by \in Callers : EngineStart(by) \/ EngineStop(by)
  \/ EnableProxy \/ DisableProxy

OpStep ==
  \/ CheckProxy \/ RestoreProxy \/ DeleteOwner
  \/ HaltRuntime \/ Halted \/ StartRuntime \/ Started
  \/ SaveOwner \/ BindProxy \/ ApplyProxy \/ UndoApply \/ ForgetUndone
  \/ PersistActive \/ RestartOld

DaemonStep ==
  \/ RepairStaleProxy
  \/ Shutdown \/ ShutdownStopped \/ RestoreOnShutdown

Environment ==
  \/ \E p \in Profile : DeleteProfile(p) \/ ProviderReclaims(p)
  \/ \E s \in Setting : UserSetsProxy(s)

Next ==
  \/ Begin \/ OpStep
  \/ Boot \/ DaemonStep \/ ServeReturns \/ Exit \/ Crash
  \/ Environment

Spec == Init /\ [][Next]_vars

-----------------------------------------------------------------------------
(* Properties                                                              *)

(* Whatever fails and wherever the daemon crashes, an address of qkbox in  *)
(* the system's proxy setting is covered by a record that names it, so the *)
(* next start can put the user's setting back.  Not so one that a failed   *)
(* write has brought back: it is in place after a failure anyway, and may  *)
(* be that of an earlier runtime (Stray).                                  *)
RecordCoversProxy == os \in Address => record # None /\ record.addr = os

(* A sing-box instance in this process is always the one whose owner the   *)
(* engine holds, through failed stops, fatal states, rollbacks and a       *)
(* shutdown beside a call of the tray: none is out of reach, and there are *)
(* never two.                                                              *)
LocalBoxIsHeld == \A p \in box \ Hosted : engine.profile = p

(* While the setting of the system can be read and written, the running    *)
(* profile is between calls the active one, unless it has been deleted: no *)
(* failed activation, and no failing rollback, leaves the two apart.       *)
ActiveIsRunning ==
  Free /\ engine.state = "started" => active \in {engine.profile, None}

(* While the setting of the system can be read and written, no call stops  *)
(* a runtime the system's proxy setting points to: EngineStop, activation  *)
(* and each of its rollbacks release the proxy first.                      *)
ProxyLeavesFirst == Point("halting") => os \notin Address

(* Whatever fails, reading and writing the setting included, a call that   *)
(* has failed in nothing else yet stops a runtime only once no address of  *)
(* qkbox is in the setting: not if the record cannot be read, not if the   *)
(* user's setting cannot be given back, and not beside a shutdown.  (One a *)
(* failed write has brought back, Stray, is not told apart from the user's.) *)
StopNeedsRelease == Point("halting") /\ op.back = "no" => os \notin Address

(* The runtime held runs, but for a hosted one that the provider ended     *)
(* because it lost touch with the owner (publishProviderError says so to   *)
(* the windows, and nothing else happens).                                 *)
HeldRuns ==
  \/ engine.profile \in box
  \/ engine.profile \in Hosted /\ "rpc" \in Faults

(* While the setting of the system can be read and written, a daemon that  *)
(* serves has between calls no proxy setting that points to a dead port:   *)
(* the runtime held listens there and runs, after failed activations and   *)
(* failed stops as after a crash and the repair at start-up.  The          *)
(* exception is a hosted runtime the provider has ended: the setting still *)
(* points to it until the user stops it.                                   *)
NoDeadProxy ==
  Free /\ Serving /\ os \in Address =>
    engine.profile # None /\ os = Listener[engine.profile] /\ HeldRuns

(* While the setting of the system can be read and written, a shutdown has *)
(* put the user's setting back when it is done, even beside a call of the  *)
(* tray and when it finds the engine busy or its stop fails.               *)
ShutdownRestoresProxy == daemon.at = "closed" => os \notin Address

Promise == INSTANCE ProxyPromise
             WITH remembered <- IF record = None THEN None ELSE record.snapshot

(* As long as no write of the setting stops half way, qkboxd keeps the     *)
(* promise of ProxyPromise, across every fault and crash.                  *)
KeepsPromise == Promise!Spec
=============================================================================

--------------------------- MODULE ProviderRuntime ---------------------------
(***************************************************************************)
(* The privileged provider's runtime controller (internal/providerruntime) *)
(* It lends the machine network to one qkbox runtime at a time: a start    *)
(* writes an owner record to disk and starts a sing-box instance, the      *)
(* owner's heartbeats keep the loan, a monitor per start stops a runtime   *)
(* whose heartbeats cease, and a record found at start-up is stale until   *)
(* somebody repairs it.                                                    *)
(*                                                                         *)
(* Two mutexes shape every interleaving.  opMu is held by a RuntimeStart   *)
(* or RuntimeStop from its first to its last line: variable op says who    *)
(* holds it and how far that call has come.  mu covers single sections     *)
(* only, so one section is one step, and heartbeats, repairs and markStale *)
(* run between any two steps of the call that holds opMu.                  *)
(*                                                                         *)
(* A request the controller refuses, and a repeated start by the present   *)
(* owner, leave the state alone and are not steps.                         *)
(*                                                                         *)
(* Definitions marked "Variant" are a plausible mistake in the definition  *)
(* below them; no specification here uses them, they show that a property  *)
(* would notice the mistake.                                               *)
(***************************************************************************)
EXTENDS FiniteSets

CONSTANTS
  Runtime,   \* (session id, runtime id) pairs: qkboxd draws a new one per start
  None,      \* no runtime
  Torn,      \* the content of a record file whose write did not finish
  Faults,    \* the environment faults that may occur
  Repairs    \* does anybody send the repair action?

FaultKinds == {"save", "delete", "start", "stop", "crash"}

ASSUME RuntimeAssumption == None \notin Runtime /\ Torn \notin Runtime /\ None # Torn
ASSUME FaultsAssumption == Faults \subseteq FaultKinds
ASSUME RepairsAssumption == Repairs \in BOOLEAN

VARIABLES
  phase,     \* the provider process
  op,        \* the call that holds opMu
  owner,     \* c.owner: whose record, is it marked stale, is its heartbeat late
  adapter,   \* c.adapter, named by the runtime it was started for
  hbCancel,  \* c.heartbeatCancel, named by the monitor it cancels
  monitor,   \* one heartbeat monitor goroutine per started runtime
  cancelled, \* the monitors whose context is cancelled
  live,      \* the sing-box instances that run
  disk,      \* provider-runtime-owner.json
  issued,    \* the runtimes for which a start has been requested
  gone       \* the runtimes whose client no longer heartbeats

vars == <<phase, op, owner, adapter, hbCancel, monitor, cancelled, live, disk,
          issued, gone>>
monitors == <<hbCancel, monitor, cancelled>>
clients == <<issued, gone>>

Phases == {"up", "closing", "exiting", "down"}
OpPoints == {"starting", "startFailed", "startCleared", "started", "installed",
             "stopping", "stopFailed", "closed", "deleted", "deleteFailed"}
MonitorPoints == {"none", "waiting", "checked", "stopping", "failed", "done"}

NoOwner == [id |-> None, mark |-> "valid", beat |-> "fresh"]
NoOp == [at |-> "free", by |-> None, id |-> None]
NoMonitor == [at |-> "none", id |-> None]

TypeOK ==
  /\ phase \in Phases
  /\ op \in {NoOp} \cup [at: OpPoints, by: Runtime \cup {None}, id: Runtime]
  /\ owner \in [id: Runtime \cup {None}, mark: {"valid", "stale"},
                beat: {"fresh", "late"}]
  /\ adapter \in Runtime \cup {None}
  /\ hbCancel \in Runtime \cup {None}
  /\ monitor \in [Runtime -> [at: MonitorPoints, id: Runtime \cup {None}]]
  /\ cancelled \subseteq Runtime
  /\ live \subseteq Runtime
  /\ disk \in Runtime \cup {None, Torn}
  /\ issued \subseteq Runtime
  /\ gone \subseteq Runtime

Init ==
  /\ phase = "up"
  /\ op = NoOp
  /\ owner = NoOwner
  /\ adapter = None
  /\ hbCancel = None
  /\ monitor = [m \in Runtime |-> NoMonitor]
  /\ cancelled = {}
  /\ live = {}
  /\ disk = None
  /\ issued = {}
  /\ gone = {}

-----------------------------------------------------------------------------
(* Files, and the sections under mu that several calls share.              *)

\* saveOwnerRecord truncates the file, then writes it: a failure leaves the
\* old content or a torn one.
FailedSaves == IF "save" \in Faults THEN {disk, Torn} ELSE {}
SaveResults(r) == {r} \cup FailedSaves

DeleteResults == {None} \cup IF "delete" \in Faults THEN {disk} ELSE {}

\* markStale flags whatever record c.owner holds by then.
MarkStale ==
  IF owner.id = None
    THEN UNCHANGED <<owner, disk>>
    ELSE /\ owner' = [owner EXCEPT !.mark = "stale"]
         /\ disk' \in SaveResults(owner.id)

Stale == owner.mark = "stale"
At(point) == op.at = point
Advance(point) == op' = [op EXCEPT !.at = point]

\* The call returns and opMu is released.  A monitor that made the call goes
\* on with its verdict.
Return(verdict) ==
  /\ op' = NoOp
  /\ monitor' = IF op.by = None THEN monitor
                ELSE [monitor EXCEPT ![op.by].at = verdict]

-----------------------------------------------------------------------------
(* RuntimeStart                                                            *)

\* Variant: the check for a stale owner is forgotten.
StartAdmittedOverStale == owner.id = None \/ Stale

StartAdmitted == owner.id = None

RequestStart(r) ==
  /\ phase = "up" /\ At("free")
  /\ r \notin issued
  /\ StartAdmitted
  /\ issued' = issued \cup {r}
  /\ \/ /\ disk' = r
        /\ owner' = [id |-> r, mark |-> "valid", beat |-> "fresh"]
        /\ op' = [at |-> "starting", by |-> None, id |-> r]
     \/ /\ disk' \in FailedSaves
        /\ UNCHANGED <<owner, op>>
  /\ UNCHANGED <<phase, adapter, monitors, live, gone>>

\* adapter.Start, without mu.
StartBox ==
  /\ At("starting")
  /\ \/ live' = live \cup {op.id} /\ Advance("started")
     \/ "start" \in Faults /\ Advance("startFailed") /\ UNCHANGED live
  /\ UNCHANGED <<phase, owner, adapter, monitors, disk, clients>>

\* The start failed: the record is deleted, an error of that ignored.
DeleteFailedStart ==
  /\ At("startFailed")
  /\ disk' \in DeleteResults
  /\ Advance("startCleared")
  /\ UNCHANGED <<phase, owner, adapter, monitors, live, clients>>

ClearFailedStart ==
  /\ At("startCleared")
  /\ owner' = IF owner.id = op.id THEN NoOwner ELSE owner
  /\ adapter' = IF adapter = op.id THEN None ELSE adapter
  /\ Return("done")
  /\ UNCHANGED <<phase, hbCancel, cancelled, live, disk, clients>>

\* Variant: the adapter is installed without asking who owns it by now.
InstallBlindly == adapter' = op.id

InstallIfOwner == adapter' = IF owner.id = op.id THEN op.id ELSE adapter

InstallAdapter ==
  /\ At("started")
  /\ InstallIfOwner
  /\ Advance("installed")
  /\ UNCHANGED <<phase, owner, monitors, live, disk, clients>>

Cancel == cancelled' = cancelled \cup ({hbCancel} \ {None})

\* Variant: cancels after it has replaced the cancel function, so it cancels
\* the new monitor.
WatchThenCancel(r) ==
  /\ hbCancel' = r
  /\ monitor' = [monitor EXCEPT ![r].at = "waiting"]
  /\ cancelled' = cancelled \cup {r}

Watch(r) ==
  /\ hbCancel' = r
  /\ monitor' = [monitor EXCEPT ![r].at = "waiting"]
  /\ Cancel

\* startHeartbeatMonitor, and the reply.
StartMonitor ==
  /\ At("installed")
  /\ Watch(op.id)
  /\ op' = NoOp
  /\ UNCHANGED <<phase, owner, adapter, live, disk, clients>>

-----------------------------------------------------------------------------
(* RuntimeStop, called by a client, by a monitor or by Close               *)

\* Variant: the ids of the request are not compared.
StopAdmittedToAnyone(r) == owner.id # None

StopAdmitted(r) == owner.id = r /\ ~(Stale /\ adapter = None)

BeginStop(r, by) ==
  /\ op' = [at |-> "stopping", by |-> by, id |-> r]
  /\ Cancel
  /\ hbCancel' = None
  /\ UNCHANGED <<owner, adapter, live, disk, clients>>

RequestStop(r) ==
  /\ phase = "up" /\ At("free")
  /\ owner.id # None
  /\ StopAdmitted(r)
  /\ BeginStop(r, None)
  /\ UNCHANGED <<phase, monitor>>

\* Variant: the record goes before the instance.
StopBoxAfterDelete ==
  /\ At("stopping")
  /\ disk' = None
  /\ \/ live' = live \ {adapter} /\ Advance("closed")
     \/ adapter # None /\ "stop" \in Faults /\ Advance("stopFailed") /\ UNCHANGED live
  /\ UNCHANGED <<phase, owner, adapter, monitors, clients>>

StopBox ==
  /\ At("stopping")
  /\ \/ live' = live \ {adapter} /\ Advance("closed")
     \/ adapter # None /\ "stop" \in Faults /\ Advance("stopFailed") /\ UNCHANGED live
  /\ UNCHANGED <<phase, owner, adapter, monitors, disk, clients>>

StopFailed ==
  /\ At("stopFailed")
  /\ MarkStale
  /\ Return("failed")
  /\ UNCHANGED <<phase, adapter, hbCancel, cancelled, live, clients>>

DeleteRecord ==
  /\ At("closed")
  /\ \/ disk' = None /\ Advance("deleted")
     \/ "delete" \in Faults /\ Advance("deleteFailed") /\ UNCHANGED disk
  /\ UNCHANGED <<phase, owner, adapter, monitors, live, clients>>

\* The record outlived the runtime: stale in memory, the file as it was.
DeleteFailed ==
  /\ At("deleteFailed")
  /\ adapter' = None
  /\ owner' = IF owner.id = None THEN owner ELSE [owner EXCEPT !.mark = "stale"]
  /\ Return("failed")
  /\ UNCHANGED <<phase, hbCancel, cancelled, live, disk, clients>>

StopDone ==
  /\ At("deleted")
  /\ adapter' = None
  /\ owner' = NoOwner
  /\ Return("done")
  /\ UNCHANGED <<phase, hbCancel, cancelled, live, disk, clients>>

-----------------------------------------------------------------------------
(* Calls under mu alone: RuntimeHeartbeat and RunRepairAction              *)

RunningOwner(r) == owner.id = r /\ ~Stale /\ adapter # None

Heartbeat(r) ==
  /\ phase = "up"
  /\ r \notin gone
  /\ RunningOwner(r)
  /\ owner' = [owner EXCEPT !.beat = "fresh"]
  /\ disk' \in SaveResults(r)
  /\ UNCHANGED <<phase, op, adapter, monitors, live, clients>>

RepairAdmitted == adapter = None /\ owner.id # None /\ Stale

RunRepairAction ==
  /\ Repairs /\ phase = "up"
  /\ RepairAdmitted
  /\ disk' = None
  /\ owner' = NoOwner
  /\ UNCHANGED <<phase, op, adapter, monitors, live, clients>>

-----------------------------------------------------------------------------
(* The heartbeat monitors.  A cancelled monitor whose ticker has fired may  *)
(* still take the tick: select picks either ready case.                     *)

\* The owner's last heartbeat falls behind the timeout.
Expire ==
  /\ phase # "down"
  /\ owner.id # None /\ owner.beat = "fresh"
  /\ owner' = [owner EXCEPT !.beat = "late"]
  /\ UNCHANGED <<phase, op, adapter, monitors, live, disk, clients>>

MonitorTick(m) ==
  /\ monitor[m].at = "waiting"
  /\ owner.id # None /\ owner.beat = "late"
  /\ monitor' = [monitor EXCEPT ![m].at = "checked", ![m].id = owner.id]
  /\ UNCHANGED <<phase, op, owner, adapter, hbCancel, cancelled, live, disk, clients>>

MonitorExit(m) ==
  /\ monitor[m].at = "waiting" /\ m \in cancelled
  /\ monitor' = [monitor EXCEPT ![m].at = "done"]
  /\ UNCHANGED <<phase, op, owner, adapter, hbCancel, cancelled, live, disk, clients>>

\* The monitor's RuntimeStop gets opMu: nothing to stop, a stop, or a refusal.
MonitorStop(m) ==
  /\ monitor[m].at = "checked" /\ At("free")
  /\ \/ /\ owner.id = None
        /\ monitor' = [monitor EXCEPT ![m].at = "done"]
        /\ UNCHANGED <<op, owner, adapter, hbCancel, cancelled, live, disk, clients>>
     \/ /\ owner.id # None
        /\ StopAdmitted(monitor[m].id)
        /\ BeginStop(monitor[m].id, m)
        /\ monitor' = [monitor EXCEPT ![m].at = "stopping"]
     \/ /\ owner.id # None
        /\ ~StopAdmitted(monitor[m].id)
        /\ monitor' = [monitor EXCEPT ![m].at = "failed"]
        /\ UNCHANGED <<op, owner, adapter, hbCancel, cancelled, live, disk, clients>>
  /\ UNCHANGED phase

MonitorMarkStale(m) ==
  /\ monitor[m].at = "failed"
  /\ MarkStale
  /\ monitor' = [monitor EXCEPT ![m].at = "done"]
  /\ UNCHANGED <<phase, op, adapter, hbCancel, cancelled, live, clients>>

-----------------------------------------------------------------------------
(* The process                                                             *)

ClientGone(r) ==
  /\ r \in issued \ gone
  /\ gone' = gone \cup {r}
  /\ UNCHANGED <<phase, op, owner, adapter, monitors, live, disk, issued>>

\* main: Serve has returned, so no request is in progress, and Close runs.
CloseBegin ==
  /\ phase = "up"
  /\ At("free") \/ op.by # None
  /\ phase' = IF adapter = None \/ owner.id = None \/ Stale
                THEN "exiting" ELSE "closing"
  /\ UNCHANGED <<op, owner, adapter, monitors, live, disk, clients>>

\* Close's own RuntimeStop gets opMu.
CloseStop ==
  /\ phase = "closing" /\ At("free")
  /\ phase' = "exiting"
  /\ IF StopAdmitted(owner.id) /\ owner.id # None
       THEN BeginStop(owner.id, None) /\ UNCHANGED monitor
       ELSE UNCHANGED <<op, owner, adapter, monitors, live, disk, clients>>

\* The process ends, whatever its goroutines were doing.
Die ==
  /\ phase' = "down"
  /\ op' = NoOp /\ owner' = NoOwner /\ adapter' = None /\ live' = {}
  /\ monitor' = [m \in Runtime |-> NoMonitor] /\ hbCancel' = None /\ cancelled' = {}
  /\ disk' \in {disk} \cup FailedSaves
  /\ UNCHANGED clients

Exit ==
  /\ phase = "exiting"
  /\ At("free") \/ op.by # None
  /\ Die

Crash ==
  /\ "crash" \in Faults
  /\ phase # "down"
  /\ Die

RestartOwner ==
  IF disk \in Runtime THEN [id |-> disk, mark |-> "stale", beat |-> "late"] ELSE NoOwner

\* NewController: a record left on disk is the record of a stale owner.
Restart ==
  /\ phase = "down"
  /\ phase' = "up"
  /\ owner' = RestartOwner
  /\ disk' \in IF disk \in Runtime THEN SaveResults(disk) ELSE {disk}
  /\ UNCHANGED <<op, adapter, monitors, live, clients>>

-----------------------------------------------------------------------------
OpStep ==
  \/ StartBox \/ DeleteFailedStart \/ ClearFailedStart \/ InstallAdapter \/ StartMonitor
  \/ StopBox \/ StopFailed \/ DeleteRecord \/ DeleteFailed \/ StopDone

Request(r) == RequestStart(r) \/ RequestStop(r) \/ Heartbeat(r) \/ ClientGone(r)

MonitorStep(m) == MonitorTick(m) \/ MonitorExit(m) \/ MonitorStop(m) \/ MonitorMarkStale(m)

Process == CloseBegin \/ CloseStop \/ Exit \/ Crash \/ Restart

Next ==
  \/ \E r \in Runtime : Request(r)
  \/ OpStep
  \/ RunRepairAction
  \/ Expire
  \/ \E m \in Runtime : MonitorStep(m)
  \/ Process

Spec == Init /\ [][Next]_vars

\* The Go scheduler runs every goroutine that can run, time passes, and a
\* process told to exit does.  Nothing is assumed of clients, of repairs, of
\* crashes or of a restart.
Fairness ==
  /\ WF_vars(OpStep)
  /\ WF_vars(owner.id \in gone /\ Expire)
  /\ \A m \in Runtime : WF_vars(MonitorStep(m))
  /\ WF_vars(CloseStop) /\ WF_vars(Exit)

FairSpec == Spec /\ Fairness

-----------------------------------------------------------------------------
(* Properties                                                              *)

(* The adapter the controller would stop belongs to the runtime its owner  *)
(* record names: whatever requests, repairs, late monitors and failures    *)
(* come between, an adapter is never kept under another's record or none.  *)
AdapterOwned == adapter # None => owner.id = adapter

(* A start is admitted, acknowledged and runs for seconds without mu; as   *)
(* long as nobody repairs, no interleaving of failed stops, late monitors, *)
(* exits and restarts lets a second sing-box instance run beside a first.  *)
AtMostOneBox == \A r, s \in live : r = s

(* An owned instance is on disk before it runs and until it is closed, so  *)
(* the provider that comes up after a crash knows of it.  This needs saves *)
(* that do not fail.                                                       *)
RecordCoversBox == \A r \in live : owner.id = r => disk = r

Watching(m) == monitor[m].at \in {"waiting", "checked"} /\ m \notin cancelled

(* A running owner that is not stale is watched by the monitor of its own  *)
(* start, and RuntimeStop can reach that monitor's cancel function: no     *)
(* cancel aimed at an earlier monitor ever hits it.                        *)
RunningIsWatched ==
  (At("free") /\ adapter # None /\ ~Stale) => hbCancel = adapter /\ Watching(adapter)

(* While the process lives, an instance is closed only by a stop that was  *)
(* admitted for that very runtime.                                         *)
ClosedByItsOwnStop ==
  [][\A r \in live : r \notin live' /\ phase' # "down" => op.id = r /\ op.at = "stopping"]_vars

(* A stale owner stays until a repair or the completed stop of its own     *)
(* runtime releases it; in particular no start replaces it and no          *)
(* heartbeat revives it.                                                   *)
StaleUntilReleased ==
  [][Stale /\ phase' # "down" =>
       \/ Stale' /\ owner'.id = owner.id
       \/ owner' = NoOwner /\ (adapter = None \/ adapter \notin live)]_vars

(* The runtime of a client that has gone is stopped or at least flagged,   *)
(* however its monitor, failing stops and the loss of the process race.    *)
GoneClientIsReclaimed ==
  \A r \in Runtime :
    (adapter = r /\ r \in gone) ~> (adapter # r \/ Stale)

Lock == INSTANCE MachineNetworkLock
          WITH holder <- owner.id, mark <- owner.mark, running <- live

(* As long as nobody repairs, the controller keeps the promise of          *)
(* MachineNetworkLock: its record is the holder, its instances the running *)
(* ones.                                                                   *)
KeepsTheLock == Lock!Spec
=============================================================================

------------------------ MODULE ProviderRuntimeProofs ------------------------
(***************************************************************************)
(* Theorems about ProviderRuntime, for every set of runtimes and every     *)
(* combination of faults.                                                  *)
(***************************************************************************)
EXTENDS ProviderRuntime, TLAPS

USE RuntimeAssumption, FaultsAssumption, RepairsAssumption

(* Every step keeps every variable in its type.                            *)
LEMMA TypeStep == TypeOK /\ [Next]_vars => TypeOK'
<1> SUFFICES ASSUME TypeOK, [Next]_vars PROVE TypeOK'
  OBVIOUS
<1> USE DEF TypeOK, OpPoints, MonitorPoints, Phases, NoOp, NoOwner, NoMonitor, At, Advance,
            Return, SaveResults, FailedSaves, DeleteResults, monitors, clients
<1>1. ASSUME NEW r \in Runtime, RequestStart(r) PROVE TypeOK'
  BY <1>1 DEF RequestStart
<1>2. ASSUME NEW r \in Runtime, RequestStop(r) PROVE TypeOK'
  BY <1>2 DEF RequestStop, BeginStop, Cancel
<1>3. ASSUME NEW r \in Runtime, Heartbeat(r) PROVE TypeOK'
  BY <1>3 DEF Heartbeat
<1>4. ASSUME NEW r \in Runtime, ClientGone(r) PROVE TypeOK'
  BY <1>4 DEF ClientGone
<1>5. CASE StartBox \/ DeleteFailedStart
  BY <1>5 DEF StartBox, DeleteFailedStart
<1>21. CASE ClearFailedStart
  BY <1>21 DEF ClearFailedStart
<1>22. CASE InstallAdapter
  BY <1>22 DEF InstallAdapter, InstallIfOwner
<1>6. CASE StartMonitor
  <2>1. op.id \in Runtime
    BY <1>6 DEF StartMonitor
  <2>2. monitor' \in [Runtime -> [at: MonitorPoints, id: Runtime \cup {None}]]
    BY <1>6, <2>1 DEF StartMonitor, Watch
  <2>3. QED
    BY <1>6, <2>2 DEF StartMonitor, Watch, Cancel
<1>7. CASE StopBox \/ DeleteRecord
  BY <1>7 DEF StopBox, DeleteRecord
<1>19. CASE DeleteFailed
  BY <1>19 DEF DeleteFailed
<1>20. CASE StopDone
  BY <1>20 DEF StopDone
<1>8. CASE StopFailed
  BY <1>8 DEF StopFailed, MarkStale
<1>9. CASE RunRepairAction \/ Expire
  BY <1>9 DEF RunRepairAction, Expire
<1>10. ASSUME NEW m \in Runtime, MonitorTick(m) \/ MonitorExit(m) PROVE TypeOK'
  BY <1>10 DEF MonitorTick, MonitorExit
<1>11. ASSUME NEW m \in Runtime, MonitorStop(m) PROVE TypeOK'
  <2>1. monitor' \in [Runtime -> [at: MonitorPoints, id: Runtime \cup {None}]]
    BY <1>11 DEF MonitorStop
  <2>2. CASE /\ StopAdmitted(monitor[m].id) /\ owner.id # None
             /\ BeginStop(monitor[m].id, m)
    <3>1. monitor[m].id \in Runtime
      BY <2>2 DEF StopAdmitted
    <3>2. op' \in [at: OpPoints, by: Runtime \cup {None}, id: Runtime]
      BY <2>2, <3>1 DEF BeginStop
    <3>3. QED
      BY <1>11, <2>1, <2>2, <3>2 DEF MonitorStop, BeginStop, Cancel
  <2>3. CASE UNCHANGED <<op, owner, adapter, hbCancel, cancelled, live, disk, clients>>
    BY <1>11, <2>1, <2>3 DEF MonitorStop
  <2>4. QED
    BY <1>11, <2>2, <2>3 DEF MonitorStop
<1>12. ASSUME NEW m \in Runtime, MonitorMarkStale(m) PROVE TypeOK'
  BY <1>12 DEF MonitorMarkStale, MarkStale
<1>13. CASE CloseBegin
  BY <1>13 DEF CloseBegin
<1>14. CASE CloseStop
  BY <1>14 DEF CloseStop, BeginStop, Cancel
<1>15. CASE Exit \/ Crash
  BY <1>15 DEF Exit, Crash, Die
<1>16. CASE Restart
  BY <1>16 DEF Restart, RestartOwner
<1>17. CASE UNCHANGED vars
  BY <1>17 DEF vars
<1>18. QED
  BY <1>1, <1>2, <1>3, <1>4, <1>5, <1>6, <1>7, <1>19, <1>20, <1>21, <1>22, <1>8, <1>9, <1>10, <1>11, <1>12, <1>13,
     <1>14, <1>15, <1>16, <1>17 DEF Next, Request, OpStep, MonitorStep, Process

(* Every variable keeps its type: a torn record file, for one, never comes *)
(* into memory as an owner.                                                *)
THEOREM TypeCorrect == Spec => []TypeOK
<1>1. Init => TypeOK
  BY DEF Init, TypeOK, OpPoints, MonitorPoints, Phases, NoOp, NoOwner, NoMonitor
<1>2. QED
  BY <1>1, TypeStep, PTL DEF Spec

-----------------------------------------------------------------------------
(* Who owns what while a call holds opMu                                    *)

StartPoints == {"starting", "startFailed", "startCleared", "started"}
StopPoints == {"stopping", "stopFailed", "closed", "deleted", "deleteFailed"}

(* Strengthens AdapterOwned by what each call knows at each point: nothing *)
(* is installed while a start is under way, a stop concerns the adapter of *)
(* the runtime it names, an owner without an adapter is stale once its     *)
(* start is over, every name in memory or on disk was issued, and nothing  *)
(* is left in a process that is down.                                      *)
OpInv ==
  /\ AdapterOwned
  /\ owner.id = None => owner.mark = "valid"
  /\ op.at \in StartPoints => adapter = None /\ op.by = None
  /\ op.at \in StartPoints \cup {"installed"} => owner.id \in {None, op.id}
  /\ op.at \in StopPoints => adapter = op.id
  /\ op.at \in {"free", "installed"} /\ owner.id # None /\ ~Stale => adapter # None
  /\ owner.id \in issued \cup {None} /\ disk \in issued \cup {None, Torn}
  /\ ~At("free") => op.id \in issued
  /\ phase = "down" => /\ op = NoOp /\ owner = NoOwner /\ adapter = None /\ live = {}
                       /\ \A m \in Runtime : monitor[m] = NoMonitor

(* Whatever call holds opMu, and however far it has come, every step leaves *)
(* owner, adapter and issued runtimes in agreement with that point.        *)
LEMMA OpInvStep == TypeOK /\ OpInv /\ [Next]_vars => OpInv'
<1> SUFFICES ASSUME TypeOK, OpInv, [Next]_vars PROVE OpInv'
  OBVIOUS
<1> USE DEF TypeOK, OpPoints, NoOp, NoOwner, At, Advance, OpInv, AdapterOwned, StartPoints,
            StopPoints, Stale, monitors, clients
<1>1. ASSUME NEW r \in Runtime, RequestStart(r) PROVE OpInv'
  BY <1>1 DEF RequestStart, StartAdmitted, FailedSaves
<1>2. ASSUME NEW r \in Runtime, RequestStop(r) PROVE OpInv'
  BY <1>2 DEF RequestStop, BeginStop, StopAdmitted
<1>3. ASSUME NEW r \in Runtime, Heartbeat(r) PROVE OpInv'
  BY <1>3 DEF Heartbeat, RunningOwner, SaveResults, FailedSaves
<1>4. ASSUME NEW r \in Runtime, ClientGone(r) PROVE OpInv'
  BY <1>4 DEF ClientGone
<1>5. CASE StartBox
  BY <1>5 DEF StartBox
<1>6. CASE DeleteFailedStart
  BY <1>6 DEF DeleteFailedStart, DeleteResults
<1>7. CASE ClearFailedStart
  BY <1>7 DEF ClearFailedStart, Return
<1>8. CASE InstallAdapter
  BY <1>8 DEF InstallAdapter, InstallIfOwner
<1>9. CASE StartMonitor
  BY <1>9 DEF StartMonitor
<1>10. CASE StopBox
  BY <1>10 DEF StopBox
<1>11. CASE StopFailed
  BY <1>11 DEF StopFailed, MarkStale, Return, SaveResults, FailedSaves
<1>12. CASE DeleteRecord
  BY <1>12 DEF DeleteRecord
<1>13. CASE DeleteFailed
  BY <1>13 DEF DeleteFailed, Return
<1>14. CASE StopDone
  BY <1>14 DEF StopDone, Return
<1>15. CASE RunRepairAction
  BY <1>15 DEF RunRepairAction, RepairAdmitted
<1>16. CASE Expire
  BY <1>16 DEF Expire
<1>17. ASSUME NEW m \in Runtime, MonitorTick(m) \/ MonitorExit(m) PROVE OpInv'
  BY <1>17 DEF MonitorTick, MonitorExit, NoMonitor
<1>18. ASSUME NEW m \in Runtime, MonitorStop(m) PROVE OpInv'
  BY <1>18 DEF MonitorStop, BeginStop, StopAdmitted, NoMonitor
<1>19. ASSUME NEW m \in Runtime, MonitorMarkStale(m) PROVE OpInv'
  BY <1>19 DEF MonitorMarkStale, MarkStale, NoMonitor, SaveResults, FailedSaves
<1>20. CASE CloseBegin
  BY <1>20 DEF CloseBegin
<1>21. CASE CloseStop
  BY <1>21 DEF CloseStop, BeginStop, StopAdmitted
<1>22. CASE Exit \/ Crash
  BY <1>22 DEF Exit, Crash, Die, FailedSaves
<1>23. CASE Restart
  BY <1>23 DEF Restart, RestartOwner, SaveResults, FailedSaves
<1>24. CASE UNCHANGED vars
  BY <1>24 DEF vars
<1>25. QED
  BY <1>1, <1>2, <1>3, <1>4, <1>5, <1>6, <1>7, <1>8, <1>9, <1>10, <1>11, <1>12, <1>13,
     <1>14, <1>15, <1>16, <1>17, <1>18, <1>19, <1>20, <1>21, <1>22, <1>23, <1>24
     DEF Next, Request, OpStep, MonitorStep, Process

(* The invariant of the calls that hold opMu is one of the specification.  *)
LEMMA OpInvHolds == Spec => [](TypeOK /\ OpInv)
<1>1. Init => OpInv
  BY DEF Init, OpInv, AdapterOwned, StartPoints, StopPoints, At, NoOp, NoOwner
<1>2. QED
  BY <1>1, OpInvStep, TypeStep, TypeCorrect, PTL DEF Spec

(* The adapter the controller would stop is always the adapter of the      *)
(* runtime its owner record names, under every fault and with repairs.     *)
THEOREM AdapterIsOwned == Spec => []AdapterOwned
<1>1. OpInv => AdapterOwned
  BY DEF OpInv
<1>2. QED
  BY <1>1, OpInvHolds, PTL

-----------------------------------------------------------------------------
(* One instance, if nobody repairs                                         *)

(* Where the instances are at each point of the call that holds opMu: none *)
(* before a start has succeeded or after a stop has closed the box, and    *)
(* otherwise the installed adapter's or the one just started.              *)
Exclusive ==
  /\ op.at \in StartPoints => owner.id = op.id
  /\ op.at \in {"starting", "startFailed", "startCleared"} => live = {}
  /\ At("started") => live \subseteq {op.id}
  /\ op.at \in {"free", "installed", "stopping", "stopFailed"} => live \subseteq {adapter}
  /\ op.at \in {"closed", "deleted", "deleteFailed"} => live = {}

(* No step but a repair lets an instance run outside its place.            *)
LEMMA ExclusiveStep ==
  ASSUME Repairs = FALSE
  PROVE  TypeOK /\ OpInv /\ Exclusive /\ [Next]_vars => Exclusive'
<1> SUFFICES ASSUME TypeOK, OpInv, Exclusive, [Next]_vars PROVE Exclusive'
  OBVIOUS
<1> USE DEF TypeOK, OpPoints, NoOp, NoOwner, At, Advance, OpInv, AdapterOwned, StartPoints,
            StopPoints, Stale, monitors, clients, Exclusive
<1>1. ASSUME NEW r \in Runtime, RequestStart(r) PROVE Exclusive'
  BY <1>1 DEF RequestStart, StartAdmitted
<1>2. ASSUME NEW r \in Runtime, RequestStop(r) PROVE Exclusive'
  BY <1>2 DEF RequestStop, BeginStop, StopAdmitted
<1>3. ASSUME NEW r \in Runtime, Heartbeat(r) \/ ClientGone(r) PROVE Exclusive'
  BY <1>3 DEF Heartbeat, RunningOwner, ClientGone
<1>4. CASE StartBox
  BY <1>4 DEF StartBox
<1>5. CASE DeleteFailedStart \/ DeleteRecord
  BY <1>5 DEF DeleteFailedStart, DeleteRecord
<1>6. CASE ClearFailedStart
  BY <1>6 DEF ClearFailedStart, Return
<1>7. CASE InstallAdapter
  BY <1>7 DEF InstallAdapter, InstallIfOwner
<1>8. CASE StartMonitor
  BY <1>8 DEF StartMonitor
<1>9. CASE StopBox
  BY <1>9 DEF StopBox
<1>10. CASE StopFailed
  BY <1>10 DEF StopFailed, MarkStale, Return
<1>11. CASE DeleteFailed \/ StopDone
  BY <1>11 DEF DeleteFailed, StopDone, Return
<1>12. CASE RunRepairAction
  BY <1>12 DEF RunRepairAction
<1>13. CASE Expire
  BY <1>13 DEF Expire
<1>14. ASSUME NEW m \in Runtime, MonitorTick(m) \/ MonitorExit(m) PROVE Exclusive'
  BY <1>14 DEF MonitorTick, MonitorExit
<1>15. ASSUME NEW m \in Runtime, MonitorStop(m) PROVE Exclusive'
  BY <1>15 DEF MonitorStop, BeginStop, StopAdmitted
<1>16. ASSUME NEW m \in Runtime, MonitorMarkStale(m) PROVE Exclusive'
  BY <1>16 DEF MonitorMarkStale, MarkStale
<1>17. CASE CloseBegin \/ CloseStop
  BY <1>17 DEF CloseBegin, CloseStop, BeginStop, StopAdmitted
<1>18. CASE Exit \/ Crash
  BY <1>18 DEF Exit, Crash, Die
<1>19. CASE Restart
  BY <1>19 DEF Restart, RestartOwner
<1>20. CASE UNCHANGED vars
  BY <1>20 DEF vars
<1>21. QED
  BY <1>1, <1>2, <1>3, <1>4, <1>5, <1>6, <1>7, <1>8, <1>9, <1>10, <1>11, <1>12, <1>13,
     <1>14, <1>15, <1>16, <1>17, <1>18, <1>19, <1>20
     DEF Next, Request, OpStep, MonitorStep, Process

(* Where instances may run is an invariant of the specification without    *)
(* repairs.                                                                *)
LEMMA ExclusiveHolds ==
  ASSUME Repairs = FALSE
  PROVE  Spec => [](TypeOK /\ OpInv /\ Exclusive)
<1>1. Init => Exclusive
  BY DEF Init, Exclusive, StartPoints, At, NoOp
<1>2. TypeOK /\ OpInv /\ Exclusive /\ [Next]_vars => Exclusive'
  BY ExclusiveStep
<1>3. QED
  BY <1>1, <1>2, OpInvHolds, PTL DEF Spec

(* If nobody sends the repair action, two sing-box instances never run at  *)
(* the same time, whatever fails and whoever else starts, stops or times   *)
(* out.                                                                    *)
THEOREM OneBoxWithoutRepair ==
  ASSUME Repairs = FALSE
  PROVE  Spec => []AtMostOneBox
<1>1. TypeOK /\ OpInv /\ Exclusive => AtMostOneBox
  BY DEF TypeOK, OpPoints, NoOp, Exclusive, AtMostOneBox, At
<1>2. QED
  BY <1>1, ExclusiveHolds, PTL

(* Every step of the controller is a step of MachineNetworkLock or leaves  *)
(* holder, mark and running alone.                                         *)
LEMMA LockStep ==
  ASSUME Repairs = FALSE
  PROVE  TypeOK /\ OpInv /\ Exclusive /\ [Next]_vars => [Lock!Next]_(Lock!lockVars)
<1> SUFFICES ASSUME TypeOK, OpInv, Exclusive, [Next]_vars PROVE [Lock!Next]_(Lock!lockVars)
  OBVIOUS
<1> USE DEF TypeOK, OpPoints, NoOp, NoOwner, At, Advance, OpInv, AdapterOwned, StartPoints,
            StopPoints, Stale, monitors, clients, Exclusive, Lock!Next, Lock!lockVars
<1>1. ASSUME NEW r \in Runtime, RequestStart(r) PROVE [Lock!Next]_(Lock!lockVars)
  BY <1>1 DEF RequestStart, StartAdmitted, Lock!Acquire
<1>2. ASSUME NEW r \in Runtime, RequestStop(r) PROVE UNCHANGED Lock!lockVars
  BY <1>2 DEF RequestStop, BeginStop
<1>3. ASSUME NEW r \in Runtime, Heartbeat(r) \/ ClientGone(r) PROVE UNCHANGED Lock!lockVars
  BY <1>3 DEF Heartbeat, ClientGone
<1>4. CASE StartBox
  BY <1>4 DEF StartBox, Lock!Run
<1>5. CASE DeleteFailedStart \/ DeleteRecord \/ InstallAdapter \/ StartMonitor
  BY <1>5 DEF DeleteFailedStart, DeleteRecord, InstallAdapter, StartMonitor
<1>6. CASE ClearFailedStart
  BY <1>6 DEF ClearFailedStart, Lock!Release
<1>7. CASE StopBox
  BY <1>7 DEF StopBox, Lock!Halt
<1>8. CASE StopFailed
  BY <1>8 DEF StopFailed, MarkStale, Lock!MarkStale
<1>9. CASE DeleteFailed
  BY <1>9 DEF DeleteFailed, Lock!MarkStale
<1>10. CASE StopDone
  BY <1>10 DEF StopDone, Lock!Release
<1>11. CASE RunRepairAction
  BY <1>11 DEF RunRepairAction
<1>12. CASE Expire
  BY <1>12 DEF Expire
<1>13. ASSUME NEW m \in Runtime, MonitorTick(m) \/ MonitorExit(m) \/ MonitorStop(m)
       PROVE  UNCHANGED Lock!lockVars
  BY <1>13 DEF MonitorTick, MonitorExit, MonitorStop, BeginStop
<1>14. ASSUME NEW m \in Runtime, MonitorMarkStale(m) PROVE [Lock!Next]_(Lock!lockVars)
  BY <1>14 DEF MonitorMarkStale, MarkStale, Lock!MarkStale
<1>15. CASE CloseBegin \/ CloseStop
  BY <1>15 DEF CloseBegin, CloseStop, BeginStop
<1>16. CASE Exit \/ Crash
  BY <1>16 DEF Exit, Crash, Die, Lock!Lose
<1>17. CASE Restart
  BY <1>17 DEF Restart, RestartOwner, Lock!Recover
<1>18. CASE UNCHANGED vars
  BY <1>18 DEF vars
<1>19. QED
  BY <1>1, <1>2, <1>3, <1>4, <1>5, <1>6, <1>7, <1>8, <1>9, <1>10, <1>11, <1>12, <1>13,
     <1>14, <1>15, <1>16, <1>17, <1>18
     DEF Next, Request, OpStep, MonitorStep, Process

(* If nobody sends the repair action, the controller implements the        *)
(* abstract lock: it lends the network to one runtime at a time, runs an   *)
(* instance for the holder alone, never replaces a stale holder, and lets  *)
(* go only of a network on which nothing runs.                             *)
THEOREM LockIsKept ==
  ASSUME Repairs = FALSE
  PROVE  Spec => KeepsTheLock
<1>1. Init => Lock!Init
  BY DEF Init, NoOwner, Lock!Init
<1>2. TypeOK /\ OpInv /\ Exclusive /\ [Next]_vars => [Lock!Next]_(Lock!lockVars)
  BY LockStep
<1>3. QED
  BY <1>1, <1>2, ExclusiveHolds, PTL DEF Spec, KeepsTheLock, Lock!Spec

-----------------------------------------------------------------------------
(* The record on disk                                                      *)

(* Strengthens RecordCoversBox: the record is there before the instance,   *)
(* and is deleted only where that instance no longer runs.                 *)
Recorded ==
  /\ RecordCoversBox
  /\ live \subseteq issued
  /\ At("starting") /\ owner.id = op.id => disk = op.id
  /\ op.at \in {"starting", "startFailed", "startCleared", "closed", "deleted",
                "deleteFailed"} => op.id \notin live

(* If saves do not fail, no step deletes the record of a running instance.  *)
LEMMA RecordedStep ==
  ASSUME "save" \notin Faults
  PROVE  TypeOK /\ OpInv /\ Recorded /\ [Next]_vars => Recorded'
<1> SUFFICES ASSUME TypeOK, OpInv, Recorded, [Next]_vars PROVE Recorded'
  OBVIOUS
<1> USE DEF TypeOK, OpPoints, NoOp, NoOwner, At, Advance, OpInv, AdapterOwned, StartPoints,
            StopPoints, Stale, monitors, clients, Recorded, RecordCoversBox
<1>1. ASSUME NEW r \in Runtime, RequestStart(r) PROVE Recorded'
  BY <1>1 DEF RequestStart, StartAdmitted, FailedSaves
<1>2. ASSUME NEW r \in Runtime, RequestStop(r) PROVE Recorded'
  BY <1>2 DEF RequestStop, BeginStop, StopAdmitted
<1>3. ASSUME NEW r \in Runtime, Heartbeat(r) PROVE Recorded'
  BY <1>3 DEF Heartbeat, RunningOwner, SaveResults, FailedSaves
<1>4. ASSUME NEW r \in Runtime, ClientGone(r) PROVE Recorded'
  BY <1>4 DEF ClientGone
<1>5. CASE StartBox
  BY <1>5 DEF StartBox
<1>6. CASE DeleteFailedStart
  BY <1>6 DEF DeleteFailedStart, DeleteResults
<1>7. CASE ClearFailedStart
  BY <1>7 DEF ClearFailedStart, Return
<1>8. CASE InstallAdapter
  BY <1>8 DEF InstallAdapter, InstallIfOwner
<1>9. CASE StartMonitor
  BY <1>9 DEF StartMonitor, Watch, Cancel
<1>10. CASE StopBox
  BY <1>10 DEF StopBox
<1>11. CASE StopFailed
  BY <1>11 DEF StopFailed, MarkStale, Return, SaveResults, FailedSaves
<1>12. CASE DeleteRecord
  BY <1>12 DEF DeleteRecord
<1>13. CASE DeleteFailed
  BY <1>13 DEF DeleteFailed, Return
<1>14. CASE StopDone
  BY <1>14 DEF StopDone, Return
<1>15. CASE RunRepairAction
  BY <1>15 DEF RunRepairAction, RepairAdmitted
<1>16. CASE Expire
  BY <1>16 DEF Expire
<1>17. ASSUME NEW m \in Runtime, MonitorTick(m) PROVE Recorded'
  BY <1>17 DEF MonitorTick
<1>18. ASSUME NEW m \in Runtime, MonitorExit(m) PROVE Recorded'
  BY <1>18 DEF MonitorExit
<1>19. ASSUME NEW m \in Runtime, MonitorStop(m) PROVE Recorded'
  BY <1>19 DEF MonitorStop, BeginStop, StopAdmitted, Cancel
<1>20. ASSUME NEW m \in Runtime, MonitorMarkStale(m) PROVE Recorded'
  BY <1>20 DEF MonitorMarkStale, MarkStale, SaveResults, FailedSaves
<1>21. CASE CloseBegin
  BY <1>21 DEF CloseBegin
<1>22. CASE CloseStop
  BY <1>22 DEF CloseStop, BeginStop, StopAdmitted, Cancel
<1>23. CASE Exit \/ Crash
  BY <1>23 DEF Exit, Crash, Die, NoMonitor
<1>24. CASE Restart
  BY <1>24 DEF Restart, RestartOwner, SaveResults, FailedSaves
<1>25. CASE UNCHANGED vars
  BY <1>25 DEF vars
<1>26. QED
  BY <1>1, <1>2, <1>3, <1>4, <1>5, <1>6, <1>7, <1>8, <1>9, <1>10, <1>11, <1>12,
     <1>13, <1>14, <1>15, <1>16, <1>17, <1>18, <1>19, <1>20, <1>21, <1>22,
     <1>23, <1>24, <1>25
     DEF Next, Request, OpStep, MonitorStep, Process

(* If saves do not fail, an instance that runs under an owner is on disk   *)
(* under that owner's name in every state, so a crash at any point leaves  *)
(* a record for the next provider to find.                                 *)
THEOREM RecordBeforeBox ==
  ASSUME "save" \notin Faults
  PROVE  Spec => []RecordCoversBox
<1>1. Init => Recorded
  BY DEF Init, Recorded, RecordCoversBox, At, NoOp
<1>2. TypeOK /\ OpInv /\ Recorded /\ [Next]_vars => Recorded'
  BY RecordedStep
<1>3. Recorded => RecordCoversBox
  BY DEF Recorded
<1>4. QED
  BY <1>1, <1>2, <1>3, OpInvHolds, PTL DEF Spec

-----------------------------------------------------------------------------
(* The monitors                                                            *)

(* Strengthens RunningIsWatched: a runtime that was never started has no   *)
(* monitor and no cancel, and a monitor that has taken its own runtime for *)
(* dead has noted that runtime.                                            *)
Watched ==
  /\ RunningIsWatched
  /\ \A m \in Runtime : monitor[m].at = "checked" /\ owner.id = m => monitor[m].id = m
  /\ op.by \in issued \cup {None}
  /\ \A m \in Runtime \ issued : monitor[m].at = "none" /\ m \notin cancelled /\ hbCancel # m
  /\ op.at \in StartPoints \cup {"installed"} =>
       monitor[op.id].at = "none" /\ op.id \notin cancelled /\ hbCancel # op.id

(* No step leaves a running, valid owner without its own monitor.           *)
LEMMA WatchedStep ==
  TypeOK /\ OpInv /\ Watched /\ [Next]_vars => Watched'
<1> SUFFICES ASSUME TypeOK, OpInv, Watched, [Next]_vars PROVE Watched'
  OBVIOUS
<1> USE DEF TypeOK, OpPoints, NoOp, NoOwner, At, Advance, OpInv, AdapterOwned, StartPoints,
            StopPoints, Stale, monitors, clients,
            Watched, RunningIsWatched, Watching
<1>1. ASSUME NEW r \in Runtime, RequestStart(r) PROVE Watched'
  BY <1>1 DEF RequestStart, StartAdmitted, FailedSaves
<1>2. ASSUME NEW r \in Runtime, RequestStop(r) PROVE Watched'
  BY <1>2 DEF RequestStop, BeginStop, StopAdmitted, Cancel
<1>3. ASSUME NEW r \in Runtime, Heartbeat(r) PROVE Watched'
  BY <1>3 DEF Heartbeat, RunningOwner, SaveResults, FailedSaves
<1>4. ASSUME NEW r \in Runtime, ClientGone(r) PROVE Watched'
  BY <1>4 DEF ClientGone
<1>5. CASE StartBox
  BY <1>5 DEF StartBox
<1>6. CASE DeleteFailedStart
  BY <1>6 DEF DeleteFailedStart, DeleteResults
<1>7. CASE ClearFailedStart
  BY <1>7 DEF ClearFailedStart, Return
<1>8. CASE InstallAdapter
  BY <1>8 DEF InstallAdapter, InstallIfOwner
<1>9. CASE StartMonitor
  BY <1>9 DEF StartMonitor, Watch, Cancel
<1>10. CASE StopBox
  BY <1>10 DEF StopBox
<1>11. CASE StopFailed
  BY <1>11 DEF StopFailed, MarkStale, Return, SaveResults, FailedSaves
<1>12. CASE DeleteRecord
  BY <1>12 DEF DeleteRecord
<1>13. CASE DeleteFailed
  BY <1>13 DEF DeleteFailed, Return
<1>14. CASE StopDone
  BY <1>14 DEF StopDone, Return
<1>15. CASE RunRepairAction
  BY <1>15 DEF RunRepairAction, RepairAdmitted
<1>16. CASE Expire
  BY <1>16 DEF Expire
<1>17. ASSUME NEW m \in Runtime, MonitorTick(m) PROVE Watched'
  BY <1>17 DEF MonitorTick
<1>18. ASSUME NEW m \in Runtime, MonitorExit(m) PROVE Watched'
  BY <1>18 DEF MonitorExit
<1>19. ASSUME NEW m \in Runtime, MonitorStop(m) PROVE Watched'
  BY <1>19 DEF MonitorStop, BeginStop, StopAdmitted, Cancel
<1>20. ASSUME NEW m \in Runtime, MonitorMarkStale(m) PROVE Watched'
  BY <1>20 DEF MonitorMarkStale, MarkStale, SaveResults, FailedSaves
<1>21. CASE CloseBegin
  BY <1>21 DEF CloseBegin
<1>22. CASE CloseStop
  BY <1>22 DEF CloseStop, BeginStop, StopAdmitted, Cancel
<1>23. CASE Exit \/ Crash
  BY <1>23 DEF Exit, Crash, Die, NoMonitor
<1>24. CASE Restart
  BY <1>24 DEF Restart, RestartOwner, NoMonitor, SaveResults, FailedSaves
<1>25. CASE UNCHANGED vars
  BY <1>25 DEF vars
<1>26. QED
  BY <1>1, <1>2, <1>3, <1>4, <1>5, <1>6, <1>7, <1>8, <1>9, <1>10, <1>11, <1>12,
     <1>13, <1>14, <1>15, <1>16, <1>17, <1>18, <1>19, <1>20, <1>21, <1>22,
     <1>23, <1>24, <1>25
     DEF Next, Request, OpStep, MonitorStep, Process

(* Between calls a running owner that is not stale is watched by its own   *)
(* monitor, not cancelled and within RuntimeStop's reach.                  *)
THEOREM RunningOwnerIsWatched == Spec => []RunningIsWatched
<1>1. Init => Watched
  BY DEF Init, Watched, RunningIsWatched, Watching, StartPoints, At, NoOp, NoMonitor
<1>2. TypeOK /\ OpInv /\ Watched /\ [Next]_vars => Watched'
  BY WatchedStep
<1>3. Watched => RunningIsWatched
  BY DEF Watched
<1>4. QED
  BY <1>1, <1>2, <1>3, OpInvHolds, PTL DEF Spec

-----------------------------------------------------------------------------
(* What a step may do                                                      *)

(* Only a stop admitted for a runtime closes its instance while the        *)
(* provider lives.                                                         *)
THEOREM OnlyItsOwnStopCloses == Spec => ClosedByItsOwnStop
<1> DEFINE Closes == \A r \in live : r \notin live' /\ phase' # "down"
                                     => op.id = r /\ op.at = "stopping"
<1>1. TypeOK /\ OpInv /\ [Next]_vars => [Closes]_vars
  <2> SUFFICES ASSUME TypeOK, OpInv, [Next]_vars PROVE live' = live \/ Closes
    BY DEF Closes
  <2>1. CASE StopBox
    BY <2>1 DEF StopBox, OpInv, StopPoints, At
  <2>2. CASE StartBox
    BY <2>2 DEF StartBox
  <2>3. CASE Exit \/ Crash
    BY <2>3 DEF Exit, Crash, Die
  <2>4. CASE /\ OpStep \/ UNCHANGED vars \/ RunRepairAction \/ Expire
             /\ ~StopBox /\ ~StartBox
    BY <2>4 DEF OpStep, vars, RunRepairAction, Expire, DeleteFailedStart, ClearFailedStart,
                InstallAdapter, StartMonitor, StopFailed, DeleteRecord, DeleteFailed, StopDone
  <2>5. ASSUME NEW r \in Runtime, Request(r) PROVE live' = live
    BY <2>5 DEF Request, RequestStart, RequestStop, BeginStop, Heartbeat, ClientGone
  <2>6. ASSUME NEW m \in Runtime, MonitorStep(m) PROVE live' = live
    BY <2>6 DEF MonitorStep, MonitorTick, MonitorExit, MonitorStop, BeginStop,
                MonitorMarkStale
  <2>7. CASE CloseBegin \/ CloseStop \/ Restart
    BY <2>7 DEF CloseBegin, CloseStop, BeginStop, Restart
  <2>8. QED
    BY <2>1, <2>2, <2>3, <2>4, <2>5, <2>6, <2>7 DEF Next, Process
<1>2. QED
  BY <1>1, OpInvHolds, PTL DEF Spec, ClosedByItsOwnStop

(* From the close of the instance to the end of its stop, no step starts   *)
(* it again.                                                               *)
ClosedInv == op.at \in {"closed", "deleted", "deleteFailed"} => adapter \notin live

LEMMA ClosedStep == TypeOK /\ OpInv /\ ClosedInv /\ [Next]_vars => ClosedInv'
<1> SUFFICES ASSUME TypeOK, OpInv, ClosedInv, [Next]_vars PROVE ClosedInv'
  OBVIOUS
<1>1. CASE OpStep
  BY <1>1, RuntimeAssumption
     DEF OpStep, StartBox, DeleteFailedStart, ClearFailedStart, InstallAdapter, StartMonitor,
         StopBox, StopFailed, DeleteRecord, DeleteFailed, StopDone, ClosedInv, At, Advance, Return,
         NoOp, TypeOK
<1>2. ASSUME NEW r \in Runtime, Request(r) PROVE ClosedInv'
  BY <1>2 DEF Request, RequestStart, RequestStop, BeginStop, Heartbeat, ClientGone, ClosedInv
<1>3. ASSUME NEW m \in Runtime, MonitorStep(m) PROVE ClosedInv'
  BY <1>3 DEF MonitorStep, MonitorTick, MonitorExit, MonitorStop, BeginStop, MonitorMarkStale,
              ClosedInv
<1>4. CASE Process
  BY <1>4 DEF Process, CloseBegin, CloseStop, BeginStop, Exit, Crash, Die, Restart, ClosedInv, NoOp
<1>5. CASE RunRepairAction \/ Expire \/ UNCHANGED vars
  BY <1>5 DEF RunRepairAction, Expire, vars, ClosedInv
<1>6. QED
  BY <1>1, <1>2, <1>3, <1>4, <1>5 DEF Next

(* Whatever requests, late heartbeats and monitors come: while the process *)
(* lives, a stale record goes by a repair or by the end of its own stop,   *)
(* and with no instance behind it.                                         *)
THEOREM StaleStays == Spec => StaleUntilReleased
<1> DEFINE Keeps == Stale /\ phase' # "down" =>
                      \/ Stale' /\ owner'.id = owner.id
                      \/ owner' = NoOwner /\ (adapter = None \/ adapter \notin live)
<1>1. TypeOK /\ OpInv /\ ClosedInv /\ [Next]_vars => [Keeps]_vars
  <2> SUFFICES ASSUME TypeOK, OpInv, ClosedInv, [Next]_vars PROVE Keeps
    OBVIOUS
  <2>1. CASE UNCHANGED owner
    BY <2>1 DEF Stale
  <2>2. owner.id = None => ~Stale
    BY DEF OpInv, Stale
  <2>3. CASE ClearFailedStart
    BY <2>3 DEF ClearFailedStart, OpInv, StartPoints, At, Stale
  <2>4. CASE StopDone
    BY <2>4 DEF StopDone, ClosedInv, At
  <2>5. CASE StopFailed \/ DeleteFailed
    BY <2>5 DEF StopFailed, DeleteFailed, MarkStale, Stale, TypeOK
  <2>6. CASE /\ OpStep /\ ~ClearFailedStart /\ ~StopDone /\ ~StopFailed /\ ~DeleteFailed
    BY <2>1, <2>6 DEF OpStep, StartBox, DeleteFailedStart, InstallAdapter, StartMonitor, StopBox,
                      DeleteRecord
  <2>7. ASSUME NEW r \in Runtime, Request(r) PROVE Keeps
    BY <2>1, <2>2, <2>7 DEF Request, RequestStart, StartAdmitted, RequestStop, BeginStop, Heartbeat,
                            RunningOwner, ClientGone
  <2>8. ASSUME NEW m \in Runtime, MonitorStep(m) PROVE Keeps
    BY <2>1, <2>8 DEF MonitorStep, MonitorTick, MonitorExit, MonitorStop, BeginStop,
                      MonitorMarkStale, MarkStale, Stale, TypeOK
  <2>9. CASE RunRepairAction
    BY <2>9 DEF RunRepairAction, RepairAdmitted
  <2>10. CASE Expire
    BY <2>10 DEF Expire, Stale, TypeOK
  <2>11. CASE CloseBegin \/ CloseStop
    BY <2>1, <2>11 DEF CloseBegin, CloseStop, BeginStop
  <2>12. CASE Exit \/ Crash
    BY <2>12 DEF Exit, Crash, Die
  <2>13. CASE Restart
    BY <2>13 DEF Restart, OpInv, NoOwner, Stale
  <2>14. CASE UNCHANGED vars
    BY <2>1, <2>14 DEF vars
  <2>15. QED
    BY <2>3, <2>4, <2>5, <2>6, <2>7, <2>8, <2>9, <2>10, <2>11, <2>12, <2>13, <2>14
       DEF Next, Process
<1>2. Init => ClosedInv
  BY DEF Init, ClosedInv, NoOp
<1>3. QED
  BY <1>1, <1>2, ClosedStep, OpInvHolds, PTL DEF Spec, StaleUntilReleased
=============================================================================

----------------------------- MODULE QkboxdProofs -----------------------------
(***************************************************************************)
(* Theorems about Qkboxd, for every set of profiles, addresses and         *)
(* settings and every combination of faults.                               *)
(***************************************************************************)
EXTENDS Qkboxd, TLAPS

USE ProfileAssumption, SettingAssumption, ListenerAssumption, FaultsAssumption,
    RecordAssumption

(* What each call knows at each point, and that the calls which write an   *)
(* address of qkbox into the setting are IPC calls, done before the daemon *)
(* shuts down.                                                             *)
OpShape ==
  /\ op.call \in {"activate", "enable"} => op.profile \in Profile
  /\ op.call \in {"activate", "enable", "disable"} => op.by = "ipc"
  /\ op.by = "ipc" => Serving
  /\ op.at \in {"check", "restore", "delete"} => op.call \in {"activate", "stop", "disable"}
  /\ op.at \in {"halt", "halting"} => op.call \in {"activate", "stop"}
  /\ op.at \in {"start", "starting"} => op.call \in {"activate", "start"} /\ op.profile \in Profile
  /\ op.at \in {"apply", "undo", "undone"} => op.call \in {"activate", "enable"}
  /\ op.at \in {"bind", "persist", "restart"} => op.call = "activate"
  /\ op.at = "restart" => op.back = "yes"
  /\ op.at = "save" => op.call = "enable"
  /\ op.at = "save" /\ op.kept = None => record # None
  /\ op.at \in {"restore", "undo", "bind"} => op.kept # None
  /\ op.at \in {"save", "apply"} => Listener[op.profile] \in Address
  /\ daemon.at \in {"bootRestore", "restore"} => daemon.kept # None

(* Strengthens RecordCoversProxy: no snapshot is an address of qkbox, the  *)
(* setting is not one when a record is about to be deleted or replaced, or *)
(* a runtime stopped or started by a call that has not failed yet, and the *)
(* record is there before the setting is written.                          *)
Cover ==
  /\ RecordCoversProxy
  /\ record # None => record.snapshot \notin Address
  /\ op.kept # None => op.kept.snapshot \notin Address
  /\ daemon.kept # None => daemon.kept.snapshot \notin Address
  /\ op.at \in {"delete", "undone", "save", "bind"} => os \notin Address
  /\ op.call \in {"activate", "stop"} /\ op.back = "no"
       => (op.at \in {"halt", "halting", "start", "starting"} => os \notin Address)
  /\ daemon.at \in {"bootDelete", "delete"} => os \notin Address
  /\ op.at = "save" /\ op.kept # None => op.kept.addr = Listener[op.profile]
  /\ op.at = "apply" => record # None /\ record.addr = Listener[op.profile]

(* What every step preserves: types, the shape of a call at each of its     *)
(* points, and a record for every address of qkbox in the setting.         *)
Inv == TypeOK /\ OpShape /\ Cover

(* The updates of op that change more than one field, field by field.      *)
LEMMA RollbackFields ==
  ASSUME op \in Ops, NEW point \in OpPoints, Rollback(point)
  PROVE  /\ op' \in Ops /\ op'.at = point /\ op'.back = "yes"
         /\ op'.call = op.call /\ op'.by = op.by /\ op'.profile = op.profile
         /\ op'.old = op.old /\ op'.kept = op.kept
  BY DEF Rollback, Ops

(* Capturing the record moves an operation to its restore point.           *)
LEMMA CaptureFields ==
  ASSUME op \in Ops, record \in Records, Capture
  PROVE  /\ op' \in Ops /\ op'.at = "restore" /\ op'.kept = record
         /\ op'.call = op.call /\ op'.by = op.by /\ op'.profile = op.profile
         /\ op'.old = op.old /\ op'.back = op.back
  BY DEF Capture, Ops, OpPoints

(* However a stop ends, the engine and the instances keep their types.     *)
LEMMA StopTypes == EngineTypeOK /\ (StopSucceeds \/ StopFails) => EngineTypeOK'
<1> SUFFICES ASSUME EngineTypeOK, StopSucceeds \/ StopFails PROVE EngineTypeOK'
  OBVIOUS
<1>1. CASE StopSucceeds
  BY <1>1 DEF EngineTypeOK, EngineStates, StopSucceeds, NoRuntime
<1>2. CASE StopFails
  <2>1. engine' = [state |-> "fatal", profile |-> engine.profile, asked |-> "yes"]
    BY <1>2 DEF EngineTypeOK, EngineStates, StopFails
  <2>2. box' \subseteq Profile
    BY <1>2 DEF EngineTypeOK, StopFails
  <2>3. QED
    BY <2>1, <2>2 DEF EngineTypeOK, EngineStates
<1>3. QED
  BY <1>1, <1>2

(* A rollback that starts the old profile is about that profile.           *)
LEMMA StartOldFields ==
  ASSUME op \in Ops, StartOld
  PROVE  /\ op' \in Ops /\ op'.at = "start" /\ op'.profile = op.old
         /\ op'.call = op.call /\ op'.by = op.by
         /\ op'.old = op.old /\ op'.kept = op.kept /\ op'.back = op.back
  BY DEF StartOld, Ops, OpPoints

(* Every step keeps every variable in its type.                            *)
LEMMA TypeStep == Inv /\ [Next]_vars => TypeOK'
<1> SUFFICES ASSUME Inv, [Next]_vars PROVE TypeOK'
  OBVIOUS
<1> USE DEF Inv, TypeOK, EngineTypeOK, EngineStates, ProxyTypeOK, Records, Snapshots,
            Calls, OpPoints, Ops, DaemonPoints, NoOp, Free, Serving, Point, Advance, Return,
            NoRuntime, engineVars, proxyVars, dbVars, OpShape
<1>1. ASSUME NEW p \in Profile, ActivateProfile(p) PROVE TypeOK'
  BY <1>1 DEF ActivateProfile, Open
<1>2. ASSUME NEW by \in Callers, EngineStart(by) PROVE TypeOK'
  BY <1>2 DEF EngineStart, Open, Callers
<1>3. ASSUME NEW by \in Callers, EngineStop(by) PROVE TypeOK'
  BY <1>3 DEF EngineStop, Open, Callers
<1>4. CASE EnableProxy
  BY <1>4 DEF EnableProxy, Open, Listening
<1>5. CASE DisableProxy
  BY <1>5 DEF DisableProxy, Open
<1>6. CASE SaveOwner
  BY <1>6 DEF SaveOwner, Save
<1>7. CASE CheckProxy
  BY <1>7, CaptureFields DEF CheckProxy, Released, Forget
<1>8. CASE RestoreProxy
  BY <1>8 DEF RestoreProxy, Write, WriteFails, Partly
<1>9. CASE DeleteOwner
  BY <1>9 DEF DeleteOwner, Released, ForgetRecord, Forget
<1>10. CASE HaltRuntime
  BY <1>10 DEF HaltRuntime, BeginStop
<1>11. CASE Halted
  BY <1>11, StopTypes DEF Halted, StopSucceeds, StopFails
<1>12. CASE StartRuntime
  BY <1>12, RollbackFields DEF StartRuntime, BeginStart, NotStarted
<1>13. CASE Started
  BY <1>13, RollbackFields DEF Started, StartSucceeds, StartFails, LostReply, NotStarted
<1>14. CASE BindProxy
  BY <1>14, RollbackFields DEF BindProxy, Listening, Save
<1>15. CASE ApplyProxy
  BY <1>15 DEF ApplyProxy, Write, WriteFails, Partly
<1>16. CASE UndoApply
  BY <1>16, RollbackFields DEF UndoApply, Write, WriteFails, Partly, Undone
<1>17. CASE ForgetUndone
  BY <1>17, RollbackFields DEF ForgetUndone, ForgetRecord, Forget, Undone
<1>18. CASE PersistActive
  BY <1>18, RollbackFields DEF PersistActive
<1>19. CASE RestartOld
  BY <1>19, StartOldFields DEF RestartOld
<1>20. CASE Boot \/ ServeReturns
  BY <1>20 DEF Boot, ServeReturns, Goto, Down
<1>21. CASE RepairStaleProxy
  BY <1>21 DEF RepairStaleProxy, Repair, Goto, Forget, Write, WriteFails, Partly
<1>22. CASE Shutdown \/ ShutdownStopped
  BY <1>22, StopTypes DEF Shutdown, ShutdownStopped, Goto, BeginStop, StopSucceeds,
               StopFails
<1>23. CASE RestoreOnShutdown
  BY <1>23 DEF RestoreOnShutdown, Repair, Goto, Forget, Write, WriteFails, Partly
<1>24. CASE Exit \/ Crash
  BY <1>24 DEF Exit, Crash, Die, Down, EngineLost
<1>25. ASSUME NEW p \in Profile, DeleteProfile(p) \/ ProviderReclaims(p) PROVE TypeOK'
  BY <1>25 DEF DeleteProfile, ProviderReclaims, Reclaimed
<1>26. ASSUME NEW s \in Setting, UserSetsProxy(s) PROVE TypeOK'
  BY <1>26 DEF UserSetsProxy
<1>27. CASE UNCHANGED vars
  BY <1>27 DEF vars
<1>28. QED
  BY <1>1, <1>2, <1>3, <1>4, <1>5, <1>6, <1>7, <1>8, <1>9, <1>10, <1>11, <1>12, <1>13,
     <1>14, <1>15, <1>16, <1>17, <1>18, <1>19, <1>20, <1>21, <1>22, <1>23, <1>24, <1>25,
     <1>26, <1>27
     DEF Next, Begin, OpStep, DaemonStep, Environment

(* Every step of every call and of the daemon hands on what the next needs. *)
LEMMA ShapeStep == Inv /\ [Next]_vars => OpShape'
<1> SUFFICES ASSUME Inv, [Next]_vars PROVE OpShape'
  OBVIOUS
<1> USE DEF Inv, TypeOK, EngineTypeOK, EngineStates, ProxyTypeOK, Records, Snapshots,
            Calls, OpPoints, Ops, DaemonPoints, NoOp, Free, Serving, Point, Advance, Return,
            NoRuntime, engineVars, proxyVars, dbVars, OpShape
<1>1. ASSUME NEW p \in Profile, ActivateProfile(p) PROVE OpShape'
  BY <1>1 DEF ActivateProfile, Open
<1>2. ASSUME NEW by \in Callers, EngineStart(by) PROVE OpShape'
  BY <1>2 DEF EngineStart, Open, Callers
<1>3. ASSUME NEW by \in Callers, EngineStop(by) PROVE OpShape'
  BY <1>3 DEF EngineStop, Open, Callers
<1>4. CASE EnableProxy
  BY <1>4 DEF EnableProxy, Open, Listening
<1>5. CASE DisableProxy
  BY <1>5 DEF DisableProxy, Open
<1>6. CASE SaveOwner
  BY <1>6 DEF SaveOwner, Save
<1>7. CASE CheckProxy
  BY <1>7, CaptureFields DEF CheckProxy, Released, Forget
<1>8. CASE RestoreProxy
  BY <1>8 DEF RestoreProxy, Write, WriteFails, Partly
<1>9. CASE DeleteOwner
  BY <1>9 DEF DeleteOwner, Released, ForgetRecord, Forget
<1>10. CASE HaltRuntime
  BY <1>10 DEF HaltRuntime, BeginStop
<1>11. CASE Halted
  BY <1>11, StopTypes DEF Halted, StopSucceeds, StopFails
<1>12. CASE StartRuntime
  BY <1>12, RollbackFields DEF StartRuntime, BeginStart, NotStarted
<1>13. CASE Started
  BY <1>13, RollbackFields DEF Started, StartSucceeds, StartFails, LostReply, NotStarted
<1>14. CASE BindProxy
  BY <1>14, RollbackFields DEF BindProxy, Listening, Save
<1>15. CASE ApplyProxy
  BY <1>15 DEF ApplyProxy, Write, WriteFails, Partly
<1>16. CASE UndoApply
  BY <1>16, RollbackFields DEF UndoApply, Write, WriteFails, Partly, Undone
<1>17. CASE ForgetUndone
  BY <1>17, RollbackFields DEF ForgetUndone, ForgetRecord, Forget, Undone
<1>18. CASE PersistActive
  BY <1>18, RollbackFields DEF PersistActive
<1>19. CASE RestartOld
  BY <1>19, StartOldFields DEF RestartOld
<1>20. CASE Boot \/ ServeReturns
  BY <1>20 DEF Boot, ServeReturns, Goto, Down
<1>21. CASE RepairStaleProxy
  BY <1>21 DEF RepairStaleProxy, Repair, Goto, Forget, Write, WriteFails, Partly
<1>22. CASE Shutdown \/ ShutdownStopped
  BY <1>22, StopTypes DEF Shutdown, ShutdownStopped, Goto, BeginStop, StopSucceeds,
               StopFails
<1>23. CASE RestoreOnShutdown
  BY <1>23 DEF RestoreOnShutdown, Repair, Goto, Forget, Write, WriteFails, Partly
<1>24. CASE Exit \/ Crash
  BY <1>24 DEF Exit, Crash, Die, Down, EngineLost
<1>25. ASSUME NEW p \in Profile, DeleteProfile(p) \/ ProviderReclaims(p) PROVE OpShape'
  BY <1>25 DEF DeleteProfile, ProviderReclaims, Reclaimed
<1>26. ASSUME NEW s \in Setting, UserSetsProxy(s) PROVE OpShape'
  BY <1>26 DEF UserSetsProxy
<1>27. CASE UNCHANGED vars
  BY <1>27 DEF vars
<1>28. QED
  BY <1>1, <1>2, <1>3, <1>4, <1>5, <1>6, <1>7, <1>8, <1>9, <1>10, <1>11, <1>12, <1>13,
     <1>14, <1>15, <1>16, <1>17, <1>18, <1>19, <1>20, <1>21, <1>22, <1>23, <1>24, <1>25,
     <1>26, <1>27
     DEF Next, Begin, OpStep, DaemonStep, Environment

(* Whatever fails and whoever crashes, no step uncovers the setting.       *)
LEMMA CoverStep == Inv /\ [Next]_vars => Cover'
<1> SUFFICES ASSUME Inv, [Next]_vars PROVE Cover'
  OBVIOUS
<1> USE DEF Inv, TypeOK, EngineTypeOK, EngineStates, ProxyTypeOK, Records, Snapshots,
            Calls, OpPoints, Ops, DaemonPoints, NoOp, Free, Serving, Point, Advance, Return,
            NoRuntime, engineVars, proxyVars, dbVars,
            OpShape, Cover, RecordCoversProxy, Matches, Differs
<1>1. ASSUME NEW p \in Profile, ActivateProfile(p) PROVE Cover'
  BY <1>1 DEF ActivateProfile, Open
<1>2. ASSUME NEW by \in Callers, EngineStart(by) PROVE Cover'
  BY <1>2 DEF EngineStart, Open, Callers
<1>3. ASSUME NEW by \in Callers, EngineStop(by) PROVE Cover'
  BY <1>3 DEF EngineStop, Open, Callers
<1>4. CASE EnableProxy
  BY <1>4 DEF EnableProxy, Open, Listening
<1>5. CASE DisableProxy
  BY <1>5 DEF DisableProxy, Open
<1>6. CASE SaveOwner
  <2>1. CASE Return /\ UNCHANGED proxyVars
    BY <1>6, <2>1 DEF SaveOwner
  <2>2. CASE Save(op.kept) /\ op.kept # None /\ Advance("apply")
    <3>1. record' \in Records /\ record'.addr = Listener[op.profile]
      BY <1>6, <2>2 DEF SaveOwner, Save
    <3>2. QED
      BY <1>6, <2>2, <3>1 DEF SaveOwner, Save
  <2>3. CASE /\ Save([record EXCEPT !.addr = Listener[op.profile]])
             /\ op.kept = None /\ Advance("apply")
    <3>1. /\ record' \in Records
          /\ record'.addr = Listener[op.profile] /\ record'.snapshot = record.snapshot
      BY <1>6, <2>3 DEF SaveOwner, Save
    <3>2. QED
      BY <1>6, <2>3, <3>1 DEF SaveOwner, Save
  <2>4. QED
    BY <1>6, <2>1, <2>2, <2>3 DEF SaveOwner
<1>7. CASE CheckProxy
  BY <1>7, CaptureFields DEF CheckProxy, Released, Forget
<1>8. CASE RestoreProxy
  BY <1>8 DEF RestoreProxy, Write, WriteFails, Partly
<1>9. CASE DeleteOwner
  BY <1>9 DEF DeleteOwner, Released, ForgetRecord, Forget
<1>10. CASE HaltRuntime
  BY <1>10 DEF HaltRuntime, BeginStop
<1>11. CASE Halted
  BY <1>11, StopTypes DEF Halted, StopSucceeds, StopFails
<1>12. CASE StartRuntime
  BY <1>12, RollbackFields DEF StartRuntime, BeginStart, NotStarted
<1>13. CASE Started
  BY <1>13, RollbackFields DEF Started, StartSucceeds, StartFails, LostReply, NotStarted
<1>14. CASE BindProxy
  BY <1>14, RollbackFields DEF BindProxy, Listening, Save
<1>15. CASE ApplyProxy
  BY <1>15 DEF ApplyProxy, Write, WriteFails, Partly
<1>16. CASE UndoApply
  BY <1>16, RollbackFields DEF UndoApply, Write, WriteFails, Partly, Undone
<1>17. CASE ForgetUndone
  BY <1>17, RollbackFields DEF ForgetUndone, ForgetRecord, Forget, Undone
<1>18. CASE PersistActive
  BY <1>18, RollbackFields DEF PersistActive
<1>19. CASE RestartOld
  BY <1>19, StartOldFields DEF RestartOld
<1>20. CASE Boot \/ ServeReturns
  BY <1>20 DEF Boot, ServeReturns, Goto, Down
<1>21. CASE RepairStaleProxy
  BY <1>21 DEF RepairStaleProxy, Repair, Goto, Forget, Write, WriteFails, Partly
<1>22. CASE Shutdown \/ ShutdownStopped
  BY <1>22, StopTypes DEF Shutdown, ShutdownStopped, Goto, BeginStop, StopSucceeds,
               StopFails
<1>23. CASE RestoreOnShutdown
  BY <1>23 DEF RestoreOnShutdown, Repair, Goto, Forget, Write, WriteFails, Partly
<1>24. CASE Exit \/ Crash
  BY <1>24 DEF Exit, Crash, Die, Down, EngineLost
<1>25. ASSUME NEW p \in Profile, DeleteProfile(p) \/ ProviderReclaims(p) PROVE Cover'
  BY <1>25 DEF DeleteProfile, ProviderReclaims, Reclaimed
<1>26. ASSUME NEW s \in Setting, UserSetsProxy(s) PROVE Cover'
  BY <1>26 DEF UserSetsProxy
<1>27. CASE UNCHANGED vars
  BY <1>27 DEF vars
<1>28. QED
  BY <1>1, <1>2, <1>3, <1>4, <1>5, <1>6, <1>7, <1>8, <1>9, <1>10, <1>11, <1>12, <1>13,
     <1>14, <1>15, <1>16, <1>17, <1>18, <1>19, <1>20, <1>21, <1>22, <1>23, <1>24, <1>25,
     <1>26, <1>27
     DEF Next, Begin, OpStep, DaemonStep, Environment

(* The invariant holds from the start and is kept by every step.           *)
LEMMA InvHolds == Spec => []Inv
<1>1. Init => Inv
  <2> SUFFICES ASSUME Init PROVE Inv
    OBVIOUS
  <2> USE DEF Init, EngineInit, ProxyInit, NoOp, Down, NoRuntime
  <2>1. TypeOK
    BY DEF TypeOK, EngineTypeOK, EngineStates, ProxyTypeOK, Snapshots, DaemonPoints, Ops,
           Calls, OpPoints
  <2>2. OpShape
    BY DEF OpShape
  <2>3. Cover
    BY DEF Cover, RecordCoversProxy
  <2>4. QED
    BY <2>1, <2>2, <2>3 DEF Inv
<1>2. Inv /\ [Next]_vars => Inv'
  BY TypeStep, ShapeStep, CoverStep DEF Inv
<1>3. QED
  BY <1>1, <1>2, PTL DEF Spec

(* Every variable keeps its type.                                          *)
THEOREM TypeCorrect == Spec => []TypeOK
<1>1. Inv => TypeOK
  BY DEF Inv
<1>2. QED
  BY <1>1, InvHolds, PTL

(* Whatever fails and wherever the daemon crashes, an address of qkbox in  *)
(* the system's proxy setting is covered by a record that names it, unless *)
(* a failed write has brought the address back.                            *)
THEOREM ProxyIsCovered == Spec => []RecordCoversProxy
<1>1. Inv => RecordCoversProxy
  BY DEF Inv, Cover
<1>2. QED
  BY <1>1, InvHolds, PTL

(* Whatever fails, reading and writing the setting included, a call that   *)
(* has failed in nothing else yet stops no runtime before every address of *)
(* qkbox is out of the setting.                                            *)
THEOREM NoStopUnreleased == Spec => []StopNeedsRelease
<1>1. Inv => StopNeedsRelease
  BY DEF Inv, OpShape, Cover, StopNeedsRelease, Point
<1>2. QED
  BY <1>1, InvHolds, PTL

-----------------------------------------------------------------------------
(* The instances                                                           *)

(* Strengthens LocalBoxIsHeld: an engine that may start holds no owner, so *)
(* what a start brings up is alone; and an owner is let go of with its     *)
(* runtime, so one still held runs unless the provider has ended it.       *)
Held ==
  /\ LocalBoxIsHeld
  /\ engine.state \in {"idle", "starting"} => engine.profile = None
  /\ engine.profile # None => HeldRuns

(* No step of a call, the daemon or the provider lets go of an instance of *)
(* this process that runs.                                                 *)
LEMMA HeldStep == Inv /\ Held /\ [Next]_vars => Held'
<1> SUFFICES ASSUME Inv, Held, [Next]_vars PROVE Held'
  OBVIOUS
<1> USE DEF Inv, TypeOK, EngineTypeOK, EngineStates, Held, LocalBoxIsHeld, HeldRuns, NoRuntime,
            engineVars
<1>1. ASSUME NEW p \in Profile, ActivateProfile(p) PROVE Held'
  BY <1>1 DEF ActivateProfile
<1>2. ASSUME NEW by \in Callers, EngineStart(by) \/ EngineStop(by) PROVE Held'
  BY <1>2 DEF EngineStart, EngineStop
<1>3. CASE EnableProxy \/ DisableProxy \/ SaveOwner \/ CheckProxy \/ RestoreProxy \/ DeleteOwner
  BY <1>3 DEF EnableProxy, DisableProxy, SaveOwner, CheckProxy, RestoreProxy,
              DeleteOwner
<1>4. CASE BindProxy \/ ApplyProxy \/ UndoApply \/ ForgetUndone \/ PersistActive \/ RestartOld
  BY <1>4 DEF BindProxy, ApplyProxy, UndoApply, ForgetUndone, PersistActive, RestartOld
<1>5. CASE Boot \/ ServeReturns \/ RepairStaleProxy \/ RestoreOnShutdown
  BY <1>5 DEF Boot, ServeReturns, RepairStaleProxy, RestoreOnShutdown
<1>6. CASE UNCHANGED vars
  BY <1>6 DEF vars
<1>7. ASSUME NEW p \in Profile, DeleteProfile(p) PROVE Held'
  BY <1>7 DEF DeleteProfile
<1>8. ASSUME NEW s \in Setting, UserSetsProxy(s) PROVE Held'
  BY <1>8 DEF UserSetsProxy
<1>9. ASSUME NEW p \in Profile, ProviderReclaims(p) PROVE Held'
  BY <1>9 DEF ProviderReclaims, Reclaimed
<1>10. CASE HaltRuntime \/ Shutdown
  BY <1>10 DEF HaltRuntime, Shutdown, BeginStop, MayStop
<1>11. CASE Halted \/ ShutdownStopped
  <2>1. CASE StopSucceeds
    BY <1>11, <2>1 DEF StopSucceeds, Forgotten
  <2>2. CASE StopFails
    <3>1. engine'.state = "fatal" /\ engine'.profile = engine.profile /\ box' \subseteq box
      BY <2>2 DEF StopFails
    <3>2. HeldRuns => HeldRuns'
      BY <2>2, <3>1 DEF StopFails
    <3>3. QED
      BY <3>1, <3>2
  <2>3. QED
    BY <1>11, <2>1, <2>2 DEF Halted, ShutdownStopped
<1>12. CASE StartRuntime
  BY <1>12 DEF StartRuntime, BeginStart, MayStart
<1>13. CASE Started
  BY <1>13 DEF Started, StartSucceeds, StartFails, LostReply
<1>14. CASE Exit \/ Crash
  BY <1>14 DEF Exit, Crash, Die, EngineLost
<1>15. QED
  BY <1>1, <1>2, <1>3, <1>4, <1>5, <1>6, <1>7, <1>8, <1>9, <1>10, <1>11, <1>12, <1>13,
     <1>14
     DEF Next, Begin, OpStep, DaemonStep, Environment

(* A sing-box instance in this process is always the one whose owner the   *)
(* engine holds, whatever fails: none is out of reach, there are never two. *)
THEOREM LocalBoxStaysHeld == Spec => []LocalBoxIsHeld
<1>1. Init => Held
  BY DEF Init, EngineInit, NoRuntime, Held, LocalBoxIsHeld
<1>2. Inv /\ Held /\ [Next]_vars => Held'
  BY HeldStep
<1>3. Held => LocalBoxIsHeld
  BY DEF Held
<1>4. QED
  BY <1>1, <1>2, <1>3, InvHolds, PTL DEF Spec

-----------------------------------------------------------------------------
(* The promise about the user's setting                                    *)

(* While no write stops half way, nothing that is in place or remembered   *)
(* is half written or brought back by half a write.                        *)
Whole ==
  /\ os \notin {Mixed, Stray}
  /\ record # None => record.snapshot \notin {Mixed, Stray}
  /\ op.kept # None => op.kept.snapshot \notin {Mixed, Stray}
  /\ daemon.kept # None => daemon.kept.snapshot \notin {Mixed, Stray}

(* If writes do not stop half way, no step of any actor breaks a setting.  *)
LEMMA WholeStep ==
  ASSUME "half" \notin Faults
  PROVE  Inv /\ Whole /\ [Next]_vars => Whole'
<1> SUFFICES ASSUME Inv, Whole, [Next]_vars PROVE Whole'
  OBVIOUS
<1> USE DEF Inv, TypeOK, ProxyTypeOK, Records, Snapshots, Ops, Calls, OpPoints,
            DaemonPoints, NoOp, Free, Serving, Point, Advance,
            Return, engineVars, proxyVars, dbVars, OpShape, Whole
<1>1. ASSUME NEW p \in Profile, ActivateProfile(p) PROVE Whole'
  BY <1>1 DEF ActivateProfile, Open
<1>2. ASSUME NEW by \in Callers, EngineStart(by) PROVE Whole'
  BY <1>2 DEF EngineStart, Open, Callers
<1>3. ASSUME NEW by \in Callers, EngineStop(by) PROVE Whole'
  BY <1>3 DEF EngineStop, Open, Callers
<1>4. CASE EnableProxy
  BY <1>4 DEF EnableProxy, Open, Listening
<1>5. CASE DisableProxy
  BY <1>5 DEF DisableProxy, Open
<1>6. CASE SaveOwner
  BY <1>6 DEF SaveOwner, Save
<1>7. CASE CheckProxy
  BY <1>7, CaptureFields DEF CheckProxy, Released, Forget
<1>8. CASE RestoreProxy
  BY <1>8 DEF RestoreProxy, Write, WriteFails, Partly
<1>9. CASE DeleteOwner
  BY <1>9 DEF DeleteOwner, Released, ForgetRecord, Forget
<1>10. CASE HaltRuntime
  BY <1>10 DEF HaltRuntime, BeginStop
<1>11. CASE Halted
  BY <1>11 DEF Halted, StopSucceeds, StopFails
<1>12. CASE StartRuntime
  BY <1>12, RollbackFields DEF StartRuntime, BeginStart, NotStarted
<1>13. CASE Started
  BY <1>13, RollbackFields DEF Started, StartSucceeds, StartFails, LostReply, NotStarted
<1>14. CASE BindProxy
  BY <1>14, RollbackFields DEF BindProxy, Listening, Save
<1>15. CASE ApplyProxy
  BY <1>15 DEF ApplyProxy, Write, WriteFails, Partly
<1>16. CASE UndoApply
  BY <1>16, RollbackFields DEF UndoApply, Write, WriteFails, Partly, Undone
<1>17. CASE ForgetUndone
  BY <1>17, RollbackFields DEF ForgetUndone, ForgetRecord, Forget, Undone
<1>18. CASE PersistActive
  BY <1>18, RollbackFields DEF PersistActive
<1>19. CASE RestartOld
  BY <1>19, StartOldFields DEF RestartOld
<1>20. CASE Boot \/ ServeReturns
  BY <1>20 DEF Boot, ServeReturns, Goto, Down
<1>21. CASE RepairStaleProxy
  BY <1>21 DEF RepairStaleProxy, Repair, Goto, Forget, Write, WriteFails, Partly
<1>22. CASE Shutdown \/ ShutdownStopped
  BY <1>22 DEF Shutdown, ShutdownStopped, Goto, BeginStop, StopSucceeds, StopFails
<1>23. CASE RestoreOnShutdown
  BY <1>23 DEF RestoreOnShutdown, Repair, Goto, Forget, Write, WriteFails, Partly
<1>24. CASE Exit \/ Crash
  BY <1>24 DEF Exit, Crash, Die, Down, EngineLost
<1>25. ASSUME NEW p \in Profile, DeleteProfile(p) \/ ProviderReclaims(p) PROVE Whole'
  BY <1>25 DEF DeleteProfile, ProviderReclaims, Reclaimed
<1>26. ASSUME NEW s \in Setting, UserSetsProxy(s) PROVE Whole'
  BY <1>26 DEF UserSetsProxy
<1>27. CASE UNCHANGED vars
  BY <1>27 DEF vars
<1>28. QED
  BY <1>1, <1>2, <1>3, <1>4, <1>5, <1>6, <1>7, <1>8, <1>9, <1>10, <1>11, <1>12, <1>13,
     <1>14, <1>15, <1>16, <1>17, <1>18, <1>19, <1>20, <1>21, <1>22, <1>23, <1>24, <1>25,
     <1>26, <1>27
     DEF Next, Begin, OpStep, DaemonStep, Environment

(* A write of a setting that is no address of qkbox settles the promise.   *)
LEMMA SettleStep == ASSUME NEW s \in Setting, Write(s) PROVE Promise!Next
  BY DEF Write, Promise!Next, Promise!Settle

(* A failed write that does not stop half way changes nothing of it.       *)
LEMMA WriteFailsStep ==
  ASSUME "half" \notin Faults, NEW s, WriteFails(s)
  PROVE  UNCHANGED Promise!promiseVars
  BY DEF WriteFails, Partly, Promise!promiseVars

(* A write of an address of qkbox under a record takes what is remembered. *)
LEMMA TakeStep ==
  ASSUME NEW a \in Address, record # None, record \in Records, Write(a)
  PROVE  [Promise!Next]_(Promise!promiseVars)
<1>1. record.snapshot # None
  BY DEF Records, Snapshots
<1>2. QED
  BY <1>1 DEF Write, Promise!Next, Promise!Take

(* A record may be deleted once no address of qkbox is in the setting.     *)
LEMMA ForgetStep ==
  ASSUME os \notin Address, Forget
  PROVE  [Promise!Next]_(Promise!promiseVars)
  BY DEF Forget, Promise!Next, Promise!Forget, Promise!promiseVars

(* A record of a whole setting may be saved while no address is in place.  *)
LEMMA RememberStep ==
  ASSUME os \notin Address, NEW r \in Records, r.snapshot \in Setting, Save(r)
  PROVE  [Promise!Next]_(Promise!promiseVars)
  BY DEF Save, Promise!Next, Promise!Remember

(* If writes do not stop half way, every step of calls, daemon, user and   *)
(* provider, and every crash, is a step of the promise or leaves setting   *)
(* and remembered setting alone.                                           *)
LEMMA PromiseStep ==
  ASSUME "half" \notin Faults
  PROVE  Inv /\ Whole /\ [Next]_vars => [Promise!Next]_(Promise!promiseVars)
<1> SUFFICES ASSUME Inv, Whole, [Next]_vars PROVE [Promise!Next]_(Promise!promiseVars)
  OBVIOUS
<1>a. UNCHANGED proxyVars => UNCHANGED Promise!promiseVars
  BY DEF proxyVars, Promise!promiseVars
<1>b. record # None => record \in Records /\ record.snapshot \in Setting
  BY DEF Inv, TypeOK, ProxyTypeOK, Records, Snapshots, Cover, Whole
<1>c. op.kept # None => op.kept \in Records /\ op.kept.snapshot \in Setting
  BY DEF Inv, TypeOK, Ops, Records, Snapshots, Cover, Whole
<1>d. daemon.kept # None => daemon.kept.snapshot \in Setting
  BY DEF Inv, TypeOK, Records, Snapshots, Cover, Whole
<1>e. record # None /\ Differs => os \notin Address
  BY DEF Inv, Cover, RecordCoversProxy, Matches, Differs
<1> DEFINE Promised == [Promise!Next]_(Promise!promiseVars)
<1>1. CASE UNCHANGED proxyVars
  BY <1>1, <1>a
<1>2. CASE SaveOwner
  <2> SUFFICES ASSUME ~UNCHANGED proxyVars PROVE Promised
    BY <1>1
  <2>1. os \notin Address
    BY <1>2 DEF SaveOwner, Point, Inv, Cover
  <2>2. CASE op.kept # None
    BY <1>2, <1>c, <2>1, <2>2, RememberStep DEF SaveOwner
  <2>3. CASE op.kept = None
    <3> DEFINE new == [record EXCEPT !.addr = Listener[op.profile]]
    <3>1. new \in Records /\ new.snapshot \in Setting
      BY <1>2, <1>b, <2>3 DEF SaveOwner, Point, Inv, OpShape, Records
    <3>2. Save(new)
      BY <1>2, <2>3 DEF SaveOwner
    <3> HIDE DEF new
    <3>3. QED
      BY <2>1, <3>1, <3>2, RememberStep
  <2>4. QED
    BY <2>2, <2>3
<1>3. CASE BindProxy
  <2> SUFFICES ASSUME ~UNCHANGED proxyVars PROVE Promised
    BY <1>1
  <2> DEFINE new == [op.kept EXCEPT !.addr = Listener[op.profile]]
  <2>1. os \notin Address /\ op.kept # None
    BY <1>3 DEF BindProxy, Point, Inv, Cover, OpShape
  <2>2. Save(new) /\ Listening(op.profile)
    BY <1>3 DEF BindProxy
  <2>3. Listener[op.profile] \in Address
    BY <2>2 DEF Listening, Inv, TypeOK, EngineTypeOK
  <2>4. new \in Records /\ new.snapshot \in Setting
    BY <1>c, <2>1, <2>3 DEF Records
  <2> HIDE DEF new
  <2>5. QED
    BY <2>1, <2>2, <2>4, RememberStep
<1>4. CASE ApplyProxy
  <2>1. Listener[op.profile] \in Address /\ record # None
    BY <1>4 DEF ApplyProxy, Point, Inv, OpShape, Cover
  <2>2. CASE Write(Listener[op.profile])
    BY <1>b, <2>1, <2>2, TakeStep
  <2>3. CASE WriteFails(Listener[op.profile])
    BY <2>3, WriteFailsStep
  <2>4. QED
    BY <1>4, <2>2, <2>3 DEF ApplyProxy
<1>5. CASE RestoreProxy \/ UndoApply
  <2>1. op.kept.snapshot \in Setting
    BY <1>5, <1>c DEF RestoreProxy, UndoApply, Point, Inv, OpShape
  <2>2. Write(op.kept.snapshot) \/ WriteFails(op.kept.snapshot)
    BY <1>5 DEF RestoreProxy, UndoApply
  <2>3. QED
    BY <2>1, <2>2, SettleStep, WriteFailsStep
<1>6. CASE DeleteOwner \/ ForgetUndone
  <2>1. os \notin Address
    BY <1>6 DEF DeleteOwner, ForgetUndone, Point, Inv, Cover
  <2>2. Forget \/ UNCHANGED proxyVars
    BY <1>6 DEF DeleteOwner, ForgetUndone, ForgetRecord
  <2>3. QED
    BY <1>1, <2>1, <2>2, ForgetStep
<1>7. CASE CheckProxy
  <2>1. UNCHANGED proxyVars \/ (record # None /\ Differs /\ Forget)
    BY <1>7 DEF CheckProxy
  <2>2. QED
    BY <1>1, <1>e, <2>1, ForgetStep
<1>8. CASE RepairStaleProxy \/ RestoreOnShutdown
  <2>1. \/ UNCHANGED proxyVars
        \/ (record # None /\ Differs /\ Forget)
        \/ daemon.at \in {"bootDelete", "delete"} /\ Forget
        \/ /\ daemon.at \in {"bootRestore", "restore"}
           /\ Write(daemon.kept.snapshot) \/ WriteFails(daemon.kept.snapshot)
    BY <1>8 DEF RepairStaleProxy, RestoreOnShutdown, Repair
  <2>2. daemon.at \in {"bootDelete", "delete"} => os \notin Address
    BY DEF Inv, Cover
  <2>3. daemon.at \in {"bootRestore", "restore"} => daemon.kept.snapshot \in Setting
    BY <1>d DEF Inv, OpShape
  <2>4. QED
    BY <1>1, <1>e, <2>1, <2>2, <2>3, ForgetStep, SettleStep, WriteFailsStep
<1>9. ASSUME NEW s \in Setting, UserSetsProxy(s) PROVE Promised
  BY <1>9 DEF UserSetsProxy, Promise!Next, Promise!Settle
<1>10. \/ UNCHANGED proxyVars
       \/ SaveOwner \/ BindProxy \/ ApplyProxy \/ RestoreProxy \/ UndoApply
       \/ DeleteOwner \/ ForgetUndone \/ CheckProxy \/ RepairStaleProxy \/ RestoreOnShutdown
       \/ \E s \in Setting : UserSetsProxy(s)
  BY DEF Next, Begin, OpStep, DaemonStep, Environment, ActivateProfile, EngineStart, EngineStop,
         EnableProxy, DisableProxy, HaltRuntime, Halted, StartRuntime, Started, PersistActive,
         RestartOld, Boot, ServeReturns, Shutdown, ShutdownStopped, Exit, Crash, Die,
         DeleteProfile, ProviderReclaims, vars, proxyVars
<1>11. QED
  BY <1>1, <1>2, <1>3, <1>4, <1>5, <1>6, <1>7, <1>8, <1>9, <1>10

(* If no write of the setting stops half way, qkboxd implements            *)
(* ProxyPromise across every other fault and every crash: it remembers     *)
(* settings of users alone, and never forgets one while an address of      *)
(* qkbox is in its place.                                                  *)
THEOREM PromiseIsKept ==
  ASSUME "half" \notin Faults
  PROVE  Spec => KeepsPromise
<1>1. Init => Whole /\ Promise!Init
  BY DEF Init, ProxyInit, NoOp, Down, Whole, Promise!Init
<1>2. Inv /\ Whole /\ [Next]_vars => Whole'
  BY WholeStep
<1>3. Inv /\ Whole /\ [Next]_vars => [Promise!Next]_(Promise!promiseVars)
  BY PromiseStep
<1>4. QED
  BY <1>1, <1>2, <1>3, InvHolds, PTL DEF Spec, KeepsPromise, Promise!Spec

-----------------------------------------------------------------------------
(* While the setting of the system can be read and written                 *)

\* The setting of the system can be read and written.
SettingWorks == "os" \notin Faults /\ "read" \notin Faults

(* Strengthens ProxyLeavesFirst and ShutdownRestoresProxy: from the release *)
(* of the proxy to the end of the call, rollbacks included, no address of  *)
(* qkbox is in the setting, unless the call puts it there; and a write that *)
(* cannot fail is never undone.                                            *)
Left ==
  /\ op.at \notin {"undo", "undone"}
  /\ op.call \in {"activate", "stop"} /\ op.at \in {"halt", "halting", "start", "starting",
                                                         "restart"}
       => os \notin Address
  /\ op.at = "persist" /\ op.kept = None => os \notin Address
  /\ op.call = "activate" /\ op.at = "apply" => op.kept # None
  /\ ShutdownRestoresProxy

(* Strengthens NoDeadProxy: it holds during calls as between them, and a   *)
(* call that is about to write an address writes that of the runtime held. *)
Alive ==
  /\ Serving /\ os \in Address => engine.profile # None /\ os = Listener[engine.profile]
  /\ op.at \in {"save", "bind", "apply"} => engine.profile = op.profile

(* Where an activation has a runtime that is not the active profile's: from *)
(* its start to the save, or until the rollback has stopped it.            *)
Apart ==
  /\ op.call = "activate"
  /\ \/ op.at \in {"bind", "apply", "persist"}
     \/ op.back = "yes" /\ op.at \in {"restore", "delete", "halt", "halting"}

(* Strengthens ActiveIsRunning: what each call may start is the active     *)
(* profile, though a deletion may reset that in between.                   *)
Agreed ==
  /\ engine.state = "started" => engine.profile # None
  /\ engine.state = "started" /\ ~Apart => active \in {engine.profile, None}
  /\ op.call = "start" => active \in {op.profile, None}
  /\ op.call = "activate" /\ op.old # None => active \in {op.old, None}
  /\ op.call = "activate" /\ op.back = "yes" /\ op.at \in {"start", "starting"}
       => active \in {op.profile, None}
  /\ op.call = "activate" /\ op.at \in {"bind", "apply", "persist"}
       => engine.state = "started" /\ engine.profile = op.profile

(* No step of a call, of the daemon or of a user puts an address of qkbox  *)
(* in place while a call may stop the runtime, or when the daemon closes.  *)
LEMMA LeftStep ==
  ASSUME SettingWorks
  PROVE  Inv /\ Left /\ [Next]_vars => Left'
<1> SUFFICES ASSUME Inv /\ Left, [Next]_vars PROVE Left'
  OBVIOUS
<1> USE SettingWorks DEF SettingWorks, Inv, TypeOK, EngineTypeOK, EngineStates, ProxyTypeOK,
            Records, Snapshots, Calls, OpPoints, Ops, DaemonPoints, NoOp, Free, Serving,
            Point, Advance, Return, NoRuntime, engineVars, proxyVars, dbVars,
            OpShape, Cover, RecordCoversProxy, Left, ShutdownRestoresProxy
<1>1. ASSUME NEW p \in Profile, ActivateProfile(p) PROVE Left'
  BY <1>1 DEF ActivateProfile, Open
<1>2. ASSUME NEW by \in Callers, EngineStart(by) \/ EngineStop(by) PROVE Left'
  BY <1>2 DEF EngineStart, EngineStop, Open, Callers
<1>3. CASE EnableProxy \/ DisableProxy
  BY <1>3 DEF EnableProxy, DisableProxy, Open, Listening
<1>4. CASE SaveOwner
  BY <1>4 DEF SaveOwner, Save
<1>5. CASE CheckProxy
  BY <1>5, CaptureFields DEF CheckProxy, Released, Forget, Matches, Differs, Unreadable,
               DbOpen
<1>6. CASE RestoreProxy
  BY <1>6 DEF RestoreProxy, Write, WriteFails
<1>7. CASE DeleteOwner
  BY <1>7 DEF DeleteOwner, Released, ForgetRecord, Forget
<1>8. CASE HaltRuntime
  BY <1>8 DEF HaltRuntime, BeginStop, MayStop
<1>9. CASE Halted
  BY <1>9 DEF Halted, StopSucceeds, StopFails
<1>10. CASE StartRuntime
  BY <1>10, RollbackFields DEF StartRuntime, BeginStart, MayStart, NotStarted
<1>11. CASE Started
  BY <1>11, RollbackFields DEF Started, StartSucceeds, StartFails, LostReply, NotStarted
<1>12. CASE BindProxy
  BY <1>12, RollbackFields DEF BindProxy, Listening, Save
<1>13. CASE ApplyProxy
  BY <1>13 DEF ApplyProxy, Write, WriteFails
<1>14. CASE UndoApply \/ ForgetUndone
  BY <1>14, RollbackFields DEF UndoApply, ForgetUndone
<1>15. CASE PersistActive
  BY <1>15, RollbackFields DEF PersistActive
<1>16. CASE RestartOld
  BY <1>16, StartOldFields DEF RestartOld
<1>17. CASE Boot \/ ServeReturns
  BY <1>17 DEF Boot, ServeReturns, Goto, Down
<1>18. CASE RepairStaleProxy \/ RestoreOnShutdown
  BY <1>18 DEF RepairStaleProxy, RestoreOnShutdown, Repair, Goto, Forget, Write, WriteFails,
               Unreadable, Matches, Differs
<1>19. CASE Shutdown \/ ShutdownStopped
  BY <1>19 DEF Shutdown, ShutdownStopped, Goto, BeginStop, MayStop, StopSucceeds,
               StopFails
<1>20. CASE Exit \/ Crash
  BY <1>20 DEF Exit, Crash, Die, Down, EngineLost
<1>21. ASSUME NEW p \in Profile, DeleteProfile(p) \/ ProviderReclaims(p) PROVE Left'
  BY <1>21 DEF DeleteProfile, ProviderReclaims, Reclaimed
<1>22. ASSUME NEW s \in Setting, UserSetsProxy(s) PROVE Left'
  BY <1>22 DEF UserSetsProxy
<1>23. CASE UNCHANGED vars
  BY <1>23 DEF vars
<1>24. QED
  BY <1>1, <1>2, <1>3, <1>4, <1>5, <1>6, <1>7, <1>8, <1>9, <1>10, <1>11, <1>12, <1>13,
     <1>14, <1>15, <1>16, <1>17, <1>18, <1>19, <1>20, <1>21, <1>22, <1>23
     DEF Next, Begin, OpStep, DaemonStep, Environment

(* No step of a daemon that serves parts the setting from the runtime held: *)
(* the engine lets go of one only after the proxy has been released.       *)
LEMMA AliveStep ==
  ASSUME SettingWorks
  PROVE  Inv /\ Held /\ Left /\ Alive /\ [Next]_vars => Alive'
<1> SUFFICES ASSUME Inv /\ Held /\ Left /\ Alive, [Next]_vars PROVE Alive'
  OBVIOUS
<1> USE SettingWorks DEF SettingWorks, Inv, TypeOK, EngineTypeOK, EngineStates, ProxyTypeOK,
            Records, Snapshots, Calls, OpPoints, Ops, DaemonPoints, NoOp, Free, Serving,
            Point, Advance, Return, NoRuntime, engineVars, proxyVars, dbVars,
            OpShape, Cover, RecordCoversProxy, Left, Alive, Held
<1>1. ASSUME NEW p \in Profile, ActivateProfile(p) PROVE Alive'
  BY <1>1 DEF ActivateProfile, Open
<1>2. ASSUME NEW by \in Callers, EngineStart(by) \/ EngineStop(by) PROVE Alive'
  BY <1>2 DEF EngineStart, EngineStop, Open, Callers
<1>3. CASE EnableProxy \/ DisableProxy
  BY <1>3 DEF EnableProxy, DisableProxy, Open, Listening
<1>4. CASE SaveOwner
  BY <1>4 DEF SaveOwner, Save
<1>5. CASE CheckProxy
  BY <1>5, CaptureFields DEF CheckProxy, Released, Forget, Matches, Differs, Unreadable,
               DbOpen
<1>6. CASE RestoreProxy
  BY <1>6 DEF RestoreProxy, Write, WriteFails
<1>7. CASE DeleteOwner
  BY <1>7 DEF DeleteOwner, Released, ForgetRecord, Forget
<1>8. CASE HaltRuntime
  BY <1>8 DEF HaltRuntime, BeginStop, MayStop
<1>9. CASE Halted
  BY <1>9 DEF Halted, StopSucceeds, StopFails
<1>10. CASE StartRuntime
  BY <1>10, RollbackFields DEF StartRuntime, BeginStart, MayStart, NotStarted
<1>11. CASE Started
  BY <1>11, RollbackFields DEF Started, StartSucceeds, StartFails, LostReply, NotStarted
<1>12. CASE BindProxy
  BY <1>12, RollbackFields DEF BindProxy, Listening, Save
<1>13. CASE ApplyProxy
  BY <1>13 DEF ApplyProxy, Write, WriteFails
<1>14. CASE UndoApply \/ ForgetUndone
  BY <1>14, RollbackFields DEF UndoApply, ForgetUndone
<1>15. CASE PersistActive
  BY <1>15, RollbackFields DEF PersistActive
<1>16. CASE RestartOld
  BY <1>16, StartOldFields DEF RestartOld
<1>17. CASE Boot \/ ServeReturns
  BY <1>17 DEF Boot, ServeReturns, Goto, Down
<1>18. CASE RepairStaleProxy \/ RestoreOnShutdown
  BY <1>18 DEF RepairStaleProxy, RestoreOnShutdown, Repair, Goto, Forget, Write, WriteFails,
               Unreadable, Matches, Differs
<1>19. CASE Shutdown \/ ShutdownStopped
  BY <1>19 DEF Shutdown, ShutdownStopped, Goto, BeginStop, MayStop, StopSucceeds,
               StopFails
<1>20. CASE Exit \/ Crash
  BY <1>20 DEF Exit, Crash, Die, Down, EngineLost
<1>21. ASSUME NEW p \in Profile, DeleteProfile(p) \/ ProviderReclaims(p) PROVE Alive'
  BY <1>21 DEF DeleteProfile, ProviderReclaims, Reclaimed
<1>22. ASSUME NEW s \in Setting, UserSetsProxy(s) PROVE Alive'
  BY <1>22 DEF UserSetsProxy
<1>23. CASE UNCHANGED vars
  BY <1>23 DEF vars
<1>24. QED
  BY <1>1, <1>2, <1>3, <1>4, <1>5, <1>6, <1>7, <1>8, <1>9, <1>10, <1>11, <1>12, <1>13,
     <1>14, <1>15, <1>16, <1>17, <1>18, <1>19, <1>20, <1>21, <1>22, <1>23
     DEF Next, Begin, OpStep, DaemonStep, Environment

(* A stop ends in an engine that is idle, or in a fatal one.               *)
LEMMA StopStates ==
  ASSUME EngineTypeOK, StopSucceeds \/ StopFails
  PROVE  engine'.state # "started"
<1>1. CASE StopSucceeds
  BY <1>1 DEF StopSucceeds, NoRuntime
<1>2. CASE StopFails
  <2>1. engine'.state = "fatal"
    BY <1>2 DEF StopFails, EngineTypeOK
  <2>2. QED
    BY <2>1
<1>3. QED
  BY <1>1, <1>2

(* No step of an activation, a rollback or a deletion leaves the running   *)
(* and the active profile apart for longer than Apart says.                *)
LEMMA AgreedStep ==
  ASSUME SettingWorks
  PROVE  Inv /\ Held /\ Left /\ Agreed /\ [Next]_vars => Agreed'
<1> SUFFICES ASSUME Inv /\ Held /\ Left /\ Agreed, [Next]_vars PROVE Agreed'
  OBVIOUS
<1> USE SettingWorks DEF SettingWorks, Inv, TypeOK, EngineTypeOK, EngineStates, ProxyTypeOK,
            Records, Snapshots, Calls, OpPoints, Ops, DaemonPoints, NoOp, Free, Serving,
            Point, Advance, Return, NoRuntime, engineVars, proxyVars, dbVars,
            OpShape, Left, Held, Agreed, Apart
<1>1. ASSUME NEW p \in Profile, ActivateProfile(p) PROVE Agreed'
  BY <1>1 DEF ActivateProfile, Open
<1>2. ASSUME NEW by \in Callers, EngineStart(by) \/ EngineStop(by) PROVE Agreed'
  BY <1>2 DEF EngineStart, EngineStop, Open, Callers
<1>3. CASE EnableProxy \/ DisableProxy
  BY <1>3 DEF EnableProxy, DisableProxy, Open, Listening
<1>4. CASE SaveOwner
  BY <1>4 DEF SaveOwner, Save
<1>5. CASE CheckProxy
  BY <1>5, CaptureFields DEF CheckProxy, Released, Forget, Matches, Differs, Unreadable,
               DbOpen
<1>6. CASE RestoreProxy
  BY <1>6 DEF RestoreProxy, Write, WriteFails
<1>7. CASE DeleteOwner
  BY <1>7 DEF DeleteOwner, Released, ForgetRecord, Forget
<1>8. CASE HaltRuntime
  BY <1>8 DEF HaltRuntime, BeginStop, MayStop
<1>9. CASE Halted
  BY <1>9, StopStates DEF Halted, EngineTypeOK
<1>10. CASE StartRuntime
  BY <1>10, RollbackFields DEF StartRuntime, BeginStart, MayStart, NotStarted
<1>11. CASE Started
  BY <1>11, RollbackFields DEF Started, StartSucceeds, StartFails, LostReply, NotStarted
<1>12. CASE BindProxy
  BY <1>12, RollbackFields DEF BindProxy, Listening, Save
<1>13. CASE ApplyProxy
  BY <1>13 DEF ApplyProxy, Write, WriteFails
<1>14. CASE UndoApply \/ ForgetUndone
  BY <1>14, RollbackFields DEF UndoApply, ForgetUndone
<1>15. CASE PersistActive
  BY <1>15, RollbackFields DEF PersistActive
<1>16. CASE RestartOld
  BY <1>16, StartOldFields DEF RestartOld
<1>17. CASE Boot \/ ServeReturns
  BY <1>17 DEF Boot, ServeReturns, Goto, Down
<1>18. CASE RepairStaleProxy \/ RestoreOnShutdown
  BY <1>18 DEF RepairStaleProxy, RestoreOnShutdown, Repair, Goto, Forget, Write, WriteFails,
               Unreadable, Matches, Differs
<1>19. CASE Shutdown \/ ShutdownStopped
  BY <1>19, StopStates DEF Shutdown, ShutdownStopped, Goto, BeginStop, MayStop
<1>20. CASE Exit \/ Crash
  BY <1>20 DEF Exit, Crash, Die, Down, EngineLost
<1>21. ASSUME NEW p \in Profile, DeleteProfile(p) \/ ProviderReclaims(p) PROVE Agreed'
  BY <1>21 DEF DeleteProfile, ProviderReclaims, Reclaimed
<1>22. ASSUME NEW s \in Setting, UserSetsProxy(s) PROVE Agreed'
  BY <1>22 DEF UserSetsProxy
<1>23. CASE UNCHANGED vars
  BY <1>23 DEF vars
<1>24. QED
  BY <1>1, <1>2, <1>3, <1>4, <1>5, <1>6, <1>7, <1>8, <1>9, <1>10, <1>11, <1>12, <1>13,
     <1>14, <1>15, <1>16, <1>17, <1>18, <1>19, <1>20, <1>21, <1>22, <1>23
     DEF Next, Begin, OpStep, DaemonStep, Environment

(* From the start and ever after, if the setting can be read and written,  *)
(* all of this holds together.                                             *)
LEMMA ServesHolds ==
  ASSUME SettingWorks
  PROVE  Spec => [](Inv /\ Held /\ Left /\ Alive /\ Agreed)
<1>1. Init => Held /\ Left /\ Alive /\ Agreed
  BY DEF Init, EngineInit, ProxyInit, NoRuntime, NoOp, Down, Serving, Held, LocalBoxIsHeld, Left,
         ShutdownRestoresProxy, Alive, Agreed
<1>2. Inv /\ Held /\ [Next]_vars => Held'
  BY HeldStep
<1>3. Inv /\ Left /\ [Next]_vars => Left'
  BY LeftStep
<1>4. Inv /\ Held /\ Left /\ Alive /\ [Next]_vars => Alive'
  BY AliveStep
<1>5. Inv /\ Held /\ Left /\ Agreed /\ [Next]_vars => Agreed'
  BY AgreedStep
<1>6. QED
  BY <1>1, <1>2, <1>3, <1>4, <1>5, InvHolds, PTL DEF Spec

(* If the setting can be read and written, no call stops a runtime that the *)
(* setting points to: release comes first, in every rollback as well.      *)
THEOREM StopsAfterRelease == ASSUME SettingWorks PROVE Spec => []ProxyLeavesFirst
<1>1. Inv /\ Left => ProxyLeavesFirst
  BY DEF Inv, OpShape, Left, ProxyLeavesFirst, Point
<1>2. QED
  BY <1>1, ServesHolds, PTL

(* If the setting can be read and written, it is the user's once a shutdown *)
(* is done, whatever the shutdown found the engine and the tray to be at.  *)
THEOREM ShutdownGivesBack == ASSUME SettingWorks PROVE Spec => []ShutdownRestoresProxy
<1>1. Left => ShutdownRestoresProxy
  BY DEF Left
<1>2. QED
  BY <1>1, ServesHolds, PTL

(* If the setting can be read and written, a daemon that serves has between *)
(* calls no address in it but that of the runtime held, which runs unless  *)
(* the provider has ended it, whatever crashes, starts, stops and writes   *)
(* of the database fail.                                                   *)
THEOREM ProxyPointsToRuntime == ASSUME SettingWorks PROVE Spec => []NoDeadProxy
<1>1. Held /\ Alive => NoDeadProxy
  BY DEF Held, Alive, NoDeadProxy
<1>2. QED
  BY <1>1, ServesHolds, PTL

(* If the setting can be read and written, the running profile is between  *)
(* calls the active one or one just deleted, after every failed activation. *)
THEOREM ActiveProfileRuns == ASSUME SettingWorks PROVE Spec => []ActiveIsRunning
<1>1. Agreed => ActiveIsRunning
  BY DEF Agreed, Apart, ActiveIsRunning, Free, NoOp
<1>2. QED
  BY <1>1, ServesHolds, PTL
=============================================================================

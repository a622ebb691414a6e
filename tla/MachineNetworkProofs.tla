------------------------- MODULE MachineNetworkProofs -------------------------
(***************************************************************************)
(* Theorems about MachineNetwork, for every set of runtimes and whichever  *)
(* starts, stops and deletions fail and processes die.                     *)
(***************************************************************************)
EXTENDS MachineNetwork, ProviderRuntimeProofs

-----------------------------------------------------------------------------
(* The controller keeps its own specification, whoever calls it            *)

(* Late, lost and reordered calls are nothing new to the controller: each  *)
(* step of the whole is one of its own steps or none of its business.      *)
LEMMA ControllerStep == [MachineNext]_mvars => [Next]_vars
<1> SUFFICES ASSUME [MachineNext]_mvars PROVE [Next]_vars
  OBVIOUS
<1>1. CASE CallStep
  BY <1>1 DEF CallStep, GiveUp, StartFailed, StartAcknowledged, Subscribed, SubscribeFailed,
              Undone, StopAnswered
<1>2. CASE StopBegin \/ StopAgain \/ StreamBreaks \/ DaemonDies
  BY <1>2 DEF StopBegin, StopAgain, StreamBreaks, DaemonDies
<1>3. ASSUME NEW r \in Runtime, StartBegin(r) \/ OwnerStep(r) PROVE [Next]_vars
  BY <1>3 DEF StartBegin, OwnerStep, HeartbeatTick, HeartbeatFails, HeartbeatExit
<1>4. ASSUME NEW r \in Runtime, Serve(r) PROVE [Next]_vars
  BY <1>4 DEF Serve, ServeStart, ServeStop, ServeSubscribe, ServeHeartbeat, Next, Request
<1>5. CASE ProviderOp \/ MonitorRuns \/ BeatsFallBehind
  BY <1>5 DEF ProviderOp, MonitorRuns, BeatsFallBehind, Next
<1>6. CASE CloseBegins \/ CloseStops \/ Exits \/ Crashes \/ Restarts
  BY <1>6 DEF CloseBegins, CloseStops, Exits, Crashes, Restarts, Next, Process
<1>7. CASE UNCHANGED mvars
  BY <1>7 DEF mvars
<1>8. QED
  BY <1>1, <1>2, <1>3, <1>4, <1>5, <1>6, <1>7 DEF MachineNext

(* qkboxd's calls, with their deadlines and their late executions, are     *)
(* among the clients that ProviderRuntime allows for, so what is proved of *)
(* it holds here.                                                          *)
THEOREM CallsImplementController == MachineSpec => Spec
<1>1. MachineInit => Init
  BY DEF MachineInit
<1>2. QED
  BY <1>1, ControllerStep, PTL DEF MachineSpec, Spec

(* However late starts and stops are executed, the machine never carries   *)
(* two sing-box instances.                                                 *)
THEOREM OneBoxAcrossCalls == MachineSpec => []AtMostOneBox
<1>1. Repairs = FALSE
  BY CallAssumption, RepairsAssumption
<1>2. QED
  BY <1>1, CallsImplementController, OneBoxWithoutRepair, PTL

(* Nor do late starts and stops make the controller break the abstract     *)
(* lock: the network goes to one runtime at a time and is given back only  *)
(* when nothing runs on it.                                                *)
THEOREM LockAcrossCalls == MachineSpec => KeepsTheLock
<1>1. Repairs = FALSE
  BY CallAssumption, RepairsAssumption
<1>2. QED
  BY <1>1, CallsImplementController, LockIsKept, PTL

-----------------------------------------------------------------------------
(* What is under way                                                       *)

Starting == op.at \in StartPoints \cup {"installed"}
Stopping == op.at \in StopPoints /\ op.by = None /\ phase = "up"

\* A start or a stop that was sent and may still have an effect.
StartPending(r) == <<"start", r>> \in requests \/ (Starting /\ op.id = r)
StopPending(r) == <<"stop", r>> \in requests \/ (Stopping /\ op.id = r)

(* What qkboxd holds at each point of a call, what it cannot have learned  *)
(* or done while a start of that runtime is pending, and who may be meant  *)
(* by a stop that is.                                                      *)
OwnerInv ==
  /\ call.id \in drawn \cup {None}
  /\ call = NoCall => (held # None <=> engine = "started")
  /\ call.at \in {"start", "subscribe", "undo"} => engine = "idle"
  /\ call.at \in {"start", "stop"} => held = None
  /\ call.at \in {"subscribe", "undo"} => held = call.id

PendingInv ==
  \A r \in Runtime :
    /\ <<"start", r>> \in requests => r \notin issued
    /\ StartPending(r) =>
         /\ r \in drawn /\ r # held /\ r \notin stopped
         /\ call.id = r => call.at = "start" /\ call.answer # "ok"
    /\ StopPending(r) =>
         /\ r \in drawn
         /\ call.id = r => call.at \notin {"start", "subscribe"}
         /\ held = r => call.at = "undo"

\* The provider says that a runtime is stopped only when it is.
AnswerInv ==
  /\ call.at \in {"stop", "undo"} /\ call.answer = "ok" => call.id \notin live
  /\ StoppedStaysStopped

BaseInv == TypeOK /\ OpInv /\ Exclusive
CallInv == MachineTypeOK /\ OwnerInv /\ PendingInv /\ AnswerInv

(* A step of the call that holds opMu: it stays what it is or returns, and *)
(* only a start that succeeds adds an instance.                            *)
LEMMA OpStepFields ==
  ASSUME TypeOK, OpInv, Exclusive, OpStep
  PROVE  /\ op.id \in Runtime /\ op.id \in issued /\ op # NoOp
         /\ UNCHANGED <<phase, issued>>
         /\ op' = NoOp \/ (op'.id = op.id /\ op'.by = op.by /\ Starting' = Starting /\ Stopping' = Stopping)
         /\ live' \subseteq live \cup IF Starting THEN {op.id} ELSE {}
         /\ At("deleted") => live' = {}
         /\ \A r \in live \ live' : r = op.id /\ At("stopping")
<1> USE DEF TypeOK, OpInv, Exclusive, At, Advance, Return, OpPoints, StartPoints, StopPoints,
            Starting, Stopping, NoOp, monitors, clients
<1>1. CASE StartBox \/ DeleteFailedStart \/ ClearFailedStart
  BY <1>1 DEF StartBox, DeleteFailedStart, ClearFailedStart
<1>2. CASE InstallAdapter \/ StartMonitor
  BY <1>2 DEF InstallAdapter, StartMonitor
<1>3. CASE StopBox
  BY <1>3 DEF StopBox
<1>4. CASE StopFailed \/ DeleteRecord
  BY <1>4 DEF StopFailed, DeleteRecord
<1>5. CASE DeleteFailed \/ StopDone
  BY <1>5 DEF DeleteFailed, StopDone
<1>6. QED
  BY <1>1, <1>2, <1>3, <1>4, <1>5 DEF OpStep

(* What the provider does of its own accord starts nothing, and stops      *)
(* nothing while it serves but in the name of a monitor.                   *)
OwnAccord ==
  /\ live' = live \/ (live' = {} /\ phase' = "down")
  /\ UNCHANGED issued
  /\ Starting' => Starting /\ op' = op
  /\ Stopping' => Stopping /\ op' = op

LEMMA MonitorAccord ==
  ASSUME TypeOK, OpInv, NEW m \in Runtime, MonitorStep(m)
  PROVE  OwnAccord
<1> USE DEF TypeOK, OpPoints, StartPoints, StopPoints, Starting, Stopping, NoOp, OwnAccord, clients
<1>1. CASE MonitorTick(m) \/ MonitorExit(m) \/ MonitorMarkStale(m)
  BY <1>1 DEF MonitorTick, MonitorExit, MonitorMarkStale
<1>2. CASE MonitorStop(m)
  BY <1>2, RuntimeAssumption DEF MonitorStop, BeginStop
<1>3. QED
  BY <1>1, <1>2 DEF MonitorStep

LEMMA ProcessAccord ==
  ASSUME TypeOK, OpInv, Expire \/ Process
  PROVE  OwnAccord
<1> USE DEF TypeOK, OpInv, OpPoints, StartPoints, StopPoints, Starting, Stopping, NoOp, OwnAccord,
            clients, monitors
<1>1. CASE Expire \/ CloseBegin
  BY <1>1 DEF Expire, CloseBegin
<1>2. CASE CloseStop
  BY <1>2 DEF CloseStop, BeginStop
<1>3. CASE Exit \/ Crash
  BY <1>3 DEF Exit, Crash, Die
<1>4. CASE Restart
  BY <1>4 DEF Restart
<1>5. QED
  BY <1>1, <1>2, <1>3, <1>4 DEF Process

-----------------------------------------------------------------------------
(* The owner's steps                                                       *)

CallRecord == [at: Rpcs, id: Runtime, answer: {"waiting", "ok", "failed"}]

(* A request that is sent adds itself to those under way, or fails.        *)
LEMMA SendFields ==
  ASSUME NEW kind \in RequestKinds, NEW rpc \in Rpcs, NEW r \in drawn, drawn \subseteq Runtime,
         MachineTypeOK, Send(kind, rpc, r)
  PROVE  /\ requests' \subseteq RequestKinds \X drawn
         /\ requests' = requests \/ requests' = requests \cup {<<kind, r>>}
         /\ call' \in CallRecord /\ call' # NoCall
         /\ call'.at = rpc /\ call'.id = r /\ call'.answer # "ok"
  BY DEF Send, MachineTypeOK, CallRecord, Rpcs, RequestKinds, NoCall

(* What the owner does in a call keeps the agreement of the two sides.     *)
LEMMA CallStepInv ==
  ASSUME BaseInv, CallInv, TypeOK', CallStep
  PROVE  CallInv'
<1> USE DEF CallInv, MachineTypeOK, OwnerInv, PendingInv, AnswerInv, StoppedStaysStopped,
            StartPending, StopPending, Starting, Stopping, Rpcs, NoCall
<1>1. CASE GiveUp
  <2>1. /\ call.at \in Rpcs /\ call.id \in Runtime /\ call' \in CallRecord
        /\ call'.at = call.at /\ call'.id = call.id /\ call'.answer = "failed"
    BY <1>1 DEF GiveUp, CallRecord
  <2>2. QED
    BY <1>1, <2>1 DEF GiveUp, CallRecord, vars
<1>2. CASE StartFailed
  BY <1>2 DEF StartFailed, vars
<1>3. CASE StartAcknowledged
  <2>1. /\ call.id \in drawn /\ call.id \in Runtime /\ held = None /\ reported = None
        /\ engine = "idle"
    BY <1>3, RuntimeAssumption DEF StartAcknowledged
  <2>2. Send("subscribe", "subscribe", call.id)
    BY <1>3 DEF StartAcknowledged, OpenSubscription
  <2>3. /\ requests' \subseteq RequestKinds \X drawn
        /\ requests' = requests \/ requests' = requests \cup {<<"subscribe", call.id>>}
        /\ call' \in CallRecord /\ call' # NoCall
        /\ call'.at = "subscribe" /\ call'.id = call.id /\ call'.answer # "ok"
    BY <2>1, <2>2, SendFields DEF RequestKinds
  <2>4. QED
    BY <1>3, <2>1, <2>3 DEF StartAcknowledged, CallRecord, vars
<1>4. CASE Subscribed
  <2>1. call.id \in drawn /\ call.id \in Runtime /\ held = call.id
    BY <1>4, RuntimeAssumption DEF Subscribed
  <2>2. beat' \in [Runtime -> {"off", "idle", "sent", "failed"}]
    BY <1>4, <2>1 DEF Subscribed
  <2>3. QED
    BY <1>4, <2>1, <2>2, RuntimeAssumption DEF Subscribed, vars
<1>5. CASE SubscribeFailed
  <2>1. call.id \in drawn /\ call.id \in Runtime /\ held = call.id /\ engine = "idle"
    BY <1>5, RuntimeAssumption DEF SubscribeFailed
  <2>2. /\ requests' \subseteq RequestKinds \X drawn
        /\ requests' = requests \/ requests' = requests \cup {<<"stop", call.id>>}
        /\ call' \in CallRecord /\ call' # NoCall
        /\ call'.at = "undo" /\ call'.id = call.id /\ call'.answer # "ok"
    BY <1>5, <2>1, SendFields DEF SubscribeFailed, RequestKinds
  <2>3. QED
    BY <1>5, <2>1, <2>2 DEF SubscribeFailed, CallRecord, vars
<1>6. CASE Undone
  <2>1. /\ call.at \in {"stop", "undo"} /\ call.id \in drawn /\ call.id \in Runtime
        /\ call.answer = "ok" => call.id \notin live
    BY <1>6, RuntimeAssumption DEF Undone
  <2>2. /\ stopped' \subseteq drawn /\ stopped' \cap live = {}
        /\ \A r \in Runtime : StartPending(r) => r \notin stopped'
    BY <1>6, <2>1 DEF Undone, StopConfirmed
  <2>3. /\ call' = NoCall /\ held' = None /\ reported' = None
        /\ engine' \in {"idle", "fatal"}
        /\ UNCHANGED <<vars, drawn, beat, stream, requests>>
    BY <1>6 DEF Undone
  <2>4. QED
    BY <2>2, <2>3, RuntimeAssumption DEF vars
<1>7. CASE StopAnswered
  <2>1. /\ call.at \in {"stop", "undo"} /\ call.id \in drawn /\ call.id \in Runtime
        /\ call.answer = "ok" => call.id \notin live
    BY <1>7, RuntimeAssumption DEF StopAnswered
  <2>2. /\ stopped' \subseteq drawn /\ stopped' \cap live = {}
        /\ \A r \in Runtime : StartPending(r) => r \notin stopped'
    BY <1>7, <2>1 DEF StopAnswered, StopConfirmed
  <2>3. /\ call' = NoCall /\ held' = None /\ reported' = None
        /\ engine' \in {"idle", "fatal"}
        /\ UNCHANGED <<vars, drawn, beat, stream, requests>>
    BY <1>7 DEF StopAnswered
  <2>4. QED
    BY <2>2, <2>3, RuntimeAssumption DEF vars
<1>8. QED
  BY <1>1, <1>2, <1>3, <1>4, <1>5, <1>6, <1>7 DEF CallStep

(* So do the beginnings and ends of calls, and the owner's goroutines.     *)
LEMMA OwnerStepInv ==
  ASSUME BaseInv, CallInv, TypeOK',
         \/ StopBegin \/ StopAgain \/ StreamBreaks \/ DaemonDies
         \/ \E r \in Runtime : StartBegin(r) \/ OwnerStep(r)
  PROVE  CallInv'
<1> USE DEF CallInv, MachineTypeOK, OwnerInv, PendingInv, AnswerInv, StoppedStaysStopped,
            StartPending, StopPending, Starting, Stopping, Rpcs, NoCall
<1>1. ASSUME NEW r \in Runtime, StartBegin(r) PROVE CallInv'
  <2>1. /\ r \notin drawn /\ drawn' = drawn \cup {r} /\ r \notin issued /\ r \notin stopped
        /\ held = None
    BY <1>1 DEF StartBegin
  <2>2. /\ requests' \subseteq RequestKinds \X (drawn \cup {r})
        /\ requests' = requests \/ requests' = requests \cup {<<"start", r>>}
        /\ call' \in CallRecord /\ call' # NoCall
        /\ call'.at = "start" /\ call'.id = r /\ call'.answer # "ok"
    BY <1>1 DEF StartBegin, Send, CallRecord, RequestKinds
  <2>3. \A q \in Runtime : StopPending(q) => q # r
    BY <2>1
  <2>4. QED
    BY <1>1, <2>1, <2>2, <2>3, RuntimeAssumption DEF StartBegin, CallRecord, vars
<1>2. CASE StopBegin
  <2>1. held \in drawn /\ held \in Runtime
    BY <1>2 DEF StopBegin
  <2>2. /\ requests' \subseteq RequestKinds \X drawn
        /\ requests' = requests \/ requests' = requests \cup {<<"stop", held>>}
        /\ call' \in CallRecord /\ call' # NoCall
        /\ call'.at = "stop" /\ call'.id = held /\ call'.answer # "ok"
    BY <1>2, <2>1, SendFields DEF StopBegin, RequestKinds
  <2>3. QED
    BY <1>2, <2>1, <2>2, RuntimeAssumption DEF StopBegin, CallRecord, vars
<1>3. CASE StopAgain
  BY <1>3 DEF StopAgain, vars
<1>4. CASE StreamBreaks
  BY <1>4 DEF StreamBreaks, vars
<1>5. CASE DaemonDies
  BY <1>5, RuntimeAssumption DEF DaemonDies, vars
<1>6. ASSUME NEW r \in Runtime, OwnerStep(r) PROVE CallInv'
  <2>1. /\ beat' \in [Runtime -> {"off", "idle", "sent", "failed"}]
        /\ reported' \in {None, held}
        /\ requests' = requests \/ (requests' = requests \cup {<<"beat", r>>} /\ r \in drawn)
        /\ UNCHANGED <<vars, engine, call, drawn, held, stream, stopped>>
    BY <1>6, RuntimeAssumption DEF OwnerStep, HeartbeatTick, HeartbeatFails, HeartbeatExit, End, Cancelled
  <2>2. QED
    BY <2>1 DEF vars, RequestKinds
<1>7. QED
  BY <1>1, <1>2, <1>3, <1>4, <1>5, <1>6

-----------------------------------------------------------------------------
(* The provider's steps                                                    *)

(* What the server does with a request keeps the agreement: a start is     *)
(* under way until the call that executes it answers.                      *)
LEMMA ServeStepInv ==
  ASSUME BaseInv, CallInv, TypeOK', NEW r \in Runtime, Serve(r)
  PROVE  CallInv' /\ UNCHANGED live
<1> USE DEF CallInv, MachineTypeOK, OwnerInv, PendingInv, AnswerInv, StoppedStaysStopped,
            StartPending, StopPending, Starting, Stopping, Rpcs, NoCall, Take, Answer, Waits
<1>1. CASE ServeStart(r)
  <2>1. /\ <<"start", r>> \in requests /\ requests' = requests \ {<<"start", r>>}
        /\ r \in drawn /\ UNCHANGED <<live, phase, engine, drawn, held, beat, stream, reported, stopped>>
    BY <1>1 DEF ServeStart, RequestStart, vars
  <2>2. CASE RequestStart(r) /\ UNCHANGED call
    <3>1. /\ issued' = issued \cup {r}
          /\ op = NoOp /\ (op' = op \/ op' = [at |-> "starting", by |-> None, id |-> r])
      BY <2>2 DEF RequestStart, BaseInv, TypeOK, At, OpPoints
    <3>2. /\ \A q \in Runtime : StartPending(q)' => StartPending(q)
          /\ \A q \in Runtime : StopPending(q)' => StopPending(q)
      BY <2>1, <3>1 DEF NoOp, StartPoints, StopPoints
    <3>3. QED
      BY <2>1, <2>2, <3>1, <3>2
  <2>3. CASE AnswerStart(r, "failed") /\ UNCHANGED vars
    BY <2>1, <2>3 DEF AnswerStart, vars
  <2>4. QED
    BY <1>1, <2>2, <2>3 DEF ServeStart
<1>2. CASE ServeStop(r)
  <2>1. /\ <<"stop", r>> \in requests /\ requests' = requests \ {<<"stop", r>>}
        /\ r \in drawn /\ At("free")
        /\ UNCHANGED <<live, phase, issued, engine, drawn, held, beat, stream, reported, stopped>>
    BY <1>2 DEF ServeStop, RequestStop, BeginStop, vars, clients
  <2>2. CASE RequestStop(r) /\ UNCHANGED call
    <3>1. op = NoOp /\ op' = [at |-> "stopping", by |-> None, id |-> r]
      BY <2>1, <2>2 DEF RequestStop, BeginStop, BaseInv, TypeOK, At, OpPoints
    <3>2. /\ \A q \in Runtime : StartPending(q)' => StartPending(q)
          /\ \A q \in Runtime : StopPending(q)' => StopPending(q)
      BY <2>1, <3>1 DEF NoOp, StartPoints, StopPoints
    <3>3. QED
      BY <2>1, <2>2, <3>2
  <2>3. CASE owner.id = None /\ AnswerStop(r, "ok") /\ UNCHANGED vars
    <3>1. live = {}
      BY <2>1, <2>3, RuntimeAssumption DEF BaseInv, TypeOK, OpInv, AdapterOwned, Exclusive, At
    <3>2. QED
      BY <2>1, <2>3, <3>1 DEF AnswerStop, vars
  <2>4. CASE AnswerStop(r, "failed") /\ UNCHANGED vars
    BY <2>1, <2>4 DEF AnswerStop, vars
  <2>5. QED
    BY <1>2, <2>2, <2>3, <2>4 DEF ServeStop
<1>3. CASE ServeSubscribe(r)
  BY <1>3 DEF ServeSubscribe, vars
<1>4. CASE ServeHeartbeat(r)
  <2>1. /\ beat' \in [Runtime -> {"off", "idle", "sent", "failed"}]
        /\ requests' = requests \ {<<"beat", r>>}
        /\ UNCHANGED <<live, phase, op, issued, engine, call, drawn, held, stream, reported, stopped>>
    BY <1>4 DEF ServeHeartbeat, BeatAnswer, Heartbeat, vars, clients
  <2>2. QED
    BY <2>1
<1>5. QED
  BY <1>1, <1>2, <1>3, <1>4 DEF Serve

(* So does every step of the call that holds opMu, and its answer.         *)
LEMMA ProviderOpInv ==
  ASSUME BaseInv, CallInv, TypeOK', ProviderOp
  PROVE  CallInv'
<1>1. /\ op.id \in Runtime /\ op.id \in issued
      /\ UNCHANGED <<phase, issued, engine, drawn, held, beat, stream, requests, reported, stopped>>
      /\ op' = NoOp \/ (op'.id = op.id /\ Starting' = Starting /\ Stopping' = Stopping)
      /\ live' \subseteq live \cup IF Starting THEN {op.id} ELSE {}
      /\ At("deleted") => live' = {}
  BY OpStepFields DEF ProviderOp, BaseInv
<1>2. /\ \A q \in Runtime : StartPending(q)' => StartPending(q)
      /\ \A q \in Runtime : StopPending(q)' => StopPending(q)
      /\ op' = NoOp => ~Starting' /\ ~Stopping'
  BY <1>1 DEF Starting, Stopping, NoOp, StartPoints, StopPoints, StartPending, StopPending
<1>3. /\ MachineTypeOK /\ OwnerInv /\ PendingInv /\ AnswerInv
      /\ call \in {NoCall} \cup CallRecord
  BY DEF CallInv, MachineTypeOK, CallRecord
<1>4. /\ call' \in {NoCall} \cup CallRecord /\ call'.at = call.at /\ call'.id = call.id
      /\ call = NoCall <=> call' = NoCall
  BY <1>3 DEF ProviderOp, AnswerStart, AnswerStop, Answer, Waits, CallRecord, NoCall, Rpcs
<1>5. call'.answer = "ok" =>
        \/ call.answer = "ok"
        \/ call.at = "start" /\ op.id = call.id /\ op' = NoOp
        \/ call.at \in {"stop", "undo"} /\ live' = {}
  BY <1>1, <1>3 DEF ProviderOp, AnswerStart, AnswerStop, Answer, Waits, Replies, CallRecord, NoCall
<1>6. MachineTypeOK'
  BY <1>1, <1>3, <1>4 DEF MachineTypeOK, CallRecord
<1>7. OwnerInv'
  BY <1>1, <1>3, <1>4 DEF OwnerInv
<1>8. PendingInv'
  <2> SUFFICES ASSUME NEW q \in Runtime
               PROVE  /\ <<"start", q>> \in requests' => q \notin issued'
                      /\ StartPending(q)' =>
                           /\ q \in drawn' /\ q # held' /\ q \notin stopped'
                           /\ call'.id = q => call'.at = "start" /\ call'.answer # "ok"
                      /\ StopPending(q)' =>
                           /\ q \in drawn'
                           /\ call'.id = q => call'.at \notin {"start", "subscribe"}
                           /\ held' = q => call'.at = "undo"
    BY DEF PendingInv
  <2>1. <<"start", q>> \in requests' => q \notin issued'
    BY <1>1, <1>3 DEF PendingInv
  <2>2. StartPending(q)' /\ call'.id = q => call'.answer # "ok"
    BY <1>1, <1>2, <1>3, <1>4, <1>5 DEF PendingInv, StartPending
  <2>3. QED
    BY <1>1, <1>2, <1>3, <1>4, <2>1, <2>2 DEF PendingInv
<1>9. AnswerInv'
  <2>1. \A q \in live' : q \in live \/ (q = op.id /\ StartPending(q))
    BY <1>1 DEF StartPending
  <2>2. \A q \in stopped' : q \notin live'
    BY <1>1, <1>3, <2>1 DEF AnswerInv, StoppedStaysStopped, PendingInv
  <2>3. call'.at \in {"stop", "undo"} /\ call'.answer = "ok" => call'.id \notin live'
    BY <1>1, <1>3, <1>4, <1>5, <2>1 DEF AnswerInv, PendingInv
  <2>4. QED
    BY <2>2, <2>3 DEF AnswerInv, StoppedStaysStopped
<1>10. QED
  BY <1>6, <1>7, <1>8, <1>9 DEF CallInv

(* And what the provider does of its own accord.                           *)
LEMMA AccordInv ==
  ASSUME BaseInv, CallInv, TypeOK', OwnAccord, UNCHANGED clientVars \/ Cut
  PROVE  CallInv'
<1>1. /\ MachineTypeOK /\ OwnerInv /\ PendingInv /\ AnswerInv
      /\ call \in {NoCall} \cup CallRecord
  BY DEF CallInv, MachineTypeOK, CallRecord
<1>2. /\ call' \in {NoCall} \cup CallRecord /\ call'.at = call.at /\ call'.id = call.id
      /\ call'.answer = "ok" => call.answer = "ok"
      /\ call' = NoCall <=> call = NoCall
  BY <1>1 DEF Cut, clientVars, CallRecord, NoCall, Rpcs
<1>3. /\ beat' \in [Runtime -> {"off", "idle", "sent", "failed"}]
      /\ stream' \in {"off", "open", "cut"}
      /\ requests' \subseteq requests
      /\ UNCHANGED <<engine, drawn, held, reported, stopped>>
  BY <1>1 DEF Cut, clientVars, MachineTypeOK
<1>4. /\ \A q \in Runtime : StartPending(q)' => StartPending(q)
      /\ \A q \in Runtime : StopPending(q)' => StopPending(q)
      /\ live' \subseteq live /\ issued' = issued
  BY <1>3 DEF StartPending, StopPending, OwnAccord
<1>5. MachineTypeOK'
  BY <1>1, <1>2, <1>3, <1>4 DEF MachineTypeOK, CallRecord
<1>6. OwnerInv'
  BY <1>1, <1>2, <1>3 DEF OwnerInv
<1>7. PendingInv'
  BY <1>1, <1>2, <1>3, <1>4 DEF PendingInv
<1>8. AnswerInv'
  BY <1>1, <1>2, <1>3, <1>4 DEF AnswerInv, StoppedStaysStopped
<1>9. QED
  BY <1>5, <1>6, <1>7, <1>8 DEF CallInv

(* Every step keeps what both sides agree on.                              *)
LEMMA CallInvStep ==
  ASSUME BaseInv, BaseInv', CallInv, [MachineNext]_mvars
  PROVE  CallInv'
<1>1. TypeOK'
  BY DEF BaseInv
<1>2. CASE CallStep
  BY <1>1, <1>2, CallStepInv
<1>3. CASE StopBegin \/ StopAgain \/ StreamBreaks \/ DaemonDies
           \/ \E r \in Runtime : StartBegin(r) \/ OwnerStep(r)
  BY <1>1, <1>3, OwnerStepInv
<1>4. ASSUME NEW r \in Runtime, Serve(r) PROVE CallInv'
  BY <1>1, <1>4, ServeStepInv
<1>5. CASE ProviderOp
  BY <1>1, <1>5, ProviderOpInv
<1>6. CASE MonitorRuns
  BY <1>1, <1>6, MonitorAccord, AccordInv DEF MonitorRuns, BaseInv
<1>7. CASE BeatsFallBehind \/ CloseStops \/ Restarts \/ CloseBegins \/ Exits \/ Crashes
  <2>1. OwnAccord
    BY <1>7, ProcessAccord DEF BeatsFallBehind, CloseStops, Restarts, CloseBegins, Exits, Crashes,
                               BaseInv, Process
  <2>2. QED
    BY <1>1, <1>7, <2>1, AccordInv DEF BeatsFallBehind, CloseStops, Restarts, CloseBegins, Exits, Crashes
<1>8. CASE UNCHANGED mvars
  BY <1>8 DEF mvars, vars, clientVars, CallInv, MachineTypeOK, TypeOK, OwnerInv, PendingInv, AnswerInv,
              StoppedStaysStopped, StartPending, StopPending, Starting, Stopping
<1>9. QED
  BY <1>2, <1>3, <1>4, <1>5, <1>6, <1>7, <1>8 DEF MachineNext

LEMMA CallInvHolds == MachineSpec => [](BaseInv /\ CallInv)
<1>1. MachineInit => CallInv
  BY DEF MachineInit, Init, CallInv, MachineTypeOK, TypeOK, Phases, NoOp, NoOwner, NoMonitor,
         MonitorPoints, OwnerInv, PendingInv, AnswerInv, StoppedStaysStopped, StartPending,
         StopPending, Starting, Stopping, StartPoints, StopPoints, NoCall, Rpcs
<1>2. BaseInv /\ BaseInv' /\ CallInv /\ [MachineNext]_mvars => CallInv'
  BY CallInvStep
<1>3. Repairs = FALSE
  BY CallAssumption, RepairsAssumption
<1>4. Spec => []BaseInv
  BY <1>3, ExclusiveHolds, PTL DEF BaseInv
<1>5. QED
  BY <1>1, <1>2, <1>4, CallsImplementController, PTL DEF MachineSpec

-----------------------------------------------------------------------------
(* The results                                                             *)

(* Both sides of the calls keep their types, and an error is reported of   *)
(* the runtime held or of none.                                            *)
THEOREM MachineTypeCorrect == MachineSpec => []MachineTypeOK
<1>1. CallInv => MachineTypeOK
  BY DEF CallInv
<1>2. QED
  BY <1>1, CallInvHolds, PTL

(* A stop that the provider has confirmed to qkboxd is final: no request   *)
(* that is still under way, however late, brings the runtime up again.     *)
THEOREM StoppedIsFinal == MachineSpec => []StoppedStaysStopped
<1>1. CallInv => StoppedStaysStopped
  BY DEF CallInv, AnswerInv
<1>2. QED
  BY <1>1, CallInvHolds, PTL

(* A late stop or undo of another runtime never ends the one the engine    *)
(* holds; only the heartbeat monitor or the provider's end does.           *)
THEOREM HeldIsSpared == MachineSpec => HeldIsLeftAlone
<1> DEFINE Spared == \A r \in live \ live' :
             (engine = "started" /\ held = r) => op.by # None \/ phase # "up" \/ phase' = "down"
<1>1. ASSUME BaseInv, BaseInv', CallInv, [MachineNext]_mvars PROVE Spared
  <2>1. CASE live' = live \/ phase' = "down"
    BY <2>1
  <2>2. CASE ProviderOp
    <3>1. \A r \in live \ live' : r = op.id /\ r \in Runtime /\ At("stopping")
      BY <1>1, <2>2, OpStepFields DEF ProviderOp, BaseInv
    <3>2. ASSUME NEW r \in live \ live', op.by = None, phase = "up", held = r PROVE engine = "idle"
      <4>1. StopPending(r)
        BY <3>1, <3>2 DEF StopPending, Stopping, At, StopPoints
      <4>2. call.at = "undo"
        BY <1>1, <3>1, <3>2, <4>1 DEF CallInv, PendingInv
      <4>3. QED
        BY <1>1, <4>2 DEF CallInv, OwnerInv
    <3>3. QED
      BY <3>2
  <2>3. ASSUME NEW r \in Runtime, Serve(r) PROVE Spared
    BY <1>1, <2>1, <2>3, ServeStepInv DEF BaseInv
  <2>4. CASE MonitorRuns
    BY <1>1, <2>1, <2>4, MonitorAccord DEF MonitorRuns, BaseInv, OwnAccord
  <2>5. CASE BeatsFallBehind \/ CloseStops \/ Restarts \/ CloseBegins \/ Exits \/ Crashes
    <3>1. OwnAccord
      BY <1>1, <2>5, ProcessAccord DEF BeatsFallBehind, CloseStops, Restarts, CloseBegins, Exits,
                                       Crashes, BaseInv, Process
    <3>2. QED
      BY <2>1, <3>1 DEF OwnAccord
  <2>6. CASE UNCHANGED vars
    BY <2>1, <2>6 DEF vars
  <2>7. CASE CallStep
    BY <2>6, <2>7 DEF CallStep, GiveUp, StartFailed, StartAcknowledged, Subscribed, SubscribeFailed,
                      Undone, StopAnswered
  <2>8. CASE StopBegin \/ StopAgain \/ StreamBreaks \/ DaemonDies
    BY <2>6, <2>8 DEF StopBegin, StopAgain, StreamBreaks, DaemonDies
  <2>9. ASSUME NEW r \in Runtime, StartBegin(r) \/ OwnerStep(r) PROVE Spared
    BY <2>6, <2>9 DEF StartBegin, OwnerStep, HeartbeatTick, HeartbeatFails, HeartbeatExit
  <2>10. QED
    BY <1>1, <2>2, <2>3, <2>4, <2>5, <2>6, <2>7, <2>8, <2>9 DEF MachineNext, mvars
<1>2. [](BaseInv /\ CallInv) /\ [][MachineNext]_mvars => HeldIsLeftAlone
  BY <1>1, PTL DEF HeldIsLeftAlone
<1>3. QED
  BY <1>2, CallInvHolds, PTL DEF MachineSpec
=============================================================================

---------------------------- MODULE MachineNetwork ----------------------------
(***************************************************************************)
(* The machine network end to end: qkboxd's runtime owner                  *)
(* (core/qkboxd/provider_runtime_owner.go), the calls it makes over the    *)
(* provider's socket (internal/provideripc), and the runtime controller    *)
(* that serves them (ProviderRuntime).                                     *)
(*                                                                         *)
(* A call has a deadline, the request it sent has none: once the server    *)
(* has read a request it executes it, whether or not anybody still waits   *)
(* for the answer.  So a start may happen after qkboxd has reported that   *)
(* it failed, and a stop after qkboxd has gone on to the next runtime.     *)
(* Requests are executed in any order, as their connections' goroutines    *)
(* get the controller's mutexes; the provider's exit drops the others.     *)
(*                                                                         *)
(* Calls that read (traffic, groups) or close connections leave all this   *)
(* alone.  Every start makes a new owner with a random id, which names the *)
(* runtime here; the engine admits one call at a time.                     *)
(*                                                                         *)
(* Definitions marked "Variant" are a plausible mistake in the definition  *)
(* below them; no specification here uses them, they show that a property  *)
(* would notice the mistake.                                               *)
(***************************************************************************)
EXTENDS ProviderRuntime

\* Failing writes of the record and repairs are left to ProviderRuntime.
ASSUME CallAssumption == "save" \notin Faults /\ ~Repairs

VARIABLES
  engine,    \* is a runtime running, or was its stop refused?
  call,      \* the start or stop in progress: the RPC it is at, and its answer
  drawn,     \* the runtime ids drawn so far
  held,      \* o.runtimeID, while o.started and its context lives
  beat,      \* the heartbeat loop of each owner
  stream,    \* the event stream of the runtime held
  requests,  \* what has reached the server and is not executed yet
  reported,  \* the runtime held, once its owner has published an error
  stopped    \* the runtimes whose stop the provider has confirmed

clientVars == <<engine, call, drawn, held, beat, stream, requests, reported, stopped>>
mvars == <<vars, clientVars>>

Rpcs == {"start", "subscribe", "undo", "stop"}
NoCall == [at |-> "none", id |-> None, answer |-> "none"]
RequestKinds == {"start", "subscribe", "stop", "beat"}

MachineTypeOK ==
  /\ TypeOK
  /\ engine \in {"idle", "started", "fatal"}
  /\ call \in {NoCall} \cup [at: Rpcs, id: Runtime, answer: {"waiting", "ok", "failed"}]
  /\ drawn \subseteq Runtime /\ issued \subseteq drawn
  /\ held \in drawn \cup {None}
  /\ beat \in [Runtime -> {"off", "idle", "sent", "failed"}]
  /\ stream \in {"off", "open", "cut"}
  /\ requests \subseteq RequestKinds \X drawn
  /\ reported \in {None, held}
  /\ stopped \subseteq drawn

MachineInit ==
  /\ Init
  /\ engine = "idle"
  /\ call = NoCall
  /\ drawn = {}
  /\ held = None
  /\ beat = [r \in Runtime |-> "off"]
  /\ stream = "off"
  /\ requests = {}
  /\ reported = None
  /\ stopped = {}

-----------------------------------------------------------------------------
(* A call: dial, authenticate, write the request, await the answer.  No    *)
(* request is taken of a connection that has not shown the token.          *)

\* The request may fail to leave, and it does when nobody listens.
Send(kind, rpc, r) ==
  \/ /\ phase = "up"
     /\ requests' = requests \cup {<<kind, r>>}
     /\ call' = [at |-> rpc, id |-> r, answer |-> "waiting"]
  \/ /\ UNCHANGED requests
     /\ call' = [at |-> rpc, id |-> r, answer |-> "failed"]

\* The first answer says whether events will follow on the connection.
OpenSubscription(r) == Send("subscribe", "subscribe", r)

\* The deadline passes, or the connection breaks; the request stays.
\* (A subscription that nobody reads has no effect and is dropped here.)
GiveUp ==
  /\ call.answer = "waiting"
  /\ call' = [call EXCEPT !.answer = "failed"]
  /\ requests' = requests \ {<<"subscribe", call.id>>}
  /\ UNCHANGED <<vars, engine, drawn, held, beat, stream, reported, stopped>>

\* An answer finds its call by the connection, so a late one finds none.
Waits(rpcs, r) == call.at \in rpcs /\ call.id = r /\ call.answer = "waiting"

Answer(rpcs, r, a) ==
  call' = IF Waits(rpcs, r) THEN [call EXCEPT !.answer = a] ELSE call

AnswerStart(r, a) == Answer({"start"}, r, a)
AnswerStop(r, a) == Answer({"stop", "undo"}, r, a)

-----------------------------------------------------------------------------
(* The owner's Start, as the engine calls it                               *)

\* Ids are random and interchangeable: any order of drawing them will do.
NextId == CHOOSE r \in Runtime : r \notin drawn

StartBegin(r) ==
  /\ call = NoCall /\ engine = "idle"
  /\ r \notin drawn /\ r = NextId
  /\ drawn' = drawn \cup {r}
  /\ Send("start", "start", r)
  /\ UNCHANGED <<vars, engine, held, beat, stream, reported, stopped>>

\* Variant: a start without an answer is undone like one that succeeded.
StartFailedUndone ==
  /\ call.at = "start" /\ call.answer = "failed"
  /\ Send("stop", "undo", call.id)
  /\ UNCHANGED <<vars, engine, drawn, held, beat, stream, reported, stopped>>

StartFailed ==
  /\ call.at = "start" /\ call.answer = "failed"
  /\ call' = NoCall
  /\ UNCHANGED <<vars, engine, drawn, held, beat, stream, requests, reported, stopped>>

StartAcknowledged ==
  /\ call.at = "start" /\ call.answer = "ok"
  /\ held' = call.id
  /\ OpenSubscription(call.id)
  /\ UNCHANGED <<vars, engine, drawn, beat, stream, reported, stopped>>

\* The bridge runs: startHeartbeat, and the engine is started.
Subscribed ==
  /\ call.at = "subscribe" /\ call.answer = "ok"
  /\ beat' = [beat EXCEPT ![call.id] = "idle"]
  /\ engine' = "started"
  /\ call' = NoCall
  /\ UNCHANGED <<vars, drawn, held, stream, requests, reported, stopped>>

\* No event stream: the runtime that runs is stopped again.
SubscribeFailed ==
  /\ call.at = "subscribe" /\ call.answer = "failed"
  /\ stream' = "off"
  /\ Send("stop", "undo", call.id)
  /\ UNCHANGED <<vars, engine, drawn, held, beat, reported, stopped>>

StopConfirmed == IF call.answer = "ok" THEN stopped \cup {call.id} ELSE stopped

\* The owner is dropped, whatever the answer.
Undone ==
  /\ call.at = "undo" /\ call.answer # "waiting"
  /\ held' = None /\ reported' = None
  /\ stopped' = StopConfirmed
  /\ call' = NoCall
  /\ UNCHANGED <<vars, engine, drawn, beat, stream, requests>>

-----------------------------------------------------------------------------
(* The owner's Stop                                                        *)

\* The owner forgets that it was started and cancels its goroutines first.
StopBegin ==
  /\ call = NoCall /\ engine = "started"
  /\ held' = None /\ reported' = None
  /\ stream' = "off"
  /\ Send("stop", "stop", held)
  /\ UNCHANGED <<vars, engine, drawn, beat, stopped>>

StopAnswered ==
  /\ call.at = "stop" /\ call.answer # "waiting"
  /\ engine' = IF call.answer = "ok" THEN "idle" ELSE "fatal"
  /\ stopped' = StopConfirmed
  /\ call' = NoCall
  /\ UNCHANGED <<vars, drawn, held, beat, stream, requests, reported>>

\* Asked again, the owner has nothing to stop, and the engine is idle.
StopAgain ==
  /\ call = NoCall /\ engine = "fatal"
  /\ engine' = "idle"
  /\ UNCHANGED <<vars, call, drawn, held, beat, stream, requests, reported, stopped>>

-----------------------------------------------------------------------------
(* The goroutines of an owner                                              *)

\* Variant: Stop forgets to cancel the owner's context.
CancelledNever(r) == FALSE

Cancelled(r) == held # r

HeartbeatTick(r) ==
  /\ beat[r] = "idle" /\ ~Cancelled(r)
  /\ phase = "up"
  /\ requests' = requests \cup {<<"beat", r>>}
  /\ beat' = [beat EXCEPT ![r] = "sent"]
  /\ UNCHANGED <<vars, engine, call, drawn, held, stream, reported, stopped>>

\* Variant: the loop returns without a word.
EndSilently(r) == beat' = [beat EXCEPT ![r] = "off"] /\ UNCHANGED reported

End(r) ==
  /\ beat' = [beat EXCEPT ![r] = "off"]
  /\ reported' = IF held = r THEN r ELSE reported

\* The call cannot be made (nor under a cancelled context, when the ticker
\* was faster), or is not answered in time, or is refused: the first error is
\* published and ends the loop.
HeartbeatFails(r) ==
  /\ beat[r] # "off"
  /\ End(r)
  /\ UNCHANGED <<vars, engine, call, drawn, held, stream, requests, stopped>>

HeartbeatExit(r) ==
  /\ beat[r] = "idle" /\ Cancelled(r)
  /\ beat' = [beat EXCEPT ![r] = "off"]
  /\ UNCHANGED <<vars, engine, call, drawn, held, stream, requests, reported, stopped>>

StreamBreaks ==
  /\ stream = "cut" /\ engine = "started"
  /\ stream' = "off"
  /\ reported' = held
  /\ UNCHANGED <<vars, engine, call, drawn, held, beat, requests, stopped>>

\* qkboxd is killed; the next one starts with a session id of its own.
DaemonDies ==
  /\ call # NoCall \/ engine # "idle"
  /\ engine' = "idle" /\ call' = NoCall /\ held' = None /\ reported' = None
  /\ beat' = [r \in Runtime |-> "off"] /\ stream' = "off"
  /\ UNCHANGED <<vars, drawn, requests, stopped>>

-----------------------------------------------------------------------------
(* The server: a goroutine per connection calls the controller             *)

Take(kind, r) ==
  /\ phase = "up"
  /\ <<kind, r>> \in requests
  /\ requests' = requests \ {<<kind, r>>}

\* A start that was admitted answers when it is through, see ProviderOp.
ServeStart(r) ==
  /\ Take("start", r)
  /\ \/ RequestStart(r) /\ UNCHANGED call
     \/ At("free") /\ ~StartAdmitted /\ AnswerStart(r, "failed") /\ UNCHANGED vars
  /\ UNCHANGED <<engine, drawn, held, beat, stream, reported, stopped>>

ServeStop(r) ==
  /\ Take("stop", r)
  /\ \/ RequestStop(r) /\ UNCHANGED call
     \/ At("free") /\ owner.id = None /\ AnswerStop(r, "ok") /\ UNCHANGED vars
     \/ At("free") /\ owner.id # None /\ ~StopAdmitted(r) /\ AnswerStop(r, "failed") /\ UNCHANGED vars
  /\ UNCHANGED <<engine, drawn, held, beat, stream, reported, stopped>>

ServeSubscribe(r) ==
  /\ Take("subscribe", r)
  /\ Answer({"subscribe"}, r, IF RunningOwner(r) THEN "ok" ELSE "failed")
  /\ stream' = IF Waits({"subscribe"}, r) /\ RunningOwner(r) THEN "open" ELSE stream
  /\ UNCHANGED <<vars, engine, drawn, held, beat, reported, stopped>>

BeatAnswer(r, then) ==
  beat' = IF beat[r] = "sent" THEN [beat EXCEPT ![r] = then] ELSE beat

ServeHeartbeat(r) ==
  /\ Take("beat", r)
  /\ \/ Heartbeat(r) /\ BeatAnswer(r, "idle")
     \/ ~RunningOwner(r) /\ BeatAnswer(r, "failed") /\ UNCHANGED vars
  /\ UNCHANGED <<engine, call, drawn, held, stream, reported, stopped>>

\* The steps of the call that holds opMu; the last one of a request answers.
Replies == op' = NoOp /\ op.by = None

ProviderOp ==
  /\ OpStep
  /\ \/ ~Replies /\ UNCHANGED call
     \/ Replies /\ At("installed") /\ AnswerStart(op.id, "ok")
     \/ Replies /\ At("startCleared") /\ AnswerStart(op.id, "failed")
     \/ Replies /\ At("deleted") /\ AnswerStop(op.id, "ok")
     \/ Replies /\ op.at \in {"stopFailed", "deleteFailed"} /\ AnswerStop(op.id, "failed")
  /\ UNCHANGED <<engine, drawn, held, beat, stream, requests, reported, stopped>>

MonitorRuns == (\E m \in Runtime : MonitorStep(m)) /\ UNCHANGED clientVars
BeatsFallBehind == Expire /\ UNCHANGED clientVars
CloseStops == CloseStop /\ UNCHANGED clientVars
Restarts == Restart /\ UNCHANGED clientVars

\* Serve has closed every connection, or the process is gone.
Cut ==
  /\ requests' = {}
  /\ call' = IF call.answer = "waiting" THEN [call EXCEPT !.answer = "failed"] ELSE call
  /\ beat' = [r \in Runtime |-> IF beat[r] = "sent" THEN "failed" ELSE beat[r]]
  /\ stream' = IF stream = "open" THEN "cut" ELSE stream
  /\ UNCHANGED <<engine, drawn, held, reported, stopped>>

CloseBegins == CloseBegin /\ Cut
Exits == Exit /\ Cut
Crashes == Crash /\ Cut

\* No heartbeat of r is on its way, and none will be sent: what the
\* controller's own model calls a client that has gone.
Silent(r) ==
  /\ beat[r] = "off" \/ (beat[r] = "idle" /\ Cancelled(r))
  /\ <<"beat", r>> \notin requests
  /\ ~(call.id = r /\ call.at \in {"start", "subscribe"})

-----------------------------------------------------------------------------
CallStep ==
  \/ GiveUp \/ StartFailed \/ StartAcknowledged \/ Subscribed \/ SubscribeFailed
  \/ Undone \/ StopAnswered

OwnerStep(r) ==
  \/ HeartbeatTick(r) \/ HeartbeatFails(r) \/ HeartbeatExit(r)

Serve(r) == ServeStart(r) \/ ServeStop(r) \/ ServeSubscribe(r) \/ ServeHeartbeat(r)

MachineNext ==
  \/ CallStep \/ StopBegin \/ StopAgain \/ StreamBreaks \/ DaemonDies
  \/ \E r \in Runtime : StartBegin(r) \/ OwnerStep(r) \/ Serve(r)
  \/ ProviderOp \/ MonitorRuns \/ BeatsFallBehind
  \/ CloseBegins \/ CloseStops \/ Exits \/ Crashes \/ Restarts

MachineSpec == MachineInit /\ [][MachineNext]_mvars

\* The schedulers of both sides run what can run, deadlines pass, a request
\* that was read is executed, and a heartbeat that stays away falls behind.
\* One condition for each side is weaker than one for each goroutine, and
\* enough: only the loop of the runtime held goes on for ever, and it waits
\* for the call in progress.  Nothing is assumed of users, of crashes or of a
\* restart.
MachineFairness ==
  /\ WF_mvars(CallStep \/ \E r \in Runtime : OwnerStep(r))
  /\ WF_mvars(\E r \in Runtime : Serve(r))
  /\ WF_mvars(ProviderOp \/ MonitorRuns \/ CloseStops \/ Exits)
  /\ WF_mvars(owner.id # None /\ Silent(owner.id) /\ BeatsFallBehind)

MachineFairSpec == MachineSpec /\ MachineFairness

-----------------------------------------------------------------------------
(* Properties                                                              *)

(* Once the provider has confirmed the stop of a runtime, no request that  *)
(* is still under way starts it: a start is only ever followed by a stop   *)
(* after its own answer (providerRuntimeOwner.Start, Stop).                *)
StoppedStaysStopped == stopped \cap live = {}

(* While the engine holds a runtime, no other runtime's late stop or late  *)
(* undo ends it: only the heartbeat monitor or the provider's own end does *)
(* (Controller.RuntimeStop compares the ids).                              *)
HeldIsLeftAlone ==
  [][\A r \in live \ live' :
       (engine = "started" /\ held = r) => op.by # None \/ phase # "up" \/ phase' = "down"]_mvars

(* When the runtime the engine believes in is gone, by a missed heartbeat  *)
(* or with the provider, the owner says so or the engine stops holding it. *)
LossIsReported ==
  (engine = "started" /\ held \notin live /\ reported # held)
    ~> (engine # "started" \/ held \in live \/ reported = held)

Disowned(r) == call.id # r /\ (held # r \/ (engine = "started" /\ beat[r] = "off"))

Orphaned == ~Stale /\ \E r \in live : Disowned(r)

(* A runtime that runs and that no owner keeps alive - its start was given *)
(* up before it happened, its stop failed or was never executed, qkboxd    *)
(* was killed, its heartbeat loop ended - is stopped, or marked stale for  *)
(* a repair.                                                               *)
OrphanIsReclaimed == Orphaned ~> ~Orphaned
=============================================================================

------------------------------- MODULE EventHub -------------------------------
(***************************************************************************)
(* The event hub (internal/eventhub), the engine that publishes its status *)
(* to it (core/qkboxd/engine.go), and what carries the events to a window: *)
(* the hub's channel for the subscriber, the server's goroutine that       *)
(* writes them to a connection (ipc/server.go) and the client that reads   *)
(* them from it (ipc/client.go).                                           *)
(*                                                                         *)
(* An event is a number: a log entry its sequence number, a status the     *)
(* number of the change that made it, an error of the event bridge 0.  The *)
(* engine publishes a status after it has let go of its mutex.             *)
(***************************************************************************)
EXTENDS Naturals, Sequences

CONSTANTS
  LogSub,     \* subscribers of the logs
  StatusSub,  \* subscribers of the status
  StreamSub,  \* subscribers of the traffic or of the connections
  LogRingLimit,
  StreamLimit, \* room in the channel of a stream
  Slack,      \* room in a channel beyond a whole ring
  Wire,       \* events on the way in a connection and in the client
  Budgets     \* bounds, one of which a behaviour keeps to: log entries,
              \* errors of the event bridge, changes of the status, and
              \* whether streams are subscribed to

ASSUME HubAssumption ==
  /\ LogRingLimit \in Nat \ {0} /\ Slack \in Nat \ {0} /\ Wire \in Nat \ {0}
  /\ Budgets \subseteq [logs : Nat, errors : Nat, changes : Nat, streams : BOOLEAN]
  /\ StreamLimit \in Nat \ {0}
  /\ LogSub \cap StatusSub = {} /\ (LogSub \cup StatusSub) \cap StreamSub = {}

Sub == LogSub \cup StatusSub \cup StreamSub

\* Who calls the engine: Start and Stop one at a time (opMu), Shutdown beside.
Caller == {"call", "shutdown"}

VARIABLES
  budget,      \* the bounds of this behaviour
  engine,      \* the state, and whether an owner is held
  changes,     \* changes of the status so far
  caller,      \* for each caller, its step in Start or Stop
  unpublished, \* for each caller, the statuses it has still to publish
  lastStatus,  \* the hub's last status, 0 before the first
  nextLogSeq,
  errors,      \* errors published
  logs,        \* the ring
  sub,         \* how far each subscriber is
  registered,  \* the subscribers in the hub's maps
  ch,          \* each subscriber's channel in the hub
  wire,        \* what the server has written and the window not yet read
  last,        \* the last event, errors aside, that the window has read
  loop,        \* for each stream, where its goroutine is
  lost         \* history: the subscribers of whom an event found the channel full

engineVars == <<budget, engine, changes, caller, unpublished>>
subVars == <<sub, registered, ch, wire, last, loop, lost>>
vars == <<engineVars, lastStatus, nextLogSeq, errors, logs, subVars>>

\* The controller publishes its first status when it is made.
Init ==
  /\ budget \in Budgets
  /\ engine = [state |-> "idle", owner |-> FALSE]
  /\ changes = 1 /\ lastStatus = 1
  /\ caller = [a \in Caller |-> "none"] /\ unpublished = [a \in Caller |-> {}]
  /\ nextLogSeq = 0 /\ errors = 0 /\ logs = << >>
  /\ sub = [s \in Sub |-> "new"] /\ registered = {}
  /\ ch = [s \in Sub |-> << >>] /\ wire = [s \in Sub |-> << >>]
  /\ last = [s \in Sub |-> 0] /\ loop = [s \in StreamSub |-> "off"]
  /\ lost = {}

-----------------------------------------------------------------------------
(* The hub: each of these is one section under its mutex.                  *)

ChannelLimit == LogRingLimit + Slack

Full(s) == Len(ch[s]) >= ChannelLimit

\* send: the newest event is dropped when the channel is full.
send(q, e) == IF Len(q) >= ChannelLimit THEN q ELSE Append(q, e)

broadcast(subscribers, e) ==
  LET to == subscribers \cap registered IN
  /\ ch' = [s \in Sub |-> IF s \in to THEN send(ch[s], e) ELSE ch[s]]
  /\ lost' = lost \cup {s \in to : Full(s)}
  /\ UNCHANGED <<sub, registered, wire, last, loop>>

KeepStatus(status) == lastStatus' = status

PublishStatus(status) ==
  /\ KeepStatus(status)
  /\ broadcast(StatusSub, status)
  /\ UNCHANGED <<nextLogSeq, errors, logs>>

Ring(entries, e) ==
  IF Len(entries) >= LogRingLimit THEN Append(Tail(entries), e) ELSE Append(entries, e)

PublishRuntimeLog ==
  /\ nextLogSeq < budget.logs
  /\ nextLogSeq' = nextLogSeq + 1
  /\ logs' = Ring(logs, nextLogSeq')
  /\ broadcast(LogSub, nextLogSeq')
  /\ UNCHANGED <<engineVars, lastStatus, errors>>

PublishBridgeError ==
  /\ errors < budget.errors
  /\ errors' = errors + 1
  /\ broadcast(LogSub, 0)
  /\ UNCHANGED <<engineVars, lastStatus, nextLogSeq, logs>>

Subscribed(s, replay) ==
  /\ sub[s] = "new"
  /\ sub' = [sub EXCEPT ![s] = "open"]
  /\ registered' = registered \cup {s}
  /\ ch' = [ch EXCEPT ![s] = replay]
  /\ UNCHANGED <<engineVars, lastStatus, nextLogSeq, errors, logs, wire, last, loop, lost>>

SubscribeStatus(s) == s \in StatusSub /\ Subscribed(s, <<lastStatus>>)

\* Variant: replays all but the newest, which it takes to be on its way.
ReplayShort == SubSeq(logs, 1, Len(logs) - 1)

Replay == logs

SubscribeLogs(s) == s \in LogSub /\ Subscribed(s, Replay)

Removed(s) == registered \ {s}

\* The goroutine that waits for the subscriber's context.
removeSubscriberOnDone(s) ==
  /\ sub[s] = "done" /\ s \in registered
  /\ sub' = [sub EXCEPT ![s] = "left"]
  /\ registered' = Removed(s)
  /\ UNCHANGED <<engineVars, lastStatus, nextLogSeq, errors, logs, ch, wire, last, loop, lost>>

-----------------------------------------------------------------------------
(* Streams of snapshots: a goroutine that loads one a second and waits for *)
(* room in the channel, or for the end of the context.                     *)

unchangedHub == UNCHANGED <<engineVars, lastStatus, nextLogSeq, errors, logs, registered, last, lost>>

subscribeSnapshots(s) ==
  /\ budget.streams /\ sub[s] = "new"
  /\ sub' = [sub EXCEPT ![s] = "open"]
  /\ loop' = [loop EXCEPT ![s] = "send"]
  /\ UNCHANGED <<ch, wire>> /\ unchangedHub

\* A snapshot has been loaded, or the error that there is none.
SendSnapshot(s) ==
  /\ loop[s] = "send" /\ Len(ch[s]) < StreamLimit
  /\ ch' = [ch EXCEPT ![s] = Append(@, 0)]
  /\ loop' = [loop EXCEPT ![s] = "wait"]
  /\ UNCHANGED <<sub, wire>> /\ unchangedHub

Tick(s) ==
  /\ loop[s] = "wait"
  /\ loop' = [loop EXCEPT ![s] = "send"]
  /\ UNCHANGED <<sub, ch, wire>> /\ unchangedHub

\* Variant: watches the context between two snapshots only.
WatchingTick(s) == loop[s] = "wait"

Watching(s) == loop[s] \in {"send", "wait"}

EndStream(s) ==
  /\ sub[s] = "done" /\ Watching(s)
  /\ loop' = [loop EXCEPT ![s] = "ended"]
  /\ UNCHANGED <<sub, ch, wire>> /\ unchangedHub

-----------------------------------------------------------------------------
(* The connection.                                                         *)

Full2(s) == Len(wire[s]) >= Wire

\* A window that does not read leaves the server's goroutine in its write.
serveSubscription(s) ==
  /\ sub[s] = "open" /\ ch[s] # << >> /\ ~Full2(s)
  /\ wire' = [wire EXCEPT ![s] = Append(@, Head(ch[s]))]
  /\ ch' = [ch EXCEPT ![s] = Tail(@)]
  /\ UNCHANGED <<engineVars, lastStatus, nextLogSeq, errors, logs, sub, registered, last, loop, lost>>

ReadEvent(s) ==
  /\ sub[s] = "open" /\ wire[s] # << >>
  /\ wire' = [wire EXCEPT ![s] = Tail(@)]
  /\ last' = [last EXCEPT ![s] = IF Head(wire[s]) = 0 THEN @ ELSE Head(wire[s])]
  /\ UNCHANGED <<engineVars, lastStatus, nextLogSeq, errors, logs, sub, registered, ch, loop, lost>>

\* The window goes: the server's read of the connection ends the context.
Disconnect(s) ==
  /\ sub[s] = "open"
  /\ sub' = [sub EXCEPT ![s] = "done"]
  /\ wire' = [wire EXCEPT ![s] = << >>]
  /\ UNCHANGED <<engineVars, lastStatus, nextLogSeq, errors, logs, registered, ch, last, loop, lost>>

-----------------------------------------------------------------------------
(* The engine: a section under its mutex changes the status, and the       *)
(* caller publishes the copy it took before it goes on.                    *)

MayStart == engine.state = "idle" \/ (engine.state = "fatal" /\ ~engine.owner)
MayStop == engine.state \in {"started", "fatal"} /\ engine.owner

\* Variant: publishes in a goroutine of its own.
PublishedSoon(a) == TRUE

Published(a) == unpublished[a] = {}

\* A change of the status by caller a, which goes on to step next.
Change(a, state, owner, next) ==
  /\ Published(a) /\ changes <= budget.changes
  /\ engine' = [state |-> state, owner |-> owner]
  /\ changes' = changes + 1
  /\ caller' = [caller EXCEPT ![a] = next]
  /\ unpublished' = [unpublished EXCEPT ![a] = @ \cup {changes + 1}]
  /\ UNCHANGED <<budget, lastStatus, nextLogSeq, errors, logs, subVars>>

BeginStart == caller["call"] = "none" /\ MayStart /\ Change("call", "starting", FALSE, "start")

\* The profile's name enters the status, and the owner is made.
MakeOwner == caller["call"] = "start" /\ Change("call", "starting", FALSE, "owner")

FinishStart ==
  /\ caller["call"] = "owner"
  /\ \/ Change("call", "started", TRUE, "none")
     \/ Change("call", "idle", FALSE, "none")

BeginStop(a) ==
  /\ caller[a] = "none" /\ MayStop
  /\ Change(a, "stopping", TRUE, "stop")

\* Nothing comes after a shutdown.
FinishStop(a) ==
  /\ caller[a] = "stop"
  /\ LET next == IF a = "call" THEN "none" ELSE "end" IN
     \/ Change(a, "idle", FALSE, next)
     \/ Change(a, "fatal", TRUE, next)

publishStatus(a) ==
  /\ \E status \in unpublished[a] :
       /\ PublishStatus(status)
       /\ unpublished' = [unpublished EXCEPT ![a] = @ \ {status}]
  /\ UNCHANGED <<budget, engine, changes, caller>>

-----------------------------------------------------------------------------
EngineStep ==
  \/ BeginStart \/ MakeOwner \/ FinishStart
  \/ \E a \in Caller : BeginStop(a) \/ FinishStop(a) \/ publishStatus(a)

Next ==
  \/ EngineStep \/ PublishRuntimeLog \/ PublishBridgeError
  \/ \E s \in Sub :
       \/ SubscribeStatus(s) \/ SubscribeLogs(s) \/ removeSubscriberOnDone(s)
       \/ s \in StreamSub /\ (subscribeSnapshots(s) \/ SendSnapshot(s) \/ Tick(s) \/ EndStream(s))
       \/ serveSubscription(s) \/ ReadEvent(s) \/ Disconnect(s)

\* Goroutines that are there to run: the hub's, a stream's, and a caller that
\* publishes.
Fairness ==
  /\ \A s \in Sub : WF_vars(removeSubscriberOnDone(s))
  /\ \A s \in StreamSub : /\ WF_vars(SendSnapshot(s) \/ Tick(s))
                          /\ WF_vars(EndStream(s))
  /\ \A a \in Caller : WF_vars(publishStatus(a))

Spec == Init /\ [][Next]_vars /\ Fairness

-----------------------------------------------------------------------------
\* What is on its way to a subscriber.
Coming(s) == wire[s] \o ch[s]

\* The entries among it, which the errors are not.
Entries(q) == {q[i] : i \in DOMAIN q} \ {0}

Connected(s) == sub[s] = "open"

NoShutdown == caller["shutdown"] = "none"

Settled == NoShutdown /\ \A a \in Caller : unpublished[a] = {}

\* The entries in q are newer than the entry l and in the order they were
\* written, none twice.
InOrder(q, l) ==
  /\ \A i, j \in DOMAIN q : (i < j /\ q[i] # 0 /\ q[j] # 0) => q[i] < q[j]
  /\ \A e \in Entries(q) : l < e

\* None is missing from q between the entry l, or the first in q if l is 0,
\* and the newest entry n.
Complete(q, l, n) ==
  LET known == (Entries(q) \cup {l}) \ {0} IN
  /\ n # 0 => n \in known
  /\ \A e \in known : e < n => e + 1 \in known

\* A window reads the log in the order it was written and no entry twice,
\* though the replay and the broadcasts fill one channel; one that lost
\* nothing to a full channel reads every entry, from the first of its replay
\* to the newest (SubscribeLogs, PublishRuntimeLog).
LogsInOrder ==
  \A s \in LogSub : Connected(s) =>
    /\ InOrder(Coming(s), last[s])
    /\ s \notin lost => Complete(Coming(s), last[s], nextLogSeq)

\* The last status that a window reads if nothing more is published.
Destined(s) == IF Coming(s) = << >> THEN last[s] ELSE Coming(s)[Len(Coming(s))]

\* A window is on its way to the last status of the hub, whenever it
\* subscribed; and, if no shutdown came in between, that is the engine's as
\* soon as no caller has one left to publish.
StatusReaches ==
  \A s \in StatusSub : (Connected(s) /\ s \notin lost) =>
    Destined(s) = lastStatus /\ (Settled => lastStatus = changes)

\* A window that has gone leaves nothing behind, also when it had stopped
\* reading and its channel is full: the hub drops it from its maps, and the
\* goroutine of a stream ends.
DoneIsForgotten ==
  \A s \in Sub :
    sub[s] = "done" ~> s \notin registered /\ (s \in StreamSub => loop[s] = "ended")
=============================================================================

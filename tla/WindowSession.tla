---------------------------- MODULE WindowSession ----------------------------
(***************************************************************************)
(* The session by which the daemon knows that a window is there            *)
(* (core/qkboxd/window.go), the tray that shows the window or launches one *)
(* (cmd/qkbox/tray.go), and the bridges of the windows to the daemon       *)
(* (apps/desktop/bridge.go).                                               *)
(*                                                                         *)
(* A window loads its page and may load it again; each load starts a       *)
(* bridge of its own, which gives up the one before it, subscribes and     *)
(* then attaches over a connection of its own.  A request that is on its   *)
(* way is served even when its bridge has been given up or its window has  *)
(* gone.  A session ends when its connection does or when another replaces *)
(* it; a goroutine of its own cleans up after it, later.                   *)
(***************************************************************************)
EXTENDS Naturals

CONSTANTS
  Window,     \* processes the tray may launch
  MaxLoads,   \* bound: loads of each window's page
  ShowLimit,  \* show events a session's channel holds
  None

ASSUME WindowAssumption ==
  /\ None \notin Window /\ MaxLoads \in [Window -> Nat \ {0}] /\ ShowLimit \in Nat \ {0}

Bridge == UNION {{w} \X (1..MaxLoads[w]) : w \in Window}
Session == Bridge \cup {<<None, 0>>}
NoSession == <<None, 0>>

VARIABLES
  window,      \* each process
  loads,       \* loads of each window's page
  eventCancel, \* the bridge whose context a window would cancel, or 0
  bridge,      \* how far each bridge is
  cancelled,   \* bridges at work whose context is cancelled
  request,     \* attach requests the daemon has not served
  session,     \* the context of each bridge's session in the daemon
  windowSess,  \* the daemon's session
  shows,       \* show events in each session's channel
  click,       \* whether the click at work found no session
  pending,     \* windowLaunchPending
  clearer      \* the window whose launch is watched, or None

windowVars == <<window, loads, eventCancel, bridge, cancelled, request>>
daemonVars == <<session, windowSess, shows>>
trayVars == <<click, pending, clearer>>
sessionVars == <<windowVars, daemonVars, trayVars>>

SessionInit ==
  /\ window = [w \in Window |-> "none"] /\ loads = [w \in Window |-> 0]
  /\ eventCancel = [w \in Window |-> 0]
  /\ bridge = [b \in Bridge |-> "none"]
  /\ cancelled = {} /\ request = {}
  /\ session = [b \in Bridge |-> "none"] /\ windowSess = NoSession
  /\ shows = [b \in Bridge |-> 0]
  /\ click = FALSE /\ pending = FALSE /\ clearer = None

-----------------------------------------------------------------------------
(* Windows.                                                                *)

Previous(w) == {b \in Bridge : b = <<w, eventCancel[w]>> /\ bridge[b] # "ended"}

\* Hello has been answered: the bridge takes the place of the previous one.
StartRuntimeEventBridge(w) ==
  /\ window[w] = "running" /\ loads[w] < MaxLoads[w]
  /\ LET n == loads[w] + 1 IN
       /\ loads' = [loads EXCEPT ![w] = n]
       /\ eventCancel' = [eventCancel EXCEPT ![w] = n]
       /\ bridge' = [bridge EXCEPT ![<<w, n>>] = "subscribing"]
  /\ cancelled' = cancelled \cup Previous(w)
  /\ UNCHANGED <<window, request, daemonVars, trayVars>>

\* Hello fails: the load has no bridge, and nobody tries again.
HelloFails(w) ==
  /\ window[w] = "running" /\ loads[w] < MaxLoads[w]
  /\ loads' = [loads EXCEPT ![w] = @ + 1]
  /\ bridge' = [bridge EXCEPT ![<<w, loads[w] + 1>>] = "ended"]
  /\ UNCHANGED <<window, eventCancel, cancelled, request, daemonVars, trayVars>>

\* The page is taken down: whatever bridge there is, is given up.
StopRuntimeEventBridge(w) ==
  /\ window[w] = "running" /\ eventCancel[w] # 0
  /\ cancelled' = cancelled \cup Previous(w)
  /\ eventCancel' = [eventCancel EXCEPT ![w] = 0]
  /\ UNCHANGED <<window, loads, bridge, request, daemonVars, trayVars>>

\* The engine's subscriptions are open; the window attaches.
Attach(b) ==
  /\ bridge[b] = "subscribing" /\ b \notin cancelled
  /\ bridge' = [bridge EXCEPT ![b] = "attaching"]
  /\ request' = request \cup {b}
  /\ UNCHANGED <<window, loads, eventCancel, cancelled, daemonVars, trayVars>>

Ended(b) ==
  /\ bridge' = [bridge EXCEPT ![b] = "ended"]
  /\ cancelled' = cancelled \ {b}
  /\ UNCHANGED <<window, loads, eventCancel, request, daemonVars, trayVars>>

\* A subscription fails, for one because the bridge was given up.
SubscriptionFails(b) == bridge[b] = "subscribing" /\ Ended(b)

\* The answer to the attach request is here.
Attached(b) ==
  /\ bridge[b] = "attaching" /\ session[b] # "none"
  /\ bridge' = [bridge EXCEPT ![b] = "attached"]
  /\ UNCHANGED <<window, loads, eventCancel, cancelled, request, daemonVars, trayVars>>

\* No answer in five seconds; the request may be served yet.
AttachTimesOut(b) == bridge[b] = "attaching" /\ Ended(b)

\* The context of an attached bridge was cancelled: the client closes.
CancelCloses(b) == bridge[b] = "attached" /\ b \in cancelled /\ Ended(b)

\* The daemon has closed the connection: the bridge ends and tells nobody.
StreamEnds(b) == bridge[b] = "attached" /\ session[b] \in {"over", "cleaned"} /\ Ended(b)

WindowExit(w) ==
  /\ window[w] = "running"
  /\ window' = [window EXCEPT ![w] = "gone"]
  /\ eventCancel' = [eventCancel EXCEPT ![w] = 0]
  /\ bridge' = [b \in Bridge |-> IF b[1] = w THEN "ended" ELSE bridge[b]]
  /\ cancelled' = {b \in cancelled : b[1] # w}
  /\ UNCHANGED <<loads, request, daemonVars, trayVars>>

-----------------------------------------------------------------------------
(* The daemon: the sections under windowMu.                                *)

EndedByAttach == {windowSess} \cap Bridge

WindowAttach(b) ==
  /\ b \in request
  /\ request' = request \ {b}
  /\ session' = [s \in Bridge |-> IF s = b THEN "live"
                                  ELSE IF s \in EndedByAttach /\ session[s] = "live" THEN "over"
                                  ELSE session[s]]
  /\ windowSess' = b
  /\ UNCHANGED <<window, loads, eventCancel, bridge, cancelled, shows, trayVars>>

\* The server reads the end of the connection, or fails to write to it.
ConnectionEnds(b) ==
  /\ session[b] = "live" /\ bridge[b] = "ended"
  /\ session' = [session EXCEPT ![b] = "over"]
  /\ UNCHANGED <<windowVars, windowSess, shows, trayVars>>

\* Variant: takes away whatever session there is.
WithoutAny(b) == NoSession

\* Variant: no session is taken away.
WithoutNone(b) == windowSess

Without(b) == IF windowSess = b THEN NoSession ELSE windowSess

CleanUp(b) ==
  /\ session[b] = "over"
  /\ session' = [session EXCEPT ![b] = "cleaned"]
  /\ windowSess' = Without(b)
  /\ shows' = [shows EXCEPT ![b] = 0]
  /\ UNCHANGED <<windowVars, trayVars>>

\* Out of the session's channel, over the connection, to the window.
ShowWindow(b) ==
  /\ bridge[b] = "attached" /\ session[b] = "live" /\ shows[b] > 0
  /\ shows' = [shows EXCEPT ![b] = @ - 1]
  /\ UNCHANGED <<windowVars, session, windowSess, trayVars>>

-----------------------------------------------------------------------------
(* The tray.  A goroutine serves one click after the other.                *)

HasRoom(b) == shows[b] < ShowLimit

\* NotifyWindowShow: an event, an unresponsive window, or no session.
openWindow ==
  /\ ~click
  /\ \/ windowSess = NoSession /\ click' = TRUE /\ shows' = shows
     \/ /\ windowSess # NoSession /\ HasRoom(windowSess)
        /\ shows' = [shows EXCEPT ![windowSess] = @ + 1] /\ click' = click
     \/ windowSess # NoSession /\ ~HasRoom(windowSess) /\ UNCHANGED <<shows, click>>
  /\ UNCHANGED <<windowVars, session, windowSess, pending, clearer>>

MayLaunch == ~pending

\* beginWindowLaunch says no.
LaunchPending ==
  /\ click /\ ~MayLaunch
  /\ click' = FALSE
  /\ UNCHANGED <<windowVars, daemonVars, pending, clearer>>

spawnQKBoxWindow(w) ==
  /\ click /\ MayLaunch /\ window[w] = "none"
  /\ window' = [window EXCEPT ![w] = "running"]
  /\ click' = FALSE /\ pending' = TRUE /\ clearer' = w
  /\ UNCHANGED <<loads, eventCancel, bridge, cancelled, request, daemonVars>>

\* Variant: forgets the launch that failed.
PendingAfterFailureKept == TRUE

PendingAfterFailure == FALSE

SpawnFails ==
  /\ click /\ MayLaunch
  /\ click' = FALSE /\ pending' = PendingAfterFailure
  /\ UNCHANGED <<windowVars, daemonVars, clearer>>

endWindowLaunch ==
  /\ pending' = FALSE /\ clearer' = None
  /\ UNCHANGED <<windowVars, daemonVars, click>>

\* A session is there, this window's or another's.
LaunchAttached ==
  /\ clearer # None /\ windowSess # NoSession
  /\ endWindowLaunch

LaunchTimesOut == clearer # None /\ endWindowLaunch

-----------------------------------------------------------------------------
DaemonStep == \E b \in Bridge : WindowAttach(b) \/ ConnectionEnds(b) \/ CleanUp(b) \/ ShowWindow(b)

TrayStep ==
  \/ openWindow \/ LaunchPending \/ SpawnFails \/ LaunchAttached \/ LaunchTimesOut
  \/ \E w \in Window : spawnQKBoxWindow(w)

SessionNext ==
  \/ DaemonStep \/ TrayStep
  \/ \E w \in Window : \/ StartRuntimeEventBridge(w) \/ HelloFails(w)
                       \/ StopRuntimeEventBridge(w) \/ WindowExit(w)
  \/ \E b \in Bridge : \/ Attach(b) \/ SubscriptionFails(b) \/ Attached(b)
                       \/ AttachTimesOut(b) \/ CancelCloses(b) \/ StreamEnds(b)

\* Goroutines run, requests on their way are served, the timer fires; what
\* users and windows do of themselves need not happen.
SessionFairness ==
  /\ \A b \in Bridge : /\ WF_sessionVars(WindowAttach(b) \/ ConnectionEnds(b) \/ CleanUp(b))
                       /\ WF_sessionVars(Attached(b) \/ CancelCloses(b) \/ StreamEnds(b))
  /\ WF_sessionVars(LaunchAttached \/ LaunchTimesOut)

SessionSpec == SessionInit /\ [][SessionNext]_sessionVars /\ SessionFairness

-----------------------------------------------------------------------------
SessionTypeOK ==
  /\ window \in [Window -> {"none", "running", "gone"}]
  /\ loads \in [Window -> Nat] /\ eventCancel \in [Window -> Nat]
  /\ \A w \in Window : eventCancel[w] <= loads[w] /\ loads[w] <= MaxLoads[w]
  /\ bridge \in [Bridge -> {"none", "subscribing", "attaching", "attached", "ended"}]
  /\ cancelled \subseteq Bridge /\ request \subseteq Bridge
  /\ session \in [Bridge -> {"none", "live", "over", "cleaned"}]
  /\ windowSess \in Session
  /\ shows \in [Bridge -> 0..ShowLimit]
  /\ click \in BOOLEAN /\ pending \in BOOLEAN /\ clearer \in Window \cup {None}

GivenUp(b) == b \in cancelled \/ bridge[b] = "ended"

\* However windows attach, reload and go, only the daemon's session lives:
\* no two windows both listen for the tray, and the clean-up of a session that
\* was replaced comes late and spares its successor (WindowAttach).
OneSessionLives == \A b \in Bridge : session[b] = "live" => windowSess = b

SessionIsGone == windowSess # NoSession /\ GivenUp(windowSess)

\* The daemon does not for ever take for its session one whose bridge was
\* given up, by a reload or by its own failure, or whose window has gone,
\* wherever in its set-up that found it: the tray comes to launch a window
\* instead of talking to one that is not there.
GoneIsForgotten == SessionIsGone ~> ~SessionIsGone

\* No launch is pending for ever.
PendingClears == pending ~> ~pending
=============================================================================

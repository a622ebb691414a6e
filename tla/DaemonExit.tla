------------------------------ MODULE DaemonExit ------------------------------
(***************************************************************************)
(* How the qkbox process ends: the exit paths of cmd/qkbox/main.go and its *)
(* tray, the instance they stop (core/qkboxd/daemon.go), and the IPC       *)
(* server whose connections it waits for (internal/ipc/server.go).         *)
(*                                                                         *)
(* A context that is cancelled cancels its children at once.  A connection *)
(* here stands for every connection a client makes in turn.  What requests *)
(* do to the service is the subject of Qkboxd.                             *)
(***************************************************************************)
CONSTANT Conn  \* the connections clients may have at the same time

VARIABLES
  mode,       \* with a tray or headless
  menu,       \* the goroutine that handles the tray's menu
  signalled,  \* main's context is cancelled
  exit,       \* what the caller that passed exitOnce has come to
  process,    \* the qkbox process
  cancelled,  \* the instance's context, a child of main's, is cancelled
  listener,   \* the IPC listener
  serve,      \* Server.Serve
  conn,       \* the handler of each connection
  cleanup     \* what follows Serve in the instance's goroutine

mainVars == <<mode, menu, exit, process>>
contexts == <<signalled, cancelled>>
serverVars == <<listener, serve, conn>>
vars == <<mode, menu, signalled, exit, process, cancelled, listener, serve, conn, cleanup>>

TypeOK ==
  /\ mode \in {"tray", "headless"}
  /\ menu \in {"idle", "calling", "quitting", "gone"}
  /\ signalled \in BOOLEAN /\ cancelled \in BOOLEAN
  /\ exit \in {"free", "waiting", "gaveUp", "trayEnded", "leaving"}
  /\ process \in {"up", "gone"}
  /\ listener \in {"open", "closed"}
  /\ serve \in {"accepting", "waiting", "returned"}
  /\ conn \in [Conn -> {"none", "reading", "handling", "replying", "streaming", "sending"}]
  /\ cleanup \in {"pending", "closing", "done"}
  /\ mode = "headless" => menu = "gone" /\ exit # "trayEnded"

Init ==
  /\ mode \in {"tray", "headless"}
  /\ menu = IF mode = "tray" THEN "idle" ELSE "gone"
  /\ signalled = FALSE /\ cancelled = FALSE
  /\ exit = "free" /\ process = "up"
  /\ listener = "open" /\ serve = "accepting"
  /\ conn = [c \in Conn |-> "none"]
  /\ cleanup = "pending"

-----------------------------------------------------------------------------
(* main and the tray                                                       *)

\* Variant: leaves the instance's context alone.
RequestExitUncancelled(point) ==
  /\ exit = "free" /\ exit' = point
  /\ UNCHANGED contexts

\* requestExit: later callers wait in exitOnce for the first, and do nothing.
RequestExit(point) ==
  /\ exit = "free" /\ exit' = point
  /\ cancelled' = TRUE
  /\ UNCHANGED signalled

Signal ==
  /\ ~signalled
  /\ signalled' = TRUE /\ cancelled' = TRUE
  /\ UNCHANGED <<mainVars, serverVars, cleanup>>

\* A call of the service, such as EngineStop, keeps the menu's goroutine busy.
MenuCall ==
  /\ menu = "idle" /\ menu' = "calling"
  /\ UNCHANGED <<mode, exit, process, contexts, serverVars, cleanup>>

MenuReturns ==
  /\ menu = "calling" /\ menu' = "idle"
  /\ UNCHANGED <<mode, exit, process, contexts, serverVars, cleanup>>

MenuGone ==
  /\ menu = "idle" /\ signalled
  /\ menu' = "gone"
  /\ UNCHANGED <<mode, exit, process, contexts, serverVars, cleanup>>

Quit ==
  /\ menu = "idle"
  /\ RequestExit("waiting")
  /\ menu' = "quitting"
  /\ UNCHANGED <<mode, process, serverVars, cleanup>>

SignalSeen ==
  /\ mode = "headless" /\ signalled
  /\ RequestExit("waiting")
  /\ UNCHANGED <<mode, menu, process, serverVars, cleanup>>

\* The tray's loop ends by itself, with the user's session for one: its exit
\* callback does not wait.
TrayEnds ==
  /\ mode = "tray"
  /\ RequestExit("trayEnded")
  /\ UNCHANGED <<mode, menu, process, serverVars, cleanup>>

\* inst.Wait has returned.
DaemonEnded ==
  /\ cleanup = "done"
  /\ RequestExit("leaving")
  /\ UNCHANGED <<mode, menu, process, serverVars, cleanup>>

ShutdownReturns ==
  /\ exit = "waiting" /\ cleanup = "done"
  /\ exit' = "leaving"
  /\ UNCHANGED <<mode, menu, process, contexts, serverVars, cleanup>>

\* The clean-up has taken longer than ten seconds.
ShutdownGivesUp ==
  /\ exit = "waiting" /\ exit' = "gaveUp"
  /\ UNCHANGED <<mode, menu, process, contexts, serverVars, cleanup>>

\* stop() and systray.Quit: main returns.
Leave ==
  /\ exit \in {"leaving", "gaveUp", "trayEnded"}
  /\ process' = "gone" /\ signalled' = TRUE
  /\ UNCHANGED <<mode, menu, exit, cancelled, serverVars, cleanup>>

-----------------------------------------------------------------------------
(* Server.Serve and the connections' handlers                              *)

Move(c, from, to) ==
  /\ conn[c] \in from
  /\ conn' = [conn EXCEPT ![c] = to]
  /\ UNCHANGED <<mainVars, contexts, listener, serve, cleanup>>

Connect(c) ==
  /\ serve = "accepting" /\ listener = "open"
  /\ Move(c, {"none"}, "reading")

CloseListener ==
  /\ cancelled /\ listener = "open"
  /\ listener' = "closed"
  /\ UNCHANGED <<mainVars, contexts, serve, conn, cleanup>>

StopAccepting ==
  /\ serve = "accepting" /\ serve' = "waiting"
  /\ UNCHANGED <<mainVars, contexts, listener, conn, cleanup>>

AcceptEnds == listener = "closed" /\ StopAccepting

\* For want of file descriptors, say: nothing cancels the context.
AcceptFails == listener = "open" /\ StopAccepting

Idle == \A c \in Conn : conn[c] = "none"

\* Variant: returns without waiting for the handlers.
ServeReturnsAtOnce ==
  /\ serve = "waiting" /\ serve' = "returned"
  /\ UNCHANGED <<mainVars, contexts, listener, conn, cleanup>>

ServeReturns ==
  /\ serve = "waiting" /\ Idle
  /\ serve' = "returned"
  /\ UNCHANGED <<mainVars, contexts, listener, conn, cleanup>>

\* What clients do: send a request or a subscription, read, or hang up.  A
\* handler that is at work does not notice that its client has hung up.
Send(c) == \E to \in {"handling", "streaming"} : Move(c, {"reading"}, to)
Receive(c) == Move(c, {"replying"}, "none") \/ Move(c, {"sending"}, "streaming")
HangUp(c) == Move(c, {"reading", "replying", "streaming", "sending"}, "none")

Handled(c) == Move(c, {"handling"}, "replying")
Event(c) == Move(c, {"streaming"}, "sending")
StreamEnds(c) == cancelled /\ Move(c, {"streaming"}, "none")

-----------------------------------------------------------------------------
(* The instance's goroutine after Serve                                    *)

CloseService ==
  /\ serve = "returned" /\ cleanup = "pending"
  /\ cleanup' = "closing"
  /\ UNCHANGED <<mainVars, contexts, serverVars>>

\* Listener, database and lock are released, and done is closed.
Release ==
  /\ cleanup = "closing"
  /\ cleanup' = "done" /\ listener' = "closed"
  /\ UNCHANGED <<mainVars, contexts, serve, conn>>

-----------------------------------------------------------------------------
Menu == MenuCall \/ MenuReturns \/ MenuGone \/ Quit
Ending == SignalSeen \/ DaemonEnded \/ ShutdownReturns \/ Leave
Closing == CloseListener \/ AcceptEnds \/ ServeReturns \/ CloseService \/ Release
Client(c) == Connect(c) \/ Send(c) \/ Receive(c) \/ HangUp(c)
Handler(c) == Handled(c) \/ Event(c) \/ StreamEnds(c)

Up == process = "up"

Next ==
  \/ Up /\ Signal
  \/ Up /\ Menu
  \/ Up /\ Ending
  \/ Up /\ ShutdownGivesUp
  \/ Up /\ TrayEnds
  \/ Up /\ AcceptFails
  \/ Up /\ Closing
  \/ \E c \in Conn : Up /\ (Client(c) \/ Handler(c))

Spec == Init /\ [][Next]_vars

\* The Go scheduler runs what can run, calls of the service return, and select
\* picks a cancelled context some time among events.  A client sends its
\* request or hangs up, and reads what it is sent: internal/ipc/client.go
\* gives each call a deadline and reads a subscription until it is closed.
\* A subscription may stay as long as its client likes.
Fairness ==
  /\ WF_vars(Up /\ MenuReturns)
  /\ WF_vars(Up /\ Ending)
  /\ WF_vars(Up /\ Closing)
  /\ \A c \in Conn :
       /\ WF_vars(Up /\ Handled(c))
       /\ SF_vars(Up /\ StreamEnds(c))
       /\ WF_vars(Up /\ (Send(c) \/ Receive(c)))

FairSpec == Spec /\ Fairness

-----------------------------------------------------------------------------
(* Properties                                                              *)

(* service.Close finds no handler at work: no request or subscription of   *)
(* the IPC meets an engine shut down or a database closed.                 *)
ClosesWhenIdle == cleanup # "pending" => Idle

(* Once a signal, the user or the daemon itself asks for the end, the      *)
(* process ends: the menu, the waiters and exitOnce do not wait for each   *)
(* other for ever, and no subscription keeps the server.                   *)
EndsWhenAsked == cancelled \/ exit # "free" ~> process = "gone"
=============================================================================

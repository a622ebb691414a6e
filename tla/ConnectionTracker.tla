-------------------------- MODULE ConnectionTracker --------------------------
(***************************************************************************)
(* One sing-box adapter (internal/singboxadapter): its box, the directory  *)
(* of the box's cache, and the tracker that counts and closes the box's    *)
(* connections.  An adapter is started once; Stop is called until it       *)
(* succeeds.                                                               *)
(*                                                                         *)
(* sing-box routes each connection in a goroutine of its own: the tracker  *)
(* first enters the connection in its map and only then learns how to      *)
(* close it.  Stop, the calls of a window and the goroutine itself close   *)
(* connections side by side.  closeFunc is written without a lock; what    *)
(* another goroutine reads there is the value before or after the write.   *)
(***************************************************************************)
EXTENDS Naturals

CONSTANTS
  Conn,      \* connections sing-box accepts
  Api,       \* goroutines that serve CloseConnection and CloseAllConnections
  Reader,    \* goroutines that ask for TrafficSnapshot
  MaxBytes,  \* bound: bytes the connections carry
  None

ASSUME ActorAssumption == /\ Conn \cap Api = {}
                          /\ None \notin Conn \cup Api \cup Reader \cup {"stop", "done"}
                          /\ {"stop", "done"} \cap (Conn \cup Api) = {}

Closer == Conn \cup Api \cup {"stop"}

VARIABLES
  adapter,      \* how far Start and Stop are
  b,            \* a.b: whether the adapter holds its box
  box,          \* the box
  cache,        \* the directory made for the box's cache; "stuck" (history): the
                \* last attempt to remove it has failed
  conn,         \* how far each connection is
  nextID,       \* the tracker's last id
  id,           \* the id of each tracked connection
  connections,  \* the tracker's map, from ids to connections
  mu,           \* who holds the map's lock to read it
  once,         \* closeOnce of each: who runs it
  closing,      \* the connections each closer still has to close
  open,         \* the connections that are open underneath
  early,        \* history: connections closed before closeFunc was set
  seen,         \* history: what Stop's CloseAll found in the map
  uploadTotal,  \* bytes counted
  lastTraffic,  \* the last snapshot: the bytes it saw, None before the first
  trafficMu,    \* who holds trafficMu
  asked,        \* for each reader, whether it is at work and the snapshot it saw
  rated         \* history: bytes that went into some snapshot's rate

boxVars == <<adapter, b, box, cache>>
closeVars == <<mu, once, closing, open, early>>
trafficVars == <<uploadTotal, lastTraffic, trafficMu, asked, rated>>
vars == <<boxVars, conn, nextID, id, connections, closeVars, seen, trafficVars>>

Tracked == {connections[i] : i \in DOMAIN connections}

Init ==
  /\ adapter = "new" /\ b = FALSE /\ box = "absent" /\ cache = "none"
  /\ conn = [c \in Conn |-> "none"]
  /\ nextID = 0 /\ id = [c \in Conn |-> 0] /\ connections = << >>
  /\ mu = {} /\ once = [c \in Conn |-> None] /\ closing = [k \in Closer |-> {}]
  /\ open = {} /\ early = {} /\ seen = {}
  /\ uploadTotal = 0 /\ lastTraffic = None /\ trafficMu = None /\ rated = 0
  /\ asked = [r \in Reader |-> [at |-> FALSE, previous |-> None]]

-----------------------------------------------------------------------------
(* The connections.                                                        *)

\* sing-box accepts from within its Start until it is closed.
Accept(c) ==
  /\ conn[c] = "none" /\ box \in {"starting", "running"}
  /\ conn' = [conn EXCEPT ![c] = "accepted"]
  /\ open' = open \cup {c}
  /\ UNCHANGED <<boxVars, nextID, id, connections, mu, once, closing, early, seen, trafficVars>>

newID == nextID + 1

addConnection(c) ==
  /\ conn[c] = "accepted" /\ mu = {}
  /\ nextID' = newID
  /\ id' = [id EXCEPT ![c] = newID]
  /\ connections' = [i \in DOMAIN connections \cup {newID} |->
                       IF i = newID THEN c ELSE connections[i]]
  /\ conn' = [conn EXCEPT ![c] = "added"]
  /\ UNCHANGED <<boxVars, closeVars, seen, trafficVars>>

\* closeFunc is set; the connection goes back to sing-box, wrapped.
RoutedConnection(c) ==
  /\ conn[c] = "added"
  /\ conn' = [conn EXCEPT ![c] = "wrapped"]
  /\ UNCHANGED <<boxVars, nextID, id, connections, closeVars, seen, trafficVars>>

\* A byte read from or written to a wrapped connection.
Transfer(c) ==
  /\ conn[c] = "wrapped" /\ c \in open /\ uploadTotal < MaxBytes
  /\ uploadTotal' = uploadTotal + 1
  /\ UNCHANGED <<boxVars, conn, nextID, id, connections, closeVars, seen, lastTraffic, trafficMu, asked, rated>>

-----------------------------------------------------------------------------
(* Closing.                                                                *)

\* Variant: closes with the map locked.
SnapshotLocked(k) ==
  /\ closing' = [closing EXCEPT ![k] = Tracked]
  /\ mu' = IF Tracked = {} THEN mu ELSE mu \cup {k}

\* The lock is given back before anything is closed.
Snapshot(k) ==
  /\ closing' = [closing EXCEPT ![k] = Tracked]
  /\ mu' = mu

CloseAll(k) ==
  /\ k \in Api /\ closing[k] = {}
  /\ Snapshot(k)
  /\ UNCHANGED <<boxVars, conn, nextID, id, connections, once, open, early, seen, trafficVars>>

CloseConnection(k, c) ==
  /\ k \in Api /\ closing[k] = {} /\ c \in Tracked
  /\ closing' = [closing EXCEPT ![k] = {c}]
  /\ UNCHANGED <<boxVars, conn, nextID, id, connections, mu, once, open, early, seen, trafficVars>>

\* sing-box is done with a connection and closes its wrapper.
WrappedClose(c) ==
  /\ conn[c] = "wrapped" /\ closing[c] = {}
  /\ conn' = [conn EXCEPT ![c] = "done"]
  /\ closing' = [closing EXCEPT ![c] = {c}]
  /\ UNCHANGED <<boxVars, nextID, id, connections, mu, once, open, early, seen, trafficVars>>

remove(c) == connections' = [i \in DOMAIN connections \ {id[c]} |-> connections[i]]

\* closeOnce: the first to come runs it, the others wait for the end of it.
Free(c) == once[c] = None

Underneath(c) ==
  IF conn[c] \in {"wrapped", "done"}
  THEN open' = open \ {c} /\ early' = early
  ELSE early' = early \cup {c} /\ open' = open

\* Variant: the other way round.
BeginCloseClosing(k, c) ==
  /\ Underneath(c)
  /\ UNCHANGED connections

\* The connection leaves the map, then it is closed underneath.
BeginClose(k, c) ==
  /\ remove(c)
  /\ UNCHANGED <<open, early>>

EndClose(k, c) ==
  /\ Underneath(c)
  /\ UNCHANGED connections

CloseFirst(k) ==
  /\ \E c \in closing[k] :
       /\ Free(c) /\ mu = {}
       /\ once' = [once EXCEPT ![c] = k]
       /\ BeginClose(k, c)
  /\ UNCHANGED <<boxVars, conn, nextID, id, mu, closing, seen, trafficVars>>

Left(k, c) ==
  /\ closing' = [closing EXCEPT ![k] = @ \ {c}]
  /\ mu' = IF closing[k] = {c} THEN mu \ {k} ELSE mu

CloseThen(k) ==
  /\ \E c \in closing[k] :
       /\ once[c] = k
       /\ EndClose(k, c)
       /\ once' = [once EXCEPT ![c] = "done"]
       /\ Left(k, c)
  /\ UNCHANGED <<boxVars, conn, nextID, id, seen, trafficVars>>

\* Somebody else has closed it.
CloseLast(k) ==
  /\ \E c \in closing[k] : once[c] = "done" /\ Left(k, c)
  /\ UNCHANGED <<boxVars, conn, nextID, id, connections, once, open, early, seen, trafficVars>>

-----------------------------------------------------------------------------
(* The adapter.                                                            *)

unchangedTracker == UNCHANGED <<conn, nextID, id, connections, closeVars, seen, trafficVars>>

\* The directory cannot be made, or the configuration cannot be read.
NewBoxFails ==
  /\ adapter = "new" /\ adapter' = "failed"
  /\ UNCHANGED <<b, box, cache>> /\ unchangedTracker

\* A configuration that names a cache of its own has no directory to lose.
MakeCache ==
  /\ adapter = "new" /\ adapter' = "cache"
  /\ cache' = "made"
  /\ UNCHANGED <<b, box>> /\ unchangedTracker

\* RemoveAll may fail, and its error is dropped; nothing is there to remove
\* after one that did not.
cleanupRuntimeCache == cache' \in IF cache = "none" THEN {"none"} ELSE {"none", "stuck"}

newBox ==
  /\ adapter = "cache"
  /\ \/ adapter' = "failed" /\ cleanupRuntimeCache /\ UNCHANGED <<b, box>>
     \/ adapter' = "starting" /\ box' = "starting" /\ UNCHANGED <<b, cache>>
  /\ unchangedTracker

StartBox ==
  /\ adapter = "starting"
  /\ \/ adapter' = "started" /\ box' = "running" /\ b' = TRUE
     \/ adapter' = "undoing" /\ UNCHANGED <<box, b>>
  /\ UNCHANGED cache /\ unchangedTracker

\* Variant: a box that does not close keeps its directory.
CloseManagedEarly ==
  \/ box' = "closed" /\ cleanupRuntimeCache
  \/ box' = "half" /\ UNCHANGED cache

\* Close of a managed box: its directory is removed whatever Close of the box
\* says.
CloseManaged == box' \in {"closed", "half"} /\ cleanupRuntimeCache

UndoStart ==
  /\ adapter = "undoing" /\ adapter' = "failed"
  /\ CloseManaged
  /\ UNCHANGED b /\ unchangedTracker

Stop ==
  /\ adapter = "started" /\ adapter' = "closing all"
  /\ Snapshot("stop") /\ seen' = Tracked
  /\ UNCHANGED <<b, box, cache, conn, nextID, id, connections, once, open, early, trafficVars>>

\* Variant: CloseAll runs in the background.
AllClosedLater == TRUE

AllClosed == closing["stop"] = {}

CloseBox ==
  /\ adapter = "closing all" /\ AllClosed
  /\ CloseManaged
  /\ \/ box' = "closed" /\ adapter' = "resetting" /\ b' = FALSE
     \/ box' = "half" /\ adapter' = "started" /\ b' = TRUE
  /\ unchangedTracker

-----------------------------------------------------------------------------
(* Traffic.                                                                *)

ResetTraffic ==
  /\ adapter = "resetting" /\ trafficMu = None
  /\ adapter' = "stopped" /\ lastTraffic' = None
  /\ UNCHANGED <<b, box, cache, conn, nextID, id, connections, closeVars, seen, uploadTotal, trafficMu, asked, rated>>

\* The tracker's part: a rate since the previous snapshot.  Without one the
\* time since 1970 makes it nothing, and so does a clock that stands still.
RateTo(total, previous) ==
  IF previous = None THEN {0} ELSE {0, total - previous}

\* Variant: the previous snapshot is read without the lock.
TrafficFreeAlways == TRUE

TrafficFree == trafficMu = None

TrafficBegin(r) ==
  /\ ~asked[r].at /\ TrafficFree
  /\ trafficMu' = r
  /\ asked' = [asked EXCEPT ![r] = [at |-> TRUE, previous |-> lastTraffic]]
  /\ UNCHANGED <<boxVars, conn, nextID, id, connections, closeVars, seen, uploadTotal, lastTraffic, rated>>

\* The total is loaded, and kept with the rate as the last snapshot.
TrafficSnapshot(r) ==
  /\ asked[r].at
  /\ \E n \in RateTo(uploadTotal, asked[r].previous) : rated' = rated + n
  /\ lastTraffic' = uploadTotal
  /\ asked' = [asked EXCEPT ![r] = [at |-> FALSE, previous |-> None]]
  /\ trafficMu' = None
  /\ UNCHANGED <<boxVars, conn, nextID, id, connections, closeVars, seen, uploadTotal>>

-----------------------------------------------------------------------------
CloseStep(k) == CloseFirst(k) \/ CloseThen(k) \/ CloseLast(k)

AdapterStep ==
  NewBoxFails \/ MakeCache \/ newBox \/ StartBox \/ UndoStart \/ Stop \/ CloseBox \/ ResetTraffic

Next ==
  \/ AdapterStep
  \/ \E c \in Conn : \/ Accept(c) \/ addConnection(c) \/ RoutedConnection(c)
                     \/ Transfer(c) \/ WrappedClose(c)
  \/ \E k \in Api : CloseAll(k) \/ \E c \in Conn : CloseConnection(k, c)
  \/ \E k \in Closer : CloseStep(k)
  \/ \E r \in Reader : TrafficBegin(r) \/ TrafficSnapshot(r)

\* A goroutine that has begun to close connections goes on, and so does Stop;
\* nobody need start, stop, accept or ask.
Fairness == WF_vars(CloseBox) /\ \A k \in Closer : WF_vars(CloseStep(k))

Spec == Init /\ [][Next]_vars /\ Fairness

-----------------------------------------------------------------------------
TypeOK ==
  /\ adapter \in {"new", "cache", "starting", "undoing", "failed", "started",
                  "closing all", "resetting", "stopped"}
  /\ b \in BOOLEAN /\ cache \in {"none", "made", "stuck"}
  /\ box \in {"absent", "starting", "running", "half", "closed"}
  /\ conn \in [Conn -> {"none", "accepted", "added", "wrapped", "done"}]
  /\ nextID \in Nat /\ id \in [Conn -> Nat]
  /\ DOMAIN connections \subseteq 1..nextID /\ Tracked \subseteq Conn
  /\ mu \subseteq Closer /\ once \in [Conn -> Closer \cup {None, "done"}]
  /\ closing \in [Closer -> SUBSET Conn]
  /\ open \subseteq Conn /\ early \subseteq Conn /\ seen \subseteq Conn
  /\ uploadTotal \in Nat /\ lastTraffic \in Nat \cup {None}
  /\ trafficMu \in Reader \cup {None} /\ rated \in Nat
  /\ asked \in [Reader -> [at : BOOLEAN, previous : Nat \cup {None}]]

\* What a ConnectionSnapshot lists is open, and what is open and carries
\* traffic is listed under its own id, or somebody is about to close it.  The
\* exception is a connection that was closed before closeFunc was set: it is
\* open, in no list, and every later close of it does nothing.
ListMatchesOpen ==
  /\ Tracked \subseteq open
  /\ \A c \in open : conn[c] \in {"added", "wrapped"} =>
       c \in Tracked \/ c \in early \/ once[c] \in Closer

\* When Stop has succeeded, every connection its CloseAll saw is closed,
\* whoever closed it (but for those closed before closeFunc was set); open
\* ones came after.
StopClosesWhatItSaw == adapter \in {"resetting", "stopped"} => seen \cap open \subseteq early

\* Whichever steps of a start, of its clean-up or of a stop fail: after a
\* failed start, a stop that failed or one that succeeded the directory made
\* for the box's cache is gone, unless the system refused to remove it; and a
\* box that is not closed is one the adapter holds, so that no stop reports
\* success over it and no start comes beside it.  The exception is a failed
\* start whose clean-up failed: nobody holds that box.
NothingLeftBehind ==
  /\ adapter \in {"failed", "resetting", "stopped"} \/ box = "half" => cache # "made"
  /\ box \in {"running", "half"} => b \/ adapter = "failed"

\* Windows share one last snapshot: a byte goes into the rate of one snapshot
\* at the most (trafficMu).
RatesAddUp == rated <= uploadTotal

\* Stop closes what it saw and comes to an end: the map is not locked while
\* connections are closed, and nobody waits for a closeOnce for ever.
StopEnds == adapter = "closing all" ~> adapter # "closing all"
=============================================================================

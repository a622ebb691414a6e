------------------------ MODULE ConnectionTrackerProofs ------------------------
(***************************************************************************)
(* Theorems about ConnectionTracker, for every set of connections, closers *)
(* and readers.                                                            *)
(***************************************************************************)
EXTENDS ConnectionTracker, TLAPS

-----------------------------------------------------------------------------
(* The box and its cache                                                   *)

(* Which box and which directory there are at each step of Start and Stop. *)
BoxInv ==
  /\ adapter = "new" => cache = "none"
  /\ adapter \in {"new", "cache"} => box = "absent"
  /\ adapter \in {"starting", "undoing"} => box = "starting"
  /\ adapter \in {"started", "closing all"} => b = TRUE
  /\ adapter \in {"resetting", "stopped"} => box = "closed"
  /\ adapter \in {"failed", "resetting", "stopped"} \/ box = "half" => cache # "made"
  /\ box \in {"running", "half"} => b = TRUE \/ adapter = "failed"

LEMMA BoxStep == BoxInv /\ [Next]_vars => BoxInv'
<1> SUFFICES ASSUME BoxInv, [Next]_vars PROVE BoxInv'
  OBVIOUS
<1> USE DEF BoxInv
<1>1. CASE AdapterStep
  BY <1>1 DEF AdapterStep, NewBoxFails, MakeCache, newBox, StartBox, UndoStart, Stop, CloseBox,
              ResetTraffic, CloseManaged, cleanupRuntimeCache
<1>2. CASE UNCHANGED boxVars
  BY <1>2 DEF boxVars
<1>3. ASSUME NEW c \in Conn, \/ Accept(c) \/ addConnection(c) \/ RoutedConnection(c)
                             \/ Transfer(c) \/ WrappedClose(c)
      PROVE  BoxInv'
  BY <1>2, <1>3 DEF Accept, addConnection, RoutedConnection, Transfer, WrappedClose
<1>4. ASSUME NEW k \in Closer, \/ CloseAll(k) \/ \E c \in Conn : CloseConnection(k, c)
                               \/ CloseStep(k)
      PROVE  BoxInv'
  BY <1>2, <1>4 DEF CloseAll, CloseConnection, CloseStep, CloseFirst, CloseThen, CloseLast
<1>5. ASSUME NEW r \in Reader, TrafficBegin(r) \/ TrafficSnapshot(r) PROVE BoxInv'
  BY <1>2, <1>5 DEF TrafficBegin, TrafficSnapshot
<1>6. CASE UNCHANGED vars
  BY <1>2, <1>6 DEF vars
<1>7. QED
  BY <1>1, <1>3, <1>4, <1>5, <1>6 DEF Next, Closer

(* However a start, its clean-up or a stop fails, no directory made for    *)
(* the box's cache stays that the system would have removed, and a box     *)
(* that is not closed is one that the adapter holds (Adapter.Stop keeps    *)
(* a.b until Close has succeeded), unless a failed start could not close   *)
(* it.                                                                     *)
THEOREM NoneLeftBehind == Spec => []NothingLeftBehind
<1>1. Init => BoxInv
  BY DEF Init, BoxInv
<1>2. BoxInv => NothingLeftBehind
  BY DEF BoxInv, NothingLeftBehind
<1>3. QED
  BY <1>1, <1>2, BoxStep, PTL DEF Spec

-----------------------------------------------------------------------------
(* Traffic                                                                 *)

(* What rates have told of was in a snapshot, and a reader at work saw the *)
(* last one and holds the lock, so that nobody replaces it meanwhile.      *)
TrafficInv ==
  /\ uploadTotal \in Nat /\ rated \in Nat /\ lastTraffic \in Nat \cup {None}
  /\ trafficMu \in Reader \cup {None}
  /\ asked \in [Reader -> [at : BOOLEAN, previous : Nat \cup {None}]]
  /\ rated <= uploadTotal
  /\ lastTraffic # None => rated <= lastTraffic /\ lastTraffic <= uploadTotal
  /\ \A r \in Reader : asked[r].at = TRUE => trafficMu = r /\ asked[r].previous = lastTraffic

LEMMA SnapshotStep ==
  ASSUME TrafficInv, NEW r \in Reader, TrafficSnapshot(r)
  PROVE  TrafficInv'
<1> USE DEF TrafficInv
<1>1. asked[r].at = TRUE /\ trafficMu = r /\ asked[r].previous = lastTraffic
  BY DEF TrafficSnapshot
<1>2. PICK n \in RateTo(uploadTotal, lastTraffic) : rated' = rated + n
  BY <1>1 DEF TrafficSnapshot
<1>3. rated' \in Nat /\ rated' <= uploadTotal
  BY <1>2 DEF RateTo
<1>4. lastTraffic' = uploadTotal /\ uploadTotal' = uploadTotal /\ trafficMu' = None
  BY DEF TrafficSnapshot
<1>5. asked' = [asked EXCEPT ![r] = [at |-> FALSE, previous |-> None]]
  BY DEF TrafficSnapshot
<1>6. asked' \in [Reader -> [at : BOOLEAN, previous : Nat \cup {None}]]
  BY <1>5
<1>7. ASSUME NEW q \in Reader PROVE asked'[q].at # TRUE
  <2>1. CASE q = r
    BY <1>5, <2>1
  <2>2. CASE q # r
    BY <1>1, <1>5, <2>2
  <2>3. QED
    BY <2>1, <2>2
<1>8. uploadTotal' \in Nat /\ lastTraffic' \in Nat \cup {None} /\ trafficMu' \in Reader \cup {None}
  BY <1>4
<1>9. rated' <= uploadTotal' /\ rated' <= lastTraffic' /\ lastTraffic' <= uploadTotal'
  BY <1>3, <1>4
<1>10. QED
  BY <1>3, <1>6, <1>7, <1>8, <1>9

LEMMA TrafficStep == TrafficInv /\ [Next]_vars => TrafficInv'
<1> SUFFICES ASSUME TrafficInv, [Next]_vars PROVE TrafficInv'
  OBVIOUS
<1>1. CASE UNCHANGED trafficVars
  BY <1>1 DEF TrafficInv, trafficVars
<1>2. ASSUME AdapterStep, ~ResetTraffic PROVE UNCHANGED trafficVars
  BY <1>2 DEF AdapterStep, NewBoxFails, MakeCache, newBox, StartBox, UndoStart, Stop, CloseBox,
              unchangedTracker
<1>3. CASE ResetTraffic
  BY <1>3, ActorAssumption DEF ResetTraffic, TrafficInv
<1>4. ASSUME NEW c \in Conn, Transfer(c) PROVE TrafficInv'
  BY <1>4 DEF Transfer, TrafficInv
<1>5. ASSUME NEW c \in Conn, Accept(c) \/ addConnection(c) \/ RoutedConnection(c) \/ WrappedClose(c)
      PROVE  UNCHANGED trafficVars
  BY <1>5 DEF Accept, addConnection, RoutedConnection, WrappedClose
<1>6. ASSUME NEW k \in Closer, \/ CloseAll(k) \/ \E c \in Conn : CloseConnection(k, c)
                               \/ CloseStep(k)
      PROVE  UNCHANGED trafficVars
  BY <1>6 DEF CloseAll, CloseConnection, CloseStep, CloseFirst, CloseThen, CloseLast
<1>7. ASSUME NEW r \in Reader, TrafficBegin(r) PROVE TrafficInv'
  <2>1. asked' = [asked EXCEPT ![r] = [at |-> TRUE, previous |-> lastTraffic]]
    BY <1>7 DEF TrafficBegin
  <2>2. trafficMu = None /\ trafficMu' = r /\ UNCHANGED <<uploadTotal, lastTraffic, rated>>
    BY <1>7 DEF TrafficBegin, TrafficFree
  <2>3. \A q \in Reader : asked[q].at # TRUE
    BY <2>2, ActorAssumption DEF TrafficInv
  <2>4. asked' \in [Reader -> [at : BOOLEAN, previous : Nat \cup {None}]]
    BY <2>1 DEF TrafficInv
  <2>5. ASSUME NEW q \in Reader, asked'[q].at = TRUE
        PROVE  trafficMu' = q /\ asked'[q].previous = lastTraffic'
    BY <2>1, <2>2, <2>3, <2>5 DEF TrafficInv
  <2>6. QED
    BY <2>2, <2>4, <2>5 DEF TrafficInv
<1>8. CASE UNCHANGED vars
  BY <1>1, <1>8 DEF vars
<1>9. QED
  BY <1>1, <1>2, <1>3, <1>4, <1>5, <1>6, <1>7, <1>8, SnapshotStep DEF Next, Closer

LEMMA TrafficHolds == Spec => []TrafficInv
<1>1. Init => TrafficInv
  BY DEF Init, TrafficInv
<1>2. QED
  BY <1>1, TrafficStep, PTL DEF Spec

(* However many windows ask for the traffic and however the adapter is     *)
(* stopped meanwhile, no byte is told of in the rates of two snapshots.    *)
THEOREM RatesNeverDouble == Spec => []RatesAddUp
<1>1. TrafficInv => RatesAddUp
  BY DEF TrafficInv, RatesAddUp
<1>2. QED
  BY <1>1, TrafficHolds, PTL

-----------------------------------------------------------------------------
(* Closing                                                                 *)

Untouched == {"none", "accepted"}

(* A connection is in the map under its own id from addConnection until    *)
(* somebody runs its closeOnce, and closed when that one is done, but for  *)
(* those whose closeFunc was not set.                                      *)
CloseTypes ==
  /\ conn \in [Conn -> {"none", "accepted", "added", "wrapped", "done"}]
  /\ nextID \in Nat /\ id \in [Conn -> Nat]
  /\ DOMAIN connections \subseteq 1..nextID
  /\ once \in [Conn -> Closer \cup {None, "done"}]
  /\ closing \in [Closer -> SUBSET Conn]
  /\ open \subseteq Conn /\ early \subseteq Conn /\ seen \subseteq Conn /\ mu \subseteq Closer

Mapped ==
  /\ \A i \in DOMAIN connections :
       /\ connections[i] \in Conn
       /\ id[connections[i]] = i
       /\ once[connections[i]] = None
       /\ conn[connections[i]] \notin Untouched
  /\ \A c \in Conn : once[c] = None /\ conn[c] \notin Untouched =>
       id[c] \in DOMAIN connections /\ connections[id[c]] = c

Closed ==
  /\ \A c \in Conn : conn[c] \in Untouched => once[c] = None
  /\ \A k \in Closer : \A c \in closing[k] : conn[c] \notin Untouched
  /\ \A c \in Conn : conn[c] # "none" /\ once[c] # "done" => c \in open
  /\ \A c \in Conn : once[c] = "done" => c \notin open \/ c \in early

(* What Stop's CloseAll found is still on its list or closed.              *)
Saw ==
  /\ adapter = "closing all" => \A c \in seen : c \in closing["stop"] \/ once[c] = "done"
  /\ adapter \in {"resetting", "stopped"} => \A c \in seen : once[c] = "done"

CloseInv == CloseTypes /\ Mapped /\ Closed /\ Saw

closeVarsAll == <<conn, nextID, id, connections, closeVars, seen>>

LEMMA Closers ==
  /\ None \notin Closer /\ "done" \notin Closer /\ None # "done" /\ "stop" \in Closer
  /\ \A k \in Conn \cup Api : k # "stop" /\ k \in Closer
BY ActorAssumption DEF Closer

(* The map gains nothing in a connection that was tracked before.          *)
LEMMA AddStep ==
  ASSUME CloseInv, NEW c \in Conn, addConnection(c)
  PROVE  CloseInv'
<1> USE DEF CloseInv
<1>1. conn[c] = "accepted" /\ once[c] = None /\ nextID \in Nat
  BY DEF addConnection, Closed, Untouched, CloseTypes
<1>2. /\ nextID' = nextID + 1 /\ id' = [id EXCEPT ![c] = nextID + 1]
      /\ DOMAIN connections' = DOMAIN connections \cup {nextID + 1}
      /\ connections'[nextID + 1] = c
      /\ \A i \in DOMAIN connections \ {nextID + 1} : connections'[i] = connections[i]
      /\ conn' = [conn EXCEPT ![c] = "added"]
  BY DEF addConnection, newID
<1>3. UNCHANGED <<adapter, once, closing, open, early, seen, mu>>
  BY DEF addConnection, boxVars, closeVars
<1>4. nextID + 1 \notin DOMAIN connections
  BY <1>1 DEF CloseTypes
<1>5. CloseTypes'
  BY <1>1, <1>2, <1>3 DEF CloseTypes
<1>6. \A i \in DOMAIN connections : connections[i] \in Conn /\ connections[i] # c
  BY <1>1 DEF Mapped, Untouched
<1>7. ASSUME NEW i \in DOMAIN connections'
      PROVE  /\ connections'[i] \in Conn /\ id'[connections'[i]] = i
             /\ once'[connections'[i]] = None /\ conn'[connections'[i]] \notin Untouched
  <2>1. CASE i = nextID + 1
    BY <1>1, <1>2, <1>3, <2>1 DEF CloseTypes, Untouched
  <2>2. CASE i \in DOMAIN connections
    BY <1>2, <1>3, <1>4, <1>6, <2>2 DEF CloseTypes, Mapped
  <2>3. QED
    BY <1>2, <2>1, <2>2
<1>8. ASSUME NEW d \in Conn, once'[d] = None, conn'[d] \notin Untouched
      PROVE  id'[d] \in DOMAIN connections' /\ connections'[id'[d]] = d
  <2>1. CASE d = c
    BY <1>2, <2>1 DEF CloseTypes
  <2>2. CASE d # c
    <3>1. id[d] \in DOMAIN connections /\ connections[id[d]] = d
      BY <1>2, <1>3, <1>8, <2>2 DEF Mapped, CloseTypes
    <3>2. id'[d] = id[d]
      BY <1>2, <2>2 DEF CloseTypes
    <3>3. QED
      BY <1>2, <1>4, <3>1, <3>2
  <2>3. QED
    BY <2>1, <2>2
<1>9. Mapped'
  BY <1>7, <1>8 DEF Mapped, Untouched
<1>10. Closed'
  BY <1>1, <1>2, <1>3 DEF Closed, CloseTypes, Untouched
<1>11. Saw'
  BY <1>3 DEF Saw
<1>12. QED
  BY <1>5, <1>9, <1>10, <1>11

(* Whoever runs closeOnce takes the connection out of the map first.       *)
LEMMA CloseFirstStep ==
  ASSUME CloseInv, NEW k \in Closer, CloseFirst(k)
  PROVE  CloseInv'
<1> USE DEF CloseInv
<1>1. PICK c \in closing[k] : /\ Free(c) /\ once' = [once EXCEPT ![c] = k]
                              /\ BeginClose(k, c)
  BY DEF CloseFirst
<1>2. c \in Conn /\ once[c] = None /\ conn[c] \notin Untouched
  BY <1>1 DEF Free, CloseTypes, Closed
<1>3. /\ UNCHANGED <<adapter, conn, nextID, id, closing, open, early, seen, mu>>
      /\ DOMAIN connections' = DOMAIN connections \ {id[c]}
      /\ \A i \in DOMAIN connections' : connections'[i] = connections[i]
  BY <1>1 DEF CloseFirst, BeginClose, remove, boxVars
<1>4. k # None /\ k # "done"
  BY Closers
<1>5. CloseTypes'
  BY <1>1, <1>2, <1>3 DEF CloseTypes
<1>6. ASSUME NEW i \in DOMAIN connections' PROVE connections[i] # c
  BY <1>3 DEF Mapped
<1>7. Mapped'
  BY <1>1, <1>2, <1>3, <1>4, <1>6 DEF Mapped, CloseTypes, Untouched
<1>8. Closed'
  <2>1. ASSUME NEW d \in Conn
        PROVE  /\ once'[d] = IF d = c THEN k ELSE once[d]
               /\ (once'[d] = "done" <=> once[d] = "done")
    BY <1>1, <1>2, <1>4, Closers DEF CloseTypes
  <2>2. \A d \in Conn : conn'[d] \in Untouched => once'[d] = None
    BY <1>2, <1>3, <2>1 DEF Closed
  <2>3. \A j \in Closer : \A d \in closing'[j] : conn'[d] \notin Untouched
    BY <1>3 DEF Closed
  <2>4. \A d \in Conn : conn'[d] # "none" /\ once'[d] # "done" => d \in open'
    BY <1>3, <2>1 DEF Closed
  <2>5. \A d \in Conn : once'[d] = "done" => d \notin open' \/ d \in early'
    BY <1>3, <2>1 DEF Closed
  <2>6. QED
    BY <2>2, <2>3, <2>4, <2>5 DEF Closed, Untouched
<1>9. Saw'
  BY <1>1, <1>2, <1>3, Closers DEF Saw, CloseTypes
<1>10. QED
  BY <1>5, <1>7, <1>8, <1>9

LEMMA CloseThenStep ==
  ASSUME CloseInv, NEW k \in Closer, CloseThen(k)
  PROVE  CloseInv'
<1> USE DEF CloseInv
<1>1. PICK c \in closing[k] : /\ once[c] = k /\ Underneath(c)
                              /\ once' = [once EXCEPT ![c] = "done"]
                              /\ closing' = [closing EXCEPT ![k] = @ \ {c}]
                              /\ mu' \subseteq mu /\ connections' = connections
  BY DEF CloseThen, EndClose, Left
<1>2. c \in Conn /\ once[c] # None /\ conn[c] \notin Untouched
  BY <1>1, Closers DEF CloseTypes, Closed
<1>3. UNCHANGED <<adapter, conn, nextID, id, seen>>
  BY DEF CloseThen, boxVars
<1>4. /\ open' \subseteq open /\ early \subseteq early' /\ early' \subseteq early \cup {c}
      /\ open \ open' \subseteq {c} /\ (c \notin open' \/ c \in early')
  BY <1>1 DEF Underneath
<1>5. CloseTypes'
  BY <1>1, <1>2, <1>3, <1>4 DEF CloseTypes
<1>6. Mapped'
  BY <1>1, <1>2, <1>3, Closers DEF Mapped, CloseTypes
<1>7. Closed'
  BY <1>1, <1>2, <1>3, <1>4, Closers DEF Closed, CloseTypes
<1>8. Saw'
  BY <1>1, <1>2, <1>3, Closers DEF Saw, CloseTypes
<1>9. QED
  BY <1>5, <1>6, <1>7, <1>8

(* A closer takes up work: the whole map, one connection, or its own.      *)
LEMMA TakeUp ==
  ASSUME CloseInv, NEW k \in Closer, k # "stop", NEW work \in SUBSET Conn,
         \A c \in work : conn[c] \notin Untouched,
         closing' = [closing EXCEPT ![k] = work],
         UNCHANGED <<adapter, nextID, id, connections, once, open, early, seen, mu, conn>>
  PROVE  CloseInv'
<1>1. CloseTypes'
  BY DEF CloseInv, CloseTypes
<1>2. Mapped'
  BY DEF CloseInv, Mapped
<1>3. Closed'
  BY DEF CloseInv, Closed, CloseTypes
<1>4. Saw'
  BY Closers DEF CloseInv, Saw, CloseTypes
<1>5. QED
  BY <1>1, <1>2, <1>3, <1>4 DEF CloseInv

LEMMA TrackedIsTouched ==
  CloseInv => Tracked \subseteq Conn /\ \A c \in Tracked : conn[c] \notin Untouched /\ once[c] = None
BY DEF CloseInv, Mapped, Tracked

LEMMA ConnStep ==
  ASSUME CloseInv, NEW c \in Conn,
         Accept(c) \/ RoutedConnection(c) \/ Transfer(c) \/ WrappedClose(c)
  PROVE  CloseInv'
<1> USE DEF CloseInv
<1>1. CASE Accept(c)
  <2>1. /\ conn[c] = "none" /\ conn' = [conn EXCEPT ![c] = "accepted"] /\ open' = open \cup {c}
        /\ UNCHANGED <<adapter, nextID, id, connections, once, closing, early, seen, mu>>
    BY <1>1 DEF Accept, boxVars
  <2>2. once[c] = None
    BY <2>1 DEF Closed, Untouched
  <2>3. CloseTypes'
    BY <2>1 DEF CloseTypes
  <2>4. Mapped'
    BY <2>1 DEF Mapped, CloseTypes, Untouched
  <2>5. Closed'
    BY <2>1, <2>2, Closers DEF Closed, CloseTypes, Untouched
  <2>6. Saw'
    BY <2>1 DEF Saw
  <2>7. QED
    BY <2>3, <2>4, <2>5, <2>6
<1>2. CASE RoutedConnection(c)
  <2>1. /\ conn[c] = "added" /\ conn' = [conn EXCEPT ![c] = "wrapped"]
        /\ UNCHANGED <<adapter, nextID, id, connections, once, closing, open, early, seen, mu>>
    BY <1>2 DEF RoutedConnection, boxVars, closeVars
  <2>2. CloseTypes'
    BY <2>1 DEF CloseTypes
  <2>3. Mapped'
    BY <2>1 DEF Mapped, CloseTypes, Untouched
  <2>4. Closed'
    BY <2>1 DEF Closed, CloseTypes, Untouched
  <2>5. Saw'
    BY <2>1 DEF Saw
  <2>6. QED
    BY <2>2, <2>3, <2>4, <2>5
<1>3. CASE Transfer(c)
  BY <1>3 DEF Transfer, boxVars, closeVars, CloseTypes, Mapped, Closed, Saw
<1>4. CASE WrappedClose(c)
  <2>1. /\ conn[c] = "wrapped" /\ conn' = [conn EXCEPT ![c] = "done"]
        /\ closing' = [closing EXCEPT ![c] = {c}]
        /\ UNCHANGED <<adapter, nextID, id, connections, once, open, early, seen, mu>>
    BY <1>4 DEF WrappedClose, boxVars
  <2>2. c # "stop" /\ c \in Closer
    BY Closers
  <2>3. CloseTypes'
    BY <2>1, <2>2 DEF CloseTypes
  <2>4. Mapped'
    BY <2>1 DEF Mapped, CloseTypes, Untouched
  <2>5. Closed'
    BY <2>1, <2>2 DEF Closed, CloseTypes, Untouched
  <2>6. Saw'
    BY <2>1, <2>2, Closers DEF Saw, CloseTypes
  <2>7. QED
    BY <2>3, <2>4, <2>5, <2>6
<1>5. QED
  BY <1>1, <1>2, <1>3, <1>4

LEMMA AdapterCloses == CloseInv /\ AdapterStep => CloseInv'
<1> SUFFICES ASSUME CloseInv, AdapterStep PROVE CloseInv'
  OBVIOUS
<1> USE DEF CloseInv
<1>1. CASE Stop
  <2>1. /\ adapter' = "closing all" /\ seen' = Tracked
        /\ closing' = [closing EXCEPT !["stop"] = Tracked]
        /\ UNCHANGED <<conn, nextID, id, connections, once, open, early, mu>>
    BY <1>1 DEF Stop, Snapshot
  <2>2. CloseTypes'
    BY <2>1, TrackedIsTouched, Closers DEF CloseTypes
  <2>3. Mapped'
    BY <2>1 DEF Mapped, Untouched
  <2>4. Closed'
    BY <2>1, TrackedIsTouched, Closers DEF Closed, CloseTypes, Untouched
  <2>5. Saw'
    BY <2>1, Closers DEF Saw, CloseTypes
  <2>6. QED
    BY <2>2, <2>3, <2>4, <2>5
<1>2. CASE ~Stop
  <2>1. UNCHANGED closeVarsAll
    BY <1>2 DEF AdapterStep, NewBoxFails, MakeCache, newBox, StartBox, UndoStart, CloseBox,
                ResetTraffic, unchangedTracker, closeVarsAll, closeVars
  <2>2. Saw'
    <3>1. CASE CloseBox
      BY <2>1, <3>1 DEF CloseBox, AllClosed, Saw, closeVarsAll, closeVars
    <3>2. CASE ResetTraffic
      BY <2>1, <3>2 DEF ResetTraffic, Saw, closeVarsAll, closeVars
    <3>3. CASE NewBoxFails \/ MakeCache \/ newBox \/ StartBox \/ UndoStart
      BY <2>1, <3>3 DEF NewBoxFails, MakeCache, newBox, StartBox, UndoStart, Saw
    <3>4. QED
      BY <1>2, <3>1, <3>2, <3>3 DEF AdapterStep
  <2>3. CloseTypes' /\ Mapped' /\ Closed'
    BY <2>1 DEF closeVarsAll, closeVars, CloseTypes, Mapped, Closed
  <2>4. QED
    BY <2>2, <2>3
<1>3. QED
  BY <1>1, <1>2

LEMMA CloseInvStep == CloseInv /\ [Next]_vars => CloseInv'
<1> SUFFICES ASSUME CloseInv, [Next]_vars PROVE CloseInv'
  OBVIOUS
<1>1. ASSUME NEW k \in Api, CloseAll(k) PROVE CloseInv'
  <2>1. /\ closing' = [closing EXCEPT ![k] = Tracked]
        /\ UNCHANGED <<adapter, nextID, id, connections, once, open, early, seen, mu, conn>>
    BY <1>1 DEF CloseAll, Snapshot, boxVars
  <2>2. QED
    BY <2>1, Closers, TrackedIsTouched, TakeUp
<1>2. ASSUME NEW k \in Api, NEW c \in Conn, CloseConnection(k, c) PROVE CloseInv'
  <2>1. /\ closing' = [closing EXCEPT ![k] = {c}] /\ c \in Tracked
        /\ UNCHANGED <<adapter, nextID, id, connections, once, open, early, seen, mu, conn>>
    BY <1>2 DEF CloseConnection, boxVars
  <2>2. QED
    BY <2>1, Closers, TrackedIsTouched, TakeUp
<1>3. ASSUME NEW k \in Closer, CloseLast(k) PROVE CloseInv'
  <2>1. PICK c \in closing[k] : /\ once[c] = "done" /\ closing' = [closing EXCEPT ![k] = @ \ {c}]
                                /\ mu' \subseteq mu
    BY <1>3 DEF CloseLast, Left
  <2>2. UNCHANGED <<adapter, conn, nextID, id, connections, once, open, early, seen>>
    BY <1>3 DEF CloseLast, boxVars
  <2>3. CloseTypes' /\ Mapped' /\ Closed'
    BY <2>1, <2>2 DEF CloseInv, CloseTypes, Mapped, Closed, Untouched
  <2>4. ASSUME NEW d \in seen, d \in closing["stop"] PROVE d \in closing'["stop"] \/ once[d] = "done"
    <3>1. closing \in [Closer -> SUBSET Conn] /\ "stop" \in Closer
      BY Closers DEF CloseInv, CloseTypes
    <3>2. CASE k = "stop" /\ d = c
      BY <2>1, <3>2
    <3>3. CASE k # "stop" \/ d # c
      BY <2>1, <2>4, <3>1, <3>3
    <3>4. QED
      BY <3>2, <3>3
  <2>5. Saw'
    BY <2>2, <2>4 DEF CloseInv, Saw
  <2>6. QED
    BY <2>3, <2>5 DEF CloseInv
<1>4. ASSUME NEW r \in Reader, TrafficBegin(r) \/ TrafficSnapshot(r)
      PROVE  UNCHANGED <<adapter, closeVarsAll>>
  BY <1>4 DEF TrafficBegin, TrafficSnapshot, closeVarsAll, boxVars
<1>5. CASE UNCHANGED <<adapter, closeVarsAll>>
  BY <1>5 DEF CloseInv, closeVarsAll, closeVars, CloseTypes, Mapped, Closed, Saw
<1>6. CASE UNCHANGED vars
  BY <1>5, <1>6 DEF vars, boxVars, closeVarsAll
<1>7. QED
  BY <1>1, <1>2, <1>3, <1>4, <1>5, <1>6, AdapterCloses, ConnStep, AddStep, CloseFirstStep,
     CloseThenStep DEF Next, CloseStep

LEMMA CloseHolds == Spec => []CloseInv
<1>1. Init => CloseInv
  BY Closers DEF Init, CloseInv, CloseTypes, Mapped, Closed, Saw, Untouched
<1>2. QED
  BY <1>1, CloseInvStep, PTL DEF Spec

(* However many connections are accepted, wrapped and closed side by side, *)
(* what a list shows is open, and what is open and carries traffic is      *)
(* listed, unless its closeFunc came too late.                             *)
THEOREM ListsMatch == Spec => []ListMatchesOpen
<1>1. ASSUME CloseInv PROVE ListMatchesOpen
  <2>1. ASSUME NEW c \in Tracked PROVE c \in open
    <3>1. c \in Conn /\ conn[c] \notin Untouched /\ once[c] = None
      BY <1>1, TrackedIsTouched
    <3>2. QED
      BY <1>1, <3>1, Closers DEF CloseInv, Closed, Untouched
  <2>2. ASSUME NEW c \in open, conn[c] \in {"added", "wrapped"}
        PROVE  c \in Tracked \/ c \in early \/ once[c] \in Closer
    <3>1. c \in Conn /\ once[c] \in Closer \cup {None, "done"}
      BY <1>1 DEF CloseInv, CloseTypes
    <3>2. CASE once[c] = None
      BY <1>1, <2>2, <3>1, <3>2 DEF CloseInv, Mapped, Tracked, Untouched
    <3>3. CASE once[c] = "done"
      BY <1>1, <3>1, <3>3 DEF CloseInv, Closed
    <3>4. QED
      BY <3>1, <3>2, <3>3
  <2>3. QED
    BY <2>1, <2>2 DEF ListMatchesOpen
<1>2. QED
  BY <1>1, CloseHolds, PTL

(* Whoever else closes connections beside it: when Stop has succeeded,     *)
(* every connection its CloseAll saw is closed.                            *)
THEOREM StopClosed == Spec => []StopClosesWhatItSaw
<1>1. CloseInv => StopClosesWhatItSaw
  BY DEF CloseInv, CloseTypes, Saw, Closed, StopClosesWhatItSaw
<1>2. QED
  BY <1>1, CloseHolds, PTL

-----------------------------------------------------------------------------
(* Types                                                                   *)

AdapterTypes ==
  /\ adapter \in {"new", "cache", "starting", "undoing", "failed", "started",
                  "closing all", "resetting", "stopped"}
  /\ b \in BOOLEAN /\ cache \in {"none", "made", "stuck"}
  /\ box \in {"absent", "starting", "running", "half", "closed"}

LEMMA AdapterTypesStep == AdapterTypes /\ [Next]_vars => AdapterTypes'
<1> SUFFICES ASSUME AdapterTypes, [Next]_vars PROVE AdapterTypes'
  OBVIOUS
<1> USE DEF AdapterTypes
<1>1. CASE AdapterStep
  BY <1>1 DEF AdapterStep, NewBoxFails, MakeCache, newBox, StartBox, UndoStart, Stop, CloseBox,
              ResetTraffic, CloseManaged, cleanupRuntimeCache
<1>2. CASE UNCHANGED boxVars
  BY <1>2 DEF boxVars
<1>3. ASSUME NEW c \in Conn, \/ Accept(c) \/ addConnection(c) \/ RoutedConnection(c)
                             \/ Transfer(c) \/ WrappedClose(c)
      PROVE  UNCHANGED boxVars
  BY <1>3 DEF Accept, addConnection, RoutedConnection, Transfer, WrappedClose
<1>4. ASSUME NEW k \in Closer, \/ CloseAll(k) \/ \E c \in Conn : CloseConnection(k, c)
                               \/ CloseStep(k)
      PROVE  UNCHANGED boxVars
  BY <1>4 DEF CloseAll, CloseConnection, CloseStep, CloseFirst, CloseThen, CloseLast
<1>5. ASSUME NEW r \in Reader, TrafficBegin(r) \/ TrafficSnapshot(r) PROVE UNCHANGED boxVars
  BY <1>5 DEF TrafficBegin, TrafficSnapshot
<1>6. CASE UNCHANGED vars
  BY <1>2, <1>6 DEF vars
<1>7. QED
  BY <1>1, <1>2, <1>3, <1>4, <1>5, <1>6 DEF Next, Closer

(* Every variable of the adapter and of its tracker keeps its type, for    *)
(* any number of connections and readers.                                  *)
THEOREM TypeCorrect == Spec => []TypeOK
<1>1. Init => AdapterTypes
  BY DEF Init, AdapterTypes
<1>2. Spec => []AdapterTypes
  BY <1>1, AdapterTypesStep, PTL DEF Spec
<1>3. AdapterTypes /\ TrafficInv /\ CloseInv => TypeOK
  BY TrackedIsTouched DEF AdapterTypes, TrafficInv, CloseInv, CloseTypes, TypeOK
<1>4. QED
  BY <1>2, <1>3, TrafficHolds, CloseHolds, PTL
=============================================================================

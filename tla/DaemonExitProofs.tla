--------------------------- MODULE DaemonExitProofs ---------------------------
(***************************************************************************)
(* Theorems about the qkbox process: how it ends (DaemonExit), for any     *)
(* number of connections, and that it is the only one of its user          *)
(* (UserLock), for any set of processes and any bound on the files.        *)
(***************************************************************************)
EXTENDS DaemonExit, UserLock, TLAPS

-----------------------------------------------------------------------------
(* The end of the process                                                  *)

(* The clean-up comes after Serve, and Serve after the last handler.        *)
Inv ==
  /\ TypeOK
  /\ cleanup # "pending" => serve = "returned"
  /\ serve = "returned" => Idle

(* main, the menu and the tray: none of them touches the server.           *)
LEMMA MainStep ==
  ASSUME Inv, Signal \/ Menu \/ Ending \/ ShutdownGivesUp \/ TrayEnds
  PROVE  Inv'
<1> USE DEF Inv, TypeOK, mainVars, contexts, serverVars, Idle, RequestExit
<1>1. CASE Signal
  BY <1>1 DEF Signal
<1>2. CASE MenuCall
  BY <1>2 DEF MenuCall
<1>3. CASE MenuReturns
  BY <1>3 DEF MenuReturns
<1>4. CASE MenuGone
  BY <1>4 DEF MenuGone
<1>5. CASE Quit
  BY <1>5 DEF Quit
<1>6. CASE SignalSeen
  BY <1>6 DEF SignalSeen
<1>7. CASE DaemonEnded
  BY <1>7 DEF DaemonEnded
<1>8. CASE ShutdownReturns
  BY <1>8 DEF ShutdownReturns
<1>9. CASE Leave
  BY <1>9 DEF Leave
<1>10. CASE ShutdownGivesUp
  BY <1>10 DEF ShutdownGivesUp
<1>11. CASE TrayEnds
  BY <1>11 DEF TrayEnds
<1>12. QED
  BY <1>1, <1>2, <1>3, <1>4, <1>5, <1>6, <1>7, <1>8, <1>9, <1>10, <1>11 DEF Menu, Ending

(* The server and what follows it, in their order.                         *)
LEMMA ClosingStep ==
  ASSUME Inv, Closing \/ AcceptFails
  PROVE  Inv'
<1> USE DEF Inv, TypeOK, mainVars, contexts, serverVars, Idle
<1>1. CASE CloseListener
  BY <1>1 DEF CloseListener
<1>2. CASE StopAccepting
  BY <1>2 DEF StopAccepting
<1>3. CASE ServeReturns
  BY <1>3 DEF ServeReturns
<1>4. CASE CloseService
  BY <1>4 DEF CloseService
<1>5. CASE Release
  BY <1>5 DEF Release
<1>6. QED
  BY <1>1, <1>2, <1>3, <1>4, <1>5 DEF Closing, AcceptEnds, AcceptFails

(* A connection moves only while Serve has not returned: to be anything but *)
(* idle afterwards it would have to be accepted.                           *)
LEMMA ConnStep ==
  ASSUME Inv, NEW c \in Conn, Client(c) \/ Handler(c)
  PROVE  Inv'
<1> DEFINE Busy == {"reading", "handling", "replying", "streaming", "sending"}
<1>1. PICK to \in {"none"} \cup Busy :
        /\ conn' = [conn EXCEPT ![c] = to]
        /\ conn[c] \in Busy \/ serve = "accepting"
        /\ UNCHANGED <<mainVars, contexts, listener, serve, cleanup>>
  BY DEF Client, Handler, Connect, Send, Receive, HangUp, Handled, Event, StreamEnds, Move
<1>2. serve # "returned"
  BY <1>1 DEF Inv, Idle
<1>3. QED
  BY <1>1, <1>2 DEF Inv, TypeOK, mainVars, contexts

LEMMA InvHolds == Spec => []Inv
<1>1. Init => Inv
  BY DEF Init, Inv, TypeOK, Idle
<1>2. Inv /\ [Next]_vars => Inv'
  <2> SUFFICES ASSUME Inv, [Next]_vars PROVE Inv'
    OBVIOUS
  <2>1. CASE UNCHANGED vars
    BY <2>1 DEF vars, Inv, TypeOK, Idle
  <2>2. QED
    BY <2>1, MainStep, ClosingStep, ConnStep DEF Next
<1>3. QED
  BY <1>1, <1>2, PTL DEF Spec

(* Types, and the tray's goroutines only where there is a tray.            *)
THEOREM TypeCorrect == Spec => []TypeOK
<1>1. Inv => TypeOK
  BY DEF Inv
<1>2. QED
  BY <1>1, InvHolds, PTL

(* However many clients there are and whatever they do, the service is     *)
(* closed under no handler.                                                *)
THEOREM CleanUpFindsNoHandler == Spec => []ClosesWhenIdle
<1>1. Inv => ClosesWhenIdle
  BY DEF Inv, ClosesWhenIdle
<1>2. QED
  BY <1>1, InvHolds, PTL

-----------------------------------------------------------------------------
(* The user lock                                                           *)

USE MaxFileAssumption

(* Strengthens OnlyOverlapAdmitsTwo: flock gives each file to one process, *)
(* and as long as no start overlaps a release every open file is the one   *)
(* at the path, and none is open while that is about to be removed.        *)
LockInv ==
  /\ LockTypeOK
  /\ \A p, q \in Process : Locks(p) /\ Locks(q) /\ file[p] = file[q] => p = q
  /\ ~overlap => \A p \in Process : file[p] # 0 => file[p] = path
  /\ ~overlap /\ Releasing => \A p \in Process : file[p] = 0

(* No step of a process locks a file that another has locked, and none but *)
(* the steps that overlap names parts an open file from the path.          *)
LEMMA LockStep == LockInv /\ [LockNext]_lockVars => LockInv'
<1> SUFFICES ASSUME LockInv, [LockNext]_lockVars PROVE LockInv'
  OBVIOUS
<1> USE DEF LockInv, LockTypeOK, Points, Files, Goto, CloseFile, Locks, Releasing
<1>1. ASSUME NEW p \in Process, Open(p) PROVE LockInv'
  <2>1. path' \in Files \ {0} /\ created' \in Files
    BY <1>1 DEF Open
  <2>2. /\ file' = [file EXCEPT ![p] = path']
        /\ pc' = [pc EXCEPT ![p] = "opened"] /\ pc[p] = "out"
    BY <1>1 DEF Open
  <2>3. overlap' \in BOOLEAN /\ (~overlap' => ~overlap /\ ~Releasing)
    BY <1>1 DEF Open
  <2>4. LockTypeOK'
    BY <2>1, <2>2, <2>3
  <2>5. ~overlap' => ~Releasing' /\ \A q \in Process : file'[q] # 0 => file'[q] = path'
    <3>1. path # 0 => path' = path
      BY <1>1 DEF Open
    <3>2. QED
      BY <2>2, <2>3, <3>1
  <2>6. \A q, r \in Process : Locks(q)' /\ Locks(r)' /\ file'[q] = file'[r] => q = r
    BY <2>2
  <2>7. QED
    BY <2>4, <2>5, <2>6
<1>2. ASSUME NEW p \in Process, Lock(p) PROVE LockInv'
  BY <1>2 DEF Lock, Locked
<1>3. ASSUME NEW p \in Process, WritePid(p) PROVE LockInv'
  BY <1>3 DEF WritePid
<1>4. ASSUME NEW p \in Process, GiveUp(p) \/ Die(p) PROVE LockInv'
  BY <1>4 DEF GiveUp, Die
<1>5. ASSUME NEW p \in Process, Unlock(p) PROVE LockInv'
  <2>1. LockTypeOK'
    BY <1>5 DEF Unlock
  <2>2. ~overlap' => ~overlap /\ \A q \in Process : file'[q] = 0
    BY <1>5 DEF Unlock
  <2>3. \A q, r \in Process : Locks(q)' /\ Locks(r)' /\ file'[q] = file'[r] => q = r
    BY <1>5 DEF Unlock
  <2>4. QED
    BY <2>1, <2>2, <2>3
<1>6. ASSUME NEW p \in Process, Remove(p) PROVE LockInv'
  BY <1>6 DEF Remove
<1>7. CASE UNCHANGED lockVars
  BY <1>7 DEF lockVars
<1>8. QED
  BY <1>1, <1>2, <1>3, <1>4, <1>5, <1>6, <1>7 DEF LockNext, Step

LEMMA LockHolds == LockSpec => []LockInv
<1>1. LockInit => LockInv
  <2> SUFFICES ASSUME LockInit PROVE LockInv
    OBVIOUS
  <2> USE DEF LockInit
  <2>1. \A p \in Process : pc[p] = "out" /\ file[p] = 0
    OBVIOUS
  <2>2. 0 \in Files /\ "out" \in Points
    BY DEF Files, Points
  <2>3. pc \in [Process -> Points] /\ file \in [Process -> Files]
    BY <2>2
  <2>4. LockTypeOK
    BY <2>1, <2>2, <2>3 DEF LockTypeOK
  <2>5. QED
    BY <2>1, <2>4 DEF LockInv, Locks, Releasing
<1>2. QED
  BY <1>1, LockStep, PTL DEF LockSpec

(* Types, and a process has a file open exactly where it should.           *)
THEOREM LockTypeCorrect == LockSpec => []LockTypeOK
<1>1. LockInv => LockTypeOK
  BY DEF LockInv
<1>2. QED
  BY <1>1, LockHolds, PTL

(* Over any number of processes, starts, exits, crashes and files, two     *)
(* processes hold the user lock only after a start that overlapped the     *)
(* unlock and removal of a release (lock.go:53-57).                        *)
THEOREM OnlyOverlapIsUnsafe == LockSpec => []OnlyOverlapAdmitsTwo
<1>1. LockInv => OnlyOverlapAdmitsTwo
  <2> SUFFICES ASSUME LockInv, ~overlap,
                      NEW p \in Process, NEW q \in Process, pc[p] = "held", pc[q] = "held"
               PROVE  p = q
    BY DEF OnlyOverlapAdmitsTwo, MutualExclusion
  <2>1. file[p] = path /\ file[q] = path
    BY DEF LockInv, LockTypeOK
  <2>2. QED
    BY <2>1 DEF LockInv, Locks
<1>2. QED
  BY <1>1, LockHolds, PTL
=============================================================================

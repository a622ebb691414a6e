------------------------------- MODULE UserLock -------------------------------
(***************************************************************************)
(* The lock that keeps a user to one daemon (core/qkboxd/lock.go): a file  *)
(* in the state directory, locked with flock and removed on the way out.   *)
(*                                                                         *)
(* flock locks the file that a process has opened, not its name.  A file   *)
(* is what was created by one open of the path; once removed it is no      *)
(* longer there for others to open, but those that have it open keep it.   *)
(***************************************************************************)
EXTENDS Naturals

CONSTANTS
  Process,    \* the processes of one user that run the daemon
  MaxFile     \* bound: how many files are created at the path

ASSUME MaxFileAssumption == MaxFile \in Nat

VARIABLES
  path,       \* the file at the path, 0 without one
  created,    \* how many files have been created there
  pc,         \* how far each process has come
  file,       \* the file each process has open, 0 without one
  overlap     \* history: whether a start has overlapped a release

lockVars == <<path, created, pc, file, overlap>>

Files == 0..MaxFile
Points == {"out", "opened", "locked", "held", "removing", "refused"}

LockTypeOK ==
  /\ path \in Files /\ created \in Files
  /\ pc \in [Process -> Points]
  /\ file \in [Process -> Files]
  /\ \A p \in Process : pc[p] \in {"opened", "locked", "held"} <=> file[p] # 0
  /\ overlap \in BOOLEAN

LockInit ==
  /\ path = 0 /\ created = 0
  /\ pc = [p \in Process |-> "out"]
  /\ file = [p \in Process |-> 0]
  /\ overlap = FALSE

Goto(p, point) == pc' = [pc EXCEPT ![p] = point]
CloseFile(p) == file' = [file EXCEPT ![p] = 0]

\* Somebody has unlocked the lock file and not removed it yet.
Releasing == \E q \in Process : pc[q] = "removing"

\* Whoever has locked a file keeps the lock until it unlocks or closes it.
Locks(p) == pc[p] \in {"locked", "held"}
Locked(f) == \E q \in Process : Locks(q) /\ file[q] = f

\* Variant: takes the file that is there for one left by a crash.
OpenAfresh(p) ==
  /\ pc[p] = "out" /\ created < MaxFile
  /\ created' = created + 1 /\ path' = created'
  /\ file' = [file EXCEPT ![p] = path']
  /\ Goto(p, "opened")
  /\ overlap' = (overlap \/ Releasing)

Open(p) ==
  /\ pc[p] = "out"
  /\ IF path = 0
       THEN created < MaxFile /\ created' = created + 1 /\ path' = created'
       ELSE UNCHANGED <<path, created>>
  /\ file' = [file EXCEPT ![p] = path']
  /\ Goto(p, "opened")
  /\ overlap' = (overlap \/ Releasing)

Lock(p) ==
  /\ pc[p] = "opened"
  /\ IF Locked(file[p]) THEN Goto(p, "refused") /\ CloseFile(p)
     ELSE Goto(p, "locked") /\ UNCHANGED file
  /\ UNCHANGED <<path, created, overlap>>

WritePid(p) ==
  /\ pc[p] = "locked"
  /\ Goto(p, "held")
  /\ UNCHANGED <<path, created, file, overlap>>

\* Truncate or Seek fails.
GiveUp(p) ==
  /\ pc[p] = "locked"
  /\ Goto(p, "out") /\ CloseFile(p)
  /\ UNCHANGED <<path, created, overlap>>

\* Release, and a failed write of the pid: unlock and close come first.
Unlock(p) ==
  /\ Locks(p)
  /\ Goto(p, "removing") /\ CloseFile(p)
  /\ overlap' = (overlap \/ \E q \in Process \ {p} : file[q] # 0)
  /\ UNCHANGED <<path, created>>

Remove(p) ==
  /\ pc[p] = "removing"
  /\ path' = 0
  /\ Goto(p, "out")
  /\ UNCHANGED <<created, file, overlap>>

\* A process ends, refused or by a crash; the system closes its files.
Die(p) ==
  /\ pc[p] # "out"
  /\ Goto(p, "out") /\ CloseFile(p)
  /\ UNCHANGED <<path, created, overlap>>

Step(p) ==
  \/ Open(p) \/ Lock(p) \/ WritePid(p) \/ GiveUp(p)
  \/ Unlock(p) \/ Remove(p) \/ Die(p)

LockNext == \E p \in Process : Step(p)

LockSpec == LockInit /\ [][LockNext]_lockVars

-----------------------------------------------------------------------------
\* What AcquireUserLock's message says, that qkbox already runs for this user.
MutualExclusion ==
  \A p, q \in Process : pc[p] = "held" /\ pc[q] = "held" => p = q

(* Two processes come to hold the lock only if a start has overlapped a    *)
(* release: it opened the file before the removal, and the release         *)
(* unlocked it after that or had done so already.  In every other order    *)
(* of starts, refused and failed starts, clean exits and crashes, with as  *)
(* many files created one after the other as there are exits, one daemon   *)
(* at the most holds the lock; a file left by a crash is used again.       *)
OnlyOverlapAdmitsTwo == overlap \/ MutualExclusion

=============================================================================

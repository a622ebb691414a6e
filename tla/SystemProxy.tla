----------------------------- MODULE SystemProxy -----------------------------
(***************************************************************************)
(* The operating system's proxy setting and qkboxd's owner record for it   *)
(* (proxy_owner.go, platform_service.go, platform/capability).  The record *)
(* is a row of the settings table: it says which address qkboxd has put    *)
(* into the setting, and what to put back.                                 *)
(*                                                                         *)
(* A setting consists of several keys, written one after the other.  A     *)
(* write that stops half way leaves what was there, all of the new         *)
(* setting, Mixed, neither the one nor the other, or Stray: keys left by   *)
(* an earlier write that failed, or by a setting switched off, now make up *)
(* an address of qkbox again, be it the record's or an older one.          *)
(* ProxyPlatform has the keys.  A crash in the middle of a write is such a *)
(* failure, and a crash after it.                                          *)
(***************************************************************************)
EXTENDS QkboxdConstants

VARIABLES
  os,        \* the proxy setting of the operating system
  record     \* the proxy owner record

Snapshots == Setting \cup Address \cup {Mixed, Stray}
Records == [snapshot: Snapshots, addr: Address]

ASSUME RecordAssumption == None \notin Records

ProxyTypeOK ==
  /\ os \in Snapshots
  /\ record \in Records \cup {None}

ProxyInit == os \in Setting /\ record = None

\* proxyOwnerMatches, of a record that exists: a stray address may be its own.
Matches == os \in {record.addr, Stray}
Differs == os # record.addr

\* What a failed Apply or Restore of s leaves.
Partly(s) == IF "half" \in Faults THEN {os, Mixed, Stray, s} ELSE {os}

Write(s) == os' = s /\ UNCHANGED record

WriteFails(s) ==
  /\ "os" \in Faults
  /\ os' \in Partly(s)
  /\ UNCHANGED record

\* deleteProxyOwner, its error ignored.
Forget ==
  /\ \/ record' = None
     \/ "write" \in Faults /\ UNCHANGED record
  /\ UNCHANGED os

Save(r) == record' = r /\ UNCHANGED os
=============================================================================

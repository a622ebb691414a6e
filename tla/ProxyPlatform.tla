---------------------------- MODULE ProxyPlatform ----------------------------
(***************************************************************************)
(* The proxy setting of four desktops, key by key (platform/capability).   *)
(* SystemProxy takes a setting for one value and says that a write of it   *)
(* may stop half way; here are the keys, the order in which Apply and      *)
(* Restore write them with a command or a registry call each, and how      *)
(* CurrentState tells from the keys whether qkbox is in place.             *)
(*                                                                         *)
(* A user may change the setting between any two writes, and the network   *)
(* may move to another interface, which on macOS has keys of its own, or   *)
(* be without one.  A crash is a write that fails with nobody left to      *)
(* answer it.  Snapshot and CurrentState take their keys in one step.      *)
(***************************************************************************)
EXTENDS Naturals, Sequences

CONSTANTS
  Desktop,     \* the desktops to look at
  Address,     \* the ports qkbox listens on, one after the other
  Interface,   \* network interfaces
  None         \* a value that is not there, no port

ASSUME DesktopAssumption == Desktop \subseteq {"gnome", "kde", "mac", "windows"}

VARIABLES
  desktop,   \* the one this is
  iface,     \* the interface of the default route, None without one
  keys,      \* the setting
  snapshot,  \* what Restore is to give back: keys and the interface
  call       \* the Apply or Restore at work

vars == <<desktop, iface, keys, snapshot, call>>

Own(a) == [host |-> "loopback", port |-> a]
Corp == [host |-> "corp", port |-> "8080"]
Nowhere == [host |-> "", port |-> "0"]
Endpoint == {Own(a) : a \in Address} \cup {Corp, Nowhere}

\* What the keys hold beside hosts and ports.
Text == {"none", "manual", "auto", "0", "1", "2", "", "pac"}

ASSUME NoneAssumption ==
  /\ None \notin Address \cup Interface \cup Text /\ None \notin Endpoint
  /\ None \notin [enabled: {"Yes", "No"}, at: Endpoint]

-----------------------------------------------------------------------------
(* The keys of each desktop, and what users put into them.                 *)

Off(e) == [enabled |-> "No", at |-> e]
On(e) == [enabled |-> "Yes", at |-> e]
IsOn(p) == p.enabled = "Yes"

Gnome(mode, e) ==
  [k \in {<<"http", "host">>, <<"http", "port">>, <<"https", "host">>,
          <<"https", "port">>, <<"proxy", "mode">>} |->
     CASE k[2] = "host" -> e.host [] k[2] = "port" -> e.port [] OTHER -> mode]

Kde(type, e) ==
  [k \in {<<"kde", "type">>, <<"kde", "http">>, <<"kde", "https">>} |->
     IF k[2] = "type" THEN type ELSE e]

Mac(web, secure) ==
  [k \in Interface \X {"web", "secure"} |-> IF k[2] = "web" THEN web ELSE secure]

Windows(enable, server, detect, url) ==
  [k \in {<<"win", "enable">>, <<"win", "server">>, <<"win", "detect">>, <<"win", "url">>} |->
     CASE k[2] = "enable" -> enable [] k[2] = "server" -> server
       [] k[2] = "detect" -> detect [] OTHER -> url]

UserSettings ==
  CASE desktop = "gnome" -> {Gnome("none", Nowhere), Gnome("none", Corp),
                             Gnome("manual", Corp), Gnome("auto", Nowhere)}
    [] desktop = "kde" -> {Kde(None, None), Kde("0", Corp), Kde("1", Corp), Kde("2", None)}
    [] desktop = "mac" -> {Mac(Off(Nowhere), Off(Nowhere)), Mac(On(Corp), On(Corp)),
                             Mac(Off(Corp), On(Corp))}
    [] desktop = "windows" -> {Windows(None, None, None, None), Windows("0", Corp, "1", None),
                               Windows("1", Corp, "0", ""), Windows("0", None, "0", "pac")}

-----------------------------------------------------------------------------
(* Reading the setting                                                     *)

\* GNOME has a value for every key.
gsettingsGet(k) == keys[k]

\* Where a snapshot looks a value up: None if the file does not have it.
readKDEConfigValue(k) == keys[k]

\* Where CurrentState looks it up: None is an empty text, and nowhere.
kreadconfig(k) == keys[k]
parseKDEProxyEndpoint(v) == IF v = None THEN Nowhere ELSE v

\* An interface has the two proxies, on or off.
readProxyState(i, p) == keys[<<i, p>>]

\* None if the registry does not have the value.
readDWORDValue(name) == keys[<<"win", name>>]
readStringValue(name) == keys[<<"win", name>>]

\* networksetup knows an interface by the name of its hardware port.
activeInterface == iface
Online == desktop = "mac" => activeInterface # None

\* What a snapshot keeps: every key, there or not; on macOS those of the
\* active interface.
snapshotGNOME == [k \in DOMAIN keys |-> gsettingsGet(k)]
snapshotKDE == [k \in DOMAIN keys |-> readKDEConfigValue(k)]
snapshotDarwin ==
  [k \in {activeInterface} \X {"web", "secure"} |-> readProxyState(k[1], k[2])]
snapshotWindows ==
  Windows(readDWORDValue("enable"), readStringValue("server"),
          readDWORDValue("detect"), readStringValue("url"))

Saved ==
  CASE desktop = "gnome" -> snapshotGNOME [] desktop = "kde" -> snapshotKDE
    [] desktop = "mac" -> snapshotDarwin  [] desktop = "windows" -> snapshotWindows

NoCall == [op |-> "none", at |-> "idle", todo |-> <<>>, port |-> None, alone |-> "yes"]

Init ==
  /\ desktop \in Desktop
  /\ iface \in Interface
  /\ keys \in UserSettings
  /\ snapshot = [keys |-> Saved, iface |-> iface]
  /\ call = NoCall

-----------------------------------------------------------------------------
(* What Apply and Restore write, in their order.                           *)

gnomeWrites(httpHost, httpPort, httpsHost, httpsPort, mode) ==
  << <<<<"http", "host">>, httpHost>>, <<<<"http", "port">>, httpPort>>,
     <<<<"https", "host">>, httpsHost>>, <<<<"https", "port">>, httpsPort>>,
     <<<<"proxy", "mode">>, mode>> >>

applyGNOME(e) == gnomeWrites(e.host, e.port, e.host, e.port, "manual")

restoreGNOME(s) ==
  gnomeWrites(s[<<"http", "host">>], s[<<"http", "port">>],
              s[<<"https", "host">>], s[<<"https", "port">>], s[<<"proxy", "mode">>])

applyKDE(e) ==
  << <<<<"kde", "http">>, e>>, <<<<"kde", "https">>, e>>, <<<<"kde", "type">>, "1">> >>

\* A value that was not there is deleted.
restoreKDE(s) ==
  << <<<<"kde", "type">>, s[<<"kde", "type">>]>>, <<<<"kde", "http">>, s[<<"kde", "http">>]>>,
     <<<<"kde", "https">>, s[<<"kde", "https">>]>> >>

\* Setting a proxy switches it on.
applyDarwin(e) ==
  << <<<<activeInterface, "web">>, On(e)>>, <<<<activeInterface, "secure">>, On(e)>> >>

\* Variant: restores whatever interface is active now.
restoreDarwinActive(s, i) ==
  [j \in 1..2 |-> LET p == <<"web", "secure">>[j] IN
     <<<<IF iface = None THEN i ELSE iface, p>>, IF IsOn(s[<<i, p>>]) THEN s[<<i, p>>] ELSE None>>]

\* A proxy that was off is only switched off again (value None).
restoreDarwin(s, i) ==
  [j \in 1..2 |-> LET p == <<"web", "secure">>[j] IN
     <<<<i, p>>, IF IsOn(s[<<i, p>>]) THEN s[<<i, p>>] ELSE None>>]

windowsWrites(enable, server, detect, url) ==
  << <<<<"win", "enable">>, enable>>, <<<<"win", "server">>, server>>,
     <<<<"win", "detect">>, detect>>, <<<<"win", "url">>, url>> >>

\* Variant: leaves the automatic configuration alone.
applyWindowsManualOnly(e) ==
  << <<<<"win", "enable">>, "1">>, <<<<"win", "server">>, e>>, <<<<"win", "detect">>, "0">> >>

applyWindows(e) == windowsWrites("1", e, "0", "")

restoreWindows(s) ==
  windowsWrites(s[<<"win", "enable">>], s[<<"win", "server">>],
                s[<<"win", "detect">>], s[<<"win", "url">>])

Apply(e) ==
  CASE desktop = "gnome" -> applyGNOME(e)     [] desktop = "kde" -> applyKDE(e)
    [] desktop = "mac" -> applyDarwin(e)      [] desktop = "windows" -> applyWindows(e)

Restore(s) ==
  CASE desktop = "gnome" -> restoreGNOME(s.keys)
    [] desktop = "kde" -> restoreKDE(s.keys)
    [] desktop = "mac" -> restoreDarwin(s.keys, s.iface)
    [] desktop = "windows" -> restoreWindows(s.keys)

-----------------------------------------------------------------------------
(* CurrentState: where the enabled proxy is, Nowhere if there is none that  *)
(* is the same for http and https, None if it cannot tell.                 *)

\* Variant: looks at http alone.
currentStateGNOMEHttp ==
  IF gsettingsGet(<<"proxy", "mode">>) = "manual"
    THEN [host |-> gsettingsGet(<<"http", "host">>), port |-> gsettingsGet(<<"http", "port">>)]
    ELSE Nowhere

currentStateGNOME ==
  IF /\ gsettingsGet(<<"proxy", "mode">>) = "manual"
     /\ gsettingsGet(<<"http", "host">>) = gsettingsGet(<<"https", "host">>)
     /\ gsettingsGet(<<"http", "port">>) = gsettingsGet(<<"https", "port">>)
    THEN [host |-> gsettingsGet(<<"http", "host">>), port |-> gsettingsGet(<<"http", "port">>)]
    ELSE Nowhere

currentStateKDE ==
  LET http == parseKDEProxyEndpoint(kreadconfig(<<"kde", "http">>))
      https == parseKDEProxyEndpoint(kreadconfig(<<"kde", "https">>)) IN
  IF /\ kreadconfig(<<"kde", "type">>) = "1"
     /\ http.host # "" /\ http = https
    THEN http ELSE Nowhere

currentStateDarwin ==
  IF activeInterface = None THEN None
  ELSE LET web == readProxyState(activeInterface, "web")
           secure == readProxyState(activeInterface, "secure") IN
       IF IsOn(web) /\ web = secure THEN web.at ELSE Nowhere

\* A value that cannot be read counts as zero or empty.
currentStateWindows ==
  IF /\ readDWORDValue("enable") = "1"
     /\ readDWORDValue("detect") \in {"0", None}
     /\ readStringValue("url") \in {"", None}
     /\ readStringValue("server") # None
    THEN readStringValue("server") ELSE Nowhere

CurrentState ==
  CASE desktop = "gnome" -> currentStateGNOME [] desktop = "kde" -> currentStateKDE
    [] desktop = "mac" -> currentStateDarwin  [] desktop = "windows" -> currentStateWindows

-----------------------------------------------------------------------------
(* The calls, as qkboxd makes them one at a time, and the world around.    *)

Quiet == call.at # "writing"

\* qkboxd takes it of a setting that is a user's (ProxyPromise), no half of one.
Snapshot ==
  /\ Quiet /\ Online
  /\ keys \in UserSettings
  /\ snapshot' = [keys |-> Saved, iface |-> iface]
  /\ call' = NoCall
  /\ UNCHANGED <<desktop, iface, keys>>

Begin(op, writes, port) ==
  /\ Quiet
  /\ call' = [op |-> op, at |-> "writing", todo |-> writes, port |-> port, alone |-> "yes"]
  /\ UNCHANGED <<desktop, iface, keys, snapshot>>

BeginApply(a) == Online /\ Begin("apply", Apply(Own(a)), a)

\* There is no interface to apply it to.
ApplyOffline(a) ==
  /\ Quiet /\ ~Online
  /\ call' = [op |-> "apply", at |-> "failed", todo |-> <<>>, port |-> a, alone |-> "yes"]
  /\ UNCHANGED <<desktop, iface, keys, snapshot>>

BeginRestore == Begin("restore", Restore(snapshot), None)

Written(k, v) ==
  IF desktop = "mac" /\ v = None THEN Off(keys[k].at) ELSE v

WriteKey ==
  /\ call.at = "writing"
  /\ LET write == Head(call.todo) IN
       keys' = [keys EXCEPT ![write[1]] = Written(write[1], write[2])]
  /\ call' = [call EXCEPT !.todo = Tail(@), !.at = IF Len(call.todo) = 1 THEN "done" ELSE @]
  /\ UNCHANGED <<desktop, iface, snapshot>>

WriteFails ==
  /\ call.at = "writing"
  /\ call' = [call EXCEPT !.at = "failed", !.todo = <<>>]
  /\ UNCHANGED <<desktop, iface, keys, snapshot>>

Disturbed == call' = [call EXCEPT !.alone = "no"]

UserChooses ==
  /\ keys' \in UserSettings
  /\ Disturbed
  /\ UNCHANGED <<desktop, iface, snapshot>>

Roam ==
  /\ iface' \in (Interface \cup {None}) \ {iface}
  /\ Disturbed
  /\ UNCHANGED <<desktop, keys, snapshot>>

Next ==
  \/ Snapshot \/ BeginRestore \/ WriteKey \/ WriteFails \/ UserChooses \/ Roam
  \/ \E a \in Address : BeginApply(a) \/ ApplyOffline(a)

Spec == Init /\ [][Next]_vars

-----------------------------------------------------------------------------
(* What the keys mean to the programs that read them: the way of http and  *)
(* of https.                                                               *)

Direct == [way |-> "direct", at |-> Nowhere]
AutoWay == [way |-> "auto", at |-> Nowhere]
Through(e) == IF e = None THEN Direct ELSE [way |-> "proxy", at |-> e]
Switched(p) == IF IsOn(p) THEN Through(p.at) ELSE Direct

Effective(s, i) ==
  CASE desktop = "gnome" ->
         (CASE s[<<"proxy", "mode">>] = "manual" ->
                 <<Through([host |-> s[<<"http", "host">>], port |-> s[<<"http", "port">>]]),
                   Through([host |-> s[<<"https", "host">>], port |-> s[<<"https", "port">>]])>>
            [] s[<<"proxy", "mode">>] = "auto" -> <<AutoWay, AutoWay>>
            [] OTHER -> <<Direct, Direct>>)
    [] desktop = "kde" ->
         (CASE s[<<"kde", "type">>] = "1" ->
                 <<Through(s[<<"kde", "http">>]), Through(s[<<"kde", "https">>])>>
            [] s[<<"kde", "type">>] = "2" -> <<AutoWay, AutoWay>>
            [] OTHER -> <<Direct, Direct>>)
    [] desktop = "mac" -> <<Switched(s[<<i, "web">>]), Switched(s[<<i, "secure">>])>>
    [] desktop = "windows" ->
         (CASE s[<<"win", "detect">>] = "1" \/ s[<<"win", "url">>] = "pac" -> <<AutoWay, AutoWay>>
            [] s[<<"win", "enable">>] = "1" ->
                 <<Through(s[<<"win", "server">>]), Through(s[<<"win", "server">>])>>
            [] OTHER -> <<Direct, Direct>>)

(* Whatever writes have failed and whatever users did in between, qkboxd    *)
(* takes an address for its own only if http and https really go there: it *)
(* never gives back a setting over one that is half a user's.              *)
RecognisedIsWhole ==
  \A a \in Address :
    CurrentState = Own(a) => Effective(keys, iface) = <<Through(Own(a)), Through(Own(a))>>

(* An Apply that succeeded is recognised, whatever was there before: an     *)
(* automatic configuration, another address, the rest of a failed write.   *)
(* Otherwise the next start-up would leave a dead proxy behind.            *)
AppliedIsRecognised ==
  call.op = "apply" /\ call.at = "done" /\ call.alone = "yes" => CurrentState = Own(call.port)

(* A Restore that succeeded gives back the ways of the snapshot, whatever   *)
(* failed applies and restores have left in the keys, and on the interface *)
(* the snapshot was taken of, wherever the network has moved since.        *)
RestoredIsGivenBack ==
  call.op = "restore" /\ call.at = "done" /\ call.alone = "yes"
    => Effective(keys, snapshot.iface) = Effective(snapshot.keys, snapshot.iface)

=============================================================================

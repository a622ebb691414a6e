-------------------------- MODULE ProxyPlatformProofs --------------------------
(***************************************************************************)
(* Theorems about ProxyPlatform, for all ports, any number of interfaces   *)
(* and whatever writes fail and users do.                                  *)
(***************************************************************************)
EXTENDS ProxyPlatform, SequenceTheorems, TLAPS

USE DesktopAssumption, NoneAssumption

(* An address of qkbox is no other endpoint and no missing value.          *)
LEMMA OwnIsOwn ==
  \A a \in Address : Own(a) \in Endpoint /\ Own(a) # None /\ Own(a) # Nowhere
  BY DEF Own, Endpoint, Nowhere

-----------------------------------------------------------------------------
(* Reading                                                                 *)

(* What CurrentState takes for qkbox's is all qkbox's, whatever the keys   *)
(* are.                                                                    *)
LEMMA Recognised == desktop \in Desktop => RecognisedIsWhole
<1> SUFFICES ASSUME desktop \in Desktop, NEW a \in Address, CurrentState = Own(a)
             PROVE  Effective(keys, iface) = <<Through(Own(a)), Through(Own(a))>>
  BY DEF RecognisedIsWhole
<1> USE OwnIsOwn
<1>1. CASE desktop = "gnome"
  <2>1. /\ keys[<<"proxy", "mode">>] = "manual"
        /\ [host |-> keys[<<"http", "host">>], port |-> keys[<<"http", "port">>]] = Own(a)
        /\ [host |-> keys[<<"https", "host">>], port |-> keys[<<"https", "port">>]] = Own(a)
    BY <1>1 DEF CurrentState, currentStateGNOME, gsettingsGet
  <2>2. QED
    BY <1>1, <2>1 DEF Effective
<1>2. CASE desktop = "kde"
  <2>1. /\ keys[<<"kde", "type">>] = "1"
        /\ keys[<<"kde", "http">>] = Own(a) /\ keys[<<"kde", "https">>] = Own(a)
    BY <1>2 DEF CurrentState, currentStateKDE, kreadconfig, parseKDEProxyEndpoint
  <2>2. QED
    BY <1>2, <2>1 DEF Effective
<1>3. CASE desktop = "mac"
  <2>1. \A p \in {"web", "secure"} : IsOn(keys[<<iface, p>>]) /\ keys[<<iface, p>>].at = Own(a)
    BY <1>3 DEF CurrentState, currentStateDarwin, readProxyState, activeInterface
  <2>2. QED
    BY <1>3, <2>1 DEF Effective, Switched
<1>4. CASE desktop = "windows"
  <2>1. /\ keys[<<"win", "enable">>] = "1" /\ keys[<<"win", "server">>] = Own(a)
        /\ keys[<<"win", "detect">>] \in {"0", None} /\ keys[<<"win", "url">>] \in {"", None}
    BY <1>4 DEF CurrentState, currentStateWindows, readDWORDValue, readStringValue
  <2>2. QED
    BY <1>4, <2>1 DEF Effective, Text
<1>5. QED
  BY <1>1, <1>2, <1>3, <1>4

-----------------------------------------------------------------------------
(* The keys and the calls                                                  *)

Hosts == {"loopback", "corp", ""}
Ports == Address \cup {"8080", "0"}
Switches == [enabled: {"Yes", "No"}, at: Endpoint]

Keys ==
  CASE desktop = "gnome" -> {<<"http", "host">>, <<"http", "port">>, <<"https", "host">>,
                             <<"https", "port">>, <<"proxy", "mode">>}
    [] desktop = "kde" -> {<<"kde", "type">>, <<"kde", "http">>, <<"kde", "https">>}
    [] desktop = "mac" -> Interface \X {"web", "secure"}
    [] desktop = "windows" -> {<<"win", "enable">>, <<"win", "server">>, <<"win", "detect">>,
                               <<"win", "url">>}

Values ==
  CASE desktop = "gnome" -> Text \cup Hosts \cup Ports
    [] desktop = "mac" -> Switches
    [] OTHER -> Text \cup Endpoint \cup {None}

\* What a write is given: on macOS also nothing, to switch off.
Inputs == IF desktop = "mac" THEN Switches \cup {None} ELSE Values

\* The keys that a snapshot has.
SavedKeys == IF desktop = "mac" THEN {snapshot.iface} \X {"web", "secure"} ELSE Keys

TypeOK ==
  /\ desktop \in Desktop
  /\ iface \in Interface \cup {None}
  /\ keys \in [Keys -> Values]
  /\ snapshot.keys \in [SavedKeys -> Values]
  /\ desktop = "mac" => snapshot.iface \in Interface
  /\ call \in [op: {"none", "apply", "restore"}, at: {"idle", "writing", "done", "failed"},
              todo: Seq(Keys \X Inputs), port: Address \cup {None}, alone: {"yes", "no"}]

\* Writes of different keys, at least one.
IsPlan(w) ==
  /\ w \in Seq(Keys \X Inputs) /\ Len(w) > 0
  /\ \A i, j \in 1..Len(w) : i # j => w[i][1] # w[j][1]

(* Whatever users choose has the keys and the values of the desktop.       *)
LEMMA UserSettingsTyped == desktop \in Desktop => UserSettings \subseteq [Keys -> Values]
<1> SUFFICES ASSUME desktop \in Desktop, NEW s \in UserSettings PROVE s \in [Keys -> Values]
  OBVIOUS
<1>1. CASE desktop = "gnome"
  BY <1>1 DEF UserSettings, Gnome, Keys, Values, Text, Hosts, Ports, Nowhere, Corp
<1>2. CASE desktop = "kde"
  BY <1>2 DEF UserSettings, Kde, Keys, Values, Text, Endpoint
<1>3. CASE desktop = "mac"
  BY <1>3 DEF UserSettings, Mac, Keys, Values, Switches, Endpoint, On, Off
<1>4. CASE desktop = "windows"
  BY <1>4 DEF UserSettings, Windows, Keys, Values, Text, Endpoint
<1>5. QED
  BY <1>1, <1>2, <1>3, <1>4

(* A snapshot keeps what is there.                                         *)
LEMMA SavedTyped ==
  ASSUME desktop \in Desktop, keys \in [Keys -> Values], desktop = "mac" => iface \in Interface
  PROVE  Saved \in [IF desktop = "mac" THEN {iface} \X {"web", "secure"} ELSE Keys -> Values]
<1>1. CASE desktop = "gnome"
  BY <1>1 DEF Saved, snapshotGNOME, gsettingsGet
<1>2. CASE desktop = "kde"
  BY <1>2 DEF Saved, snapshotKDE, readKDEConfigValue
<1>3. CASE desktop = "mac"
  BY <1>3 DEF Saved, snapshotDarwin, readProxyState, activeInterface, Keys
<1>4. CASE desktop = "windows"
  BY <1>4 DEF Saved, snapshotWindows, Windows, readDWORDValue, readStringValue, Keys
<1>5. QED
  BY <1>1, <1>2, <1>3, <1>4

(* How a plan of few writes is recognised.                                 *)
LEMMA ShortPlans ==
  ASSUME NEW S, NEW a \in S, NEW b \in S, NEW c \in S, NEW d \in S, NEW e \in S
  PROVE  /\ <<a, b>> \in Seq(S) /\ <<a, b, c>> \in Seq(S)
         /\ <<a, b, c, d>> \in Seq(S) /\ <<a, b, c, d, e>> \in Seq(S)
  OBVIOUS

(* What Apply is about to write.                                           *)
LEMMA ApplyIsPlan ==
  ASSUME desktop \in Desktop, iface \in Interface \cup {None}, Online, NEW a \in Address
  PROVE  IsPlan(Apply(Own(a)))
<1> DEFINE e == Own(a)
           S == Keys \X Inputs
<1>a. e \in Endpoint /\ e.host \in Hosts /\ e.port \in Ports
  BY OwnIsOwn DEF Own, Hosts, Ports
<1>b. SUFFICES IsPlan(Apply(e))
  OBVIOUS
<1> HIDE DEF e
<1>1. CASE desktop = "gnome"
  <2> DEFINE hh == <<<<"http", "host">>, e.host>>
             hp == <<<<"http", "port">>, e.port>>
             sh == <<<<"https", "host">>, e.host>>
             sp == <<<<"https", "port">>, e.port>>
             mode == <<<<"proxy", "mode">>, "manual">>
  <2>1. Apply(e) = <<hh, hp, sh, sp, mode>>
    BY <1>1 DEF Apply, applyGNOME, gnomeWrites
  <2>2. hh \in S /\ hp \in S /\ sh \in S /\ sp \in S /\ mode \in S
    BY <1>1, <1>a DEF Keys, Inputs, Values, Text
  <2>3. \A i, j \in 1..5 : i # j => <<hh, hp, sh, sp, mode>>[i][1] # <<hh, hp, sh, sp, mode>>[j][1]
    OBVIOUS
  <2> HIDE DEF hh, hp, sh, sp, mode, S
  <2>4. <<hh, hp, sh, sp, mode>> \in Seq(S)
    BY <2>2, ShortPlans
  <2>5. QED
    BY <2>1, <2>3, <2>4 DEF IsPlan, S
<1>2. CASE desktop = "kde"
  <2> DEFINE http == <<<<"kde", "http">>, e>>
             https == <<<<"kde", "https">>, e>>
             type == <<<<"kde", "type">>, "1">>
  <2>1. Apply(e) = <<http, https, type>>
    BY <1>2 DEF Apply, applyKDE
  <2>2. http \in S /\ https \in S /\ type \in S
    BY <1>2, <1>a DEF Keys, Inputs, Values, Text
  <2>3. \A i, j \in 1..3 : i # j => <<http, https, type>>[i][1] # <<http, https, type>>[j][1]
    OBVIOUS
  <2> HIDE DEF http, https, type, S
  <2>4. <<http, https, type>> \in Seq(S)
    BY <2>2, ShortPlans
  <2>5. QED
    BY <2>1, <2>3, <2>4 DEF IsPlan, S
<1>3. CASE desktop = "mac"
  BY <1>3, <1>a DEF IsPlan, Apply, Inputs, Keys, Values, applyDarwin, Online, activeInterface, On,
               Switches
<1>4. CASE desktop = "windows"
  <2> DEFINE enable == <<<<"win", "enable">>, "1">>
             server == <<<<"win", "server">>, e>>
             detect == <<<<"win", "detect">>, "0">>
             url == <<<<"win", "url">>, "">>
  <2>1. Apply(e) = <<enable, server, detect, url>>
    BY <1>4 DEF Apply, applyWindows, windowsWrites
  <2>2. enable \in S /\ server \in S /\ detect \in S /\ url \in S
    BY <1>4, <1>a DEF Keys, Inputs, Values, Text
  <2>3. /\ enable[1] # server[1] /\ enable[1] # detect[1] /\ enable[1] # url[1]
        /\ server[1] # detect[1] /\ server[1] # url[1] /\ detect[1] # url[1]
    OBVIOUS
  <2> DEFINE w == <<enable, server, detect, url>>
  <2> HIDE DEF enable, server, detect, url, S
  <2>4. w \in Seq(S)
    BY <2>2, ShortPlans
  <2>5. \A i, j \in 1..4 : i # j => w[i][1] # w[j][1]
    BY <2>3
  <2>6. QED
    BY <2>1, <2>4, <2>5 DEF IsPlan, S
<1>5. QED
  BY <1>1, <1>2, <1>3, <1>4

(* What Restore is about to write.                                         *)
LEMMA RestoreIsPlan ==
  ASSUME TypeOK
  PROVE  IsPlan(Restore(snapshot))
<1> USE DEF IsPlan, Restore, Inputs, Keys, Values, TypeOK, SavedKeys
<1>1. CASE desktop = "gnome"
  BY <1>1 DEF restoreGNOME, gnomeWrites
<1>2. CASE desktop = "kde"
  BY <1>2 DEF restoreKDE
<1>3. CASE desktop = "mac"
  BY <1>3 DEF restoreDarwin
<1>4. CASE desktop = "windows"
  BY <1>4 DEF restoreWindows, windowsWrites
<1>5. QED
  BY <1>1, <1>2, <1>3, <1>4

-----------------------------------------------------------------------------
(* How far a call has come                                                 *)

\* What the call at work writes.
Plan == IF call.op = "apply" THEN Apply(Own(call.port)) ELSE Restore(snapshot)

\* A write has had its effect and nobody has undone it.
Landed(write) ==
  IF desktop = "mac" /\ write[2] = None
    THEN ~IsOn(keys[write[1]])
    ELSE keys[write[1]] = write[2]

(* A call that is writing has written the first n keys of its plan; unless  *)
(* it was disturbed they are still there, and the plan is what Apply or    *)
(* Restore would make again.                                               *)
Progress ==
  call.at = "writing" =>
    \E w \in Seq(Keys \X Inputs) : \E n \in Nat :
      /\ IsPlan(w) /\ n < Len(w)
      /\ call.todo = SubSeq(w, n + 1, Len(w))
      /\ call.alone = "yes" => w = Plan /\ \A j \in 1..n : Landed(w[j])

Finished ==
  call.at = "done" /\ call.alone = "yes" => \A j \in 1..Len(Plan) : Landed(Plan[j])

Applying ==
  call.op = "apply" /\ call.at \in {"writing", "done"} =>
    call.port \in Address /\ (call.alone = "yes" => Online)

Inv == TypeOK /\ Progress /\ Finished /\ Applying

(* The keys and their values are those of the desktop, which stays.        *)
LEMMA SameDesktop ==
  desktop' = desktop => Keys' = Keys /\ Values' = Values /\ Inputs' = Inputs
  BY DEF Keys, Values, Inputs

(* The plan depends on the desktop, the interface, the snapshot and what   *)
(* the call was asked for.                                                 *)
LEMMA SamePlan ==
  ASSUME UNCHANGED <<desktop, iface, snapshot>>, call'.op = call.op, call'.port = call.port
  PROVE  Plan' = Plan
  BY DEF Plan, Apply, applyGNOME, applyKDE, applyDarwin, applyWindows, Restore, restoreGNOME,
         restoreKDE, restoreDarwin, restoreWindows, activeInterface

(* Writing one key of a plan leaves what else has landed.                  *)
LEMMA WriteLands ==
  ASSUME TypeOK, NEW w \in Seq(Keys \X Inputs), IsPlan(w), NEW n \in Nat, n < Len(w),
         desktop' = desktop,
         keys' = [keys EXCEPT ![w[n + 1][1]] = Written(w[n + 1][1], w[n + 1][2])]
  PROVE  /\ keys' \in [Keys -> Values]
         /\ \A j \in 1..n : Landed(w[j]) => Landed(w[j])'
         /\ Landed(w[n + 1])'
<1>1. w[n + 1] \in Keys \X Inputs
  OBVIOUS
<1>2. w[n + 1][1] \in Keys /\ w[n + 1][2] \in Inputs
  BY <1>1
<1>3. Written(w[n + 1][1], w[n + 1][2]) \in Values
  BY <1>2 DEF Written, Inputs, Values, TypeOK, Switches, Off
<1>4. \A j \in 1..n : w[j] \in Keys \X Inputs /\ w[j][1] # w[n + 1][1]
  <2> SUFFICES ASSUME NEW j \in 1..n PROVE w[j] \in Keys \X Inputs /\ w[j][1] # w[n + 1][1]
    OBVIOUS
  <2>1. j \in 1..Len(w) /\ n + 1 \in 1..Len(w) /\ j # n + 1
    OBVIOUS
  <2>2. QED
    BY <2>1 DEF IsPlan
<1>5. Landed(w[n + 1])'
  BY <1>2 DEF Landed, Written, TypeOK, IsOn, Off
<1>6. \A j \in 1..n : Landed(w[j]) => Landed(w[j])'
  BY <1>4 DEF Landed, TypeOK
<1>7. QED
  BY <1>2, <1>3, <1>5, <1>6 DEF TypeOK

(* A call that begins has everything still to do.                          *)
LEMMA BeginStep ==
  ASSUME TypeOK, NEW op \in {"apply", "restore"}, NEW port \in Address \cup {None}, NEW w,
         IsPlan(w), Begin(op, w, port),
         w = IF op = "apply" THEN Apply(Own(port)) ELSE Restore(snapshot),
         op = "apply" => port \in Address /\ Online
  PROVE  Inv'
<1>1. w = SubSeq(w, 1, Len(w)) /\ w \in Seq(Keys \X Inputs)
  BY SubSeqFull DEF IsPlan
<1>2. TypeOK'
  BY <1>1, SameDesktop DEF Begin, TypeOK, SavedKeys
<1>3. Plan' = w
  <2>1. UNCHANGED <<desktop, iface, snapshot>> /\ call'.op = op /\ call'.port = port
    BY DEF Begin
  <2>2. CASE op = "apply"
    <3>1. Own(call.port)' = Own(port)
      BY <2>1 DEF Own
    <3>2. CASE desktop = "gnome"
      BY <2>1, <2>2, <3>1, <3>2 DEF Plan, Apply, applyGNOME
    <3>3. CASE desktop = "kde"
      BY <2>1, <2>2, <3>1, <3>3 DEF Plan, Apply, applyKDE
    <3>4. CASE desktop = "mac"
      BY <2>1, <2>2, <3>1, <3>4 DEF Plan, Apply, applyDarwin, activeInterface
    <3>5. CASE desktop = "windows"
      BY <2>1, <2>2, <3>1, <3>5 DEF Plan, Apply, applyWindows
    <3>6. QED
      BY <3>2, <3>3, <3>4, <3>5 DEF TypeOK
  <2>3. CASE op = "restore"
    BY <2>1, <2>3 DEF Plan, Restore, restoreGNOME, restoreKDE, restoreDarwin, restoreWindows
  <2>4. QED
    BY <2>2, <2>3
<1>4. Progress'
  <2>1. IsPlan(w)'
    BY SameDesktop DEF IsPlan, Begin
  <2>2. w' = w /\ w \in Seq(Keys \X Inputs)'
    BY <1>1, SameDesktop DEF Begin
  <2>3. /\ call'.todo = w /\ Plan' = w /\ Len(w) > 0 /\ Len(w) \in Nat
        /\ w = SubSeq(w, 0 + 1, Len(w))
    BY <1>1, <1>3 DEF Begin, IsPlan
  <2>4. \A j \in 1..0 : Landed(w[j])'
    OBVIOUS
  <2>5. QED
    BY <2>1, <2>2, <2>3, <2>4 DEF Progress
<1>5. Finished' /\ Applying'
  BY DEF Finished, Applying, Begin, Online, activeInterface
<1>6. QED
  BY <1>2, <1>4, <1>5 DEF Inv

(* Each write of a call brings it one key further in its plan, the last    *)
(* one to its end.                                                         *)
LEMMA WriteStep == Inv /\ WriteKey => Inv'
<1> SUFFICES ASSUME Inv, WriteKey PROVE Inv'
  OBVIOUS
<1>1. PICK w \in Seq(Keys \X Inputs), n \in Nat :
        /\ IsPlan(w) /\ n < Len(w)
        /\ call.todo = SubSeq(w, n + 1, Len(w))
        /\ call.alone = "yes" => w = Plan /\ \A j \in 1..n : Landed(w[j])
  BY DEF Inv, Progress, WriteKey
<1>2. Head(call.todo) = w[n + 1] /\ Tail(call.todo) = SubSeq(w, n + 2, Len(w))
  <2>1. w \in Seq(Keys \X Inputs) /\ n + 1 \in 1..Len(w) /\ Len(w) \in (n + 1)..Len(w)
    BY <1>1
  <2>2. /\ Head(SubSeq(w, n + 1, Len(w))) = w[n + 1]
        /\ Tail(SubSeq(w, n + 1, Len(w))) = SubSeq(w, (n + 1) + 1, Len(w))
    BY <2>1, HeadTailOfSubSeq
  <2>3. (n + 1) + 1 = n + 2
    OBVIOUS
  <2>4. QED
    BY <1>1, <2>2, <2>3
<1>3. Len(call.todo) = Len(w) - n
  BY <1>1, SubSeqProperties
<1>4. /\ UNCHANGED <<desktop, iface, snapshot>>
      /\ keys' = [keys EXCEPT ![w[n + 1][1]] = Written(w[n + 1][1], w[n + 1][2])]
  BY <1>2 DEF WriteKey
<1>5. /\ keys' \in [Keys -> Values]
      /\ \A j \in 1..n : Landed(w[j]) => Landed(w[j])'
      /\ Landed(w[n + 1])'
  BY <1>1, <1>4, WriteLands DEF Inv
<1>6. /\ call'.todo = SubSeq(w, n + 2, Len(w)) /\ call'.op = call.op /\ call'.port = call.port
      /\ call'.alone = call.alone /\ call'.at = IF n + 1 = Len(w) THEN "done" ELSE "writing"
  <2>1. Len(call.todo) = 1 <=> n + 1 = Len(w)
    BY <1>1, <1>3
  <2>2. call'.at = IF Len(call.todo) = 1 THEN "done" ELSE "writing"
    BY DEF WriteKey, Inv, TypeOK
  <2>3. /\ call'.todo = Tail(call.todo) /\ call'.op = call.op /\ call'.port = call.port
        /\ call'.alone = call.alone
    BY DEF WriteKey, Inv, TypeOK
  <2>4. QED
    BY <1>2, <2>1, <2>2, <2>3
<1>7. SubSeq(w, n + 2, Len(w)) \in Seq(Keys \X Inputs)
  BY <1>1, SubSeqProperties
<1>8. TypeOK'
  <2>1. call' \in [op: {"none", "apply", "restore"}, at: {"idle", "writing", "done", "failed"},
                   todo: Seq(Keys \X Inputs), port: Address \cup {None}, alone: {"yes", "no"}]
    BY <1>6, <1>7 DEF WriteKey, Inv, TypeOK
  <2>2. QED
    BY <1>4, <1>5, <2>1, SameDesktop DEF Inv, TypeOK, SavedKeys
<1>9. Plan' = Plan
  BY <1>4, <1>6, SamePlan
<1>10. call.alone = "yes" => \A j \in 1..(n + 1) : Landed(w[j])'
  <2>1. \A j \in 1..(n + 1) : j \in 1..n \/ j = n + 1
    OBVIOUS
  <2>2. QED
    BY <1>1, <1>5, <2>1
<1>11. IsPlan(w)' /\ w \in Seq(Keys \X Inputs)'
  BY <1>1, <1>4, SameDesktop DEF IsPlan
<1>12. Progress'
  <2> SUFFICES ASSUME call'.at = "writing"
               PROVE  (\E v \in Seq(Keys \X Inputs) : \E m \in Nat :
                         /\ IsPlan(v) /\ m < Len(v)
                         /\ call.todo = SubSeq(v, m + 1, Len(v))
                         /\ call.alone = "yes" => v = Plan /\ \A j \in 1..m : Landed(v[j]))'
    BY DEF Progress
  <2>1. n + 1 \in Nat /\ n + 1 < Len(w) /\ call'.todo = SubSeq(w, (n + 1) + 1, Len(w))
    <3>1. (n + 1) + 1 = n + 2 /\ n + 1 # Len(w)
      BY <1>6
    <3>2. n + 1 < Len(w)
      BY <1>1, <3>1
    <3>3. QED
      BY <1>6, <3>1, <3>2
  <2>2. call'.alone = "yes" => w = Plan' /\ \A j \in 1..(n + 1) : Landed(w[j])'
    BY <1>1, <1>6, <1>9, <1>10
  <2>3. QED
    BY <1>11, <2>1, <2>2
<1>13. Finished'
  BY <1>6, <1>9, <1>10, <1>1 DEF Finished
<1>14. Applying'
  BY <1>4, <1>6 DEF Inv, Applying, Online, activeInterface, WriteKey
<1>15. QED
  BY <1>8, <1>12, <1>13, <1>14 DEF Inv

(* A call that fails, and whoever disturbs one, promises nothing more.     *)
LEMMA OtherStep ==
  ASSUME Inv, WriteFails \/ UserChooses \/ Roam
  PROVE  Inv'
<1>1. UNCHANGED desktop /\ Keys' = Keys /\ Values' = Values /\ Inputs' = Inputs
  BY SameDesktop DEF WriteFails, UserChooses, Roam
<1>2. CASE WriteFails
  <2>1. call' = [call EXCEPT !.at = "failed", !.todo = <<>>] /\ call'.at = "failed"
    BY <1>2 DEF WriteFails, Inv, TypeOK
  <2>2. TypeOK'
    <3>1. <<>> \in Seq(Keys \X Inputs)
      OBVIOUS
    <3>2. call' \in [op: {"none", "apply", "restore"}, at: {"idle", "writing", "done", "failed"},
                     todo: Seq(Keys \X Inputs), port: Address \cup {None}, alone: {"yes", "no"}]
      BY <2>1, <3>1 DEF Inv, TypeOK
    <3>3. QED
      BY <1>1, <1>2, <3>2 DEF WriteFails, Inv, TypeOK, SavedKeys
  <2>3. QED
    BY <2>1, <2>2 DEF Inv, Progress, Finished, Applying
<1>3. CASE UserChooses \/ Roam
  <2>1. /\ call'.alone = "no" /\ call'.at = call.at /\ call'.op = call.op /\ call'.port = call.port
        /\ call'.todo = call.todo
    BY <1>3 DEF UserChooses, Roam, Disturbed, Inv, TypeOK
  <2>2. keys' \in [Keys -> Values] /\ iface' \in Interface \cup {None} /\ UNCHANGED snapshot
    BY <1>3, UserSettingsTyped DEF UserChooses, Roam, Inv, TypeOK
  <2>3. TypeOK'
    BY <1>1, <1>3, <2>2 DEF UserChooses, Roam, Disturbed, Inv, TypeOK, SavedKeys
  <2>4. Progress'
    BY <1>1, <2>1 DEF Inv, Progress, IsPlan
  <2>5. QED
    BY <2>1, <2>3, <2>4 DEF Inv, Finished, Applying
<1>4. QED
  BY <1>2, <1>3

(* A snapshot is of the keys there are, on the interface there is.         *)
LEMMA SnapshotStep == Inv /\ Snapshot => Inv'
<1> SUFFICES ASSUME Inv, Snapshot PROVE Inv'
  OBVIOUS
<1>1. UNCHANGED <<desktop, iface, keys>> /\ Keys' = Keys /\ Values' = Values /\ Inputs' = Inputs
  BY SameDesktop DEF Snapshot
<1>2. call' = NoCall /\ snapshot' = [keys |-> Saved, iface |-> iface]
  BY DEF Snapshot
<1>3. desktop = "mac" => iface \in Interface
  BY DEF Snapshot, Online, activeInterface, Inv, TypeOK
<1>4. Saved \in [IF desktop = "mac" THEN {iface} \X {"web", "secure"} ELSE Keys -> Values]
  BY <1>3, SavedTyped DEF Inv, TypeOK
<1>5. snapshot'.keys \in [SavedKeys -> Values]'
  BY <1>1, <1>2, <1>4 DEF SavedKeys
<1>6. call' \in [op: {"none", "apply", "restore"}, at: {"idle", "writing", "done", "failed"},
                 todo: Seq(Keys \X Inputs), port: Address \cup {None}, alone: {"yes", "no"}]
  BY <1>2 DEF NoCall
<1>7. TypeOK'
  BY <1>1, <1>2, <1>3, <1>5, <1>6 DEF Inv, TypeOK
<1>8. QED
  BY <1>2, <1>7 DEF Inv, NoCall, Progress, Finished, Applying

(* No step leaves a call where it could not have come by its plan.         *)
LEMMA InvStep == Inv /\ [Next]_vars => Inv'
<1> SUFFICES ASSUME Inv, [Next]_vars PROVE Inv'
  OBVIOUS
<1>1. CASE BeginRestore
  <2>1. IsPlan(Restore(snapshot))
    BY RestoreIsPlan DEF Inv
  <2>2. QED
    BY <1>1, <2>1, BeginStep DEF BeginRestore, Inv
<1>2. ASSUME NEW a \in Address, BeginApply(a) PROVE Inv'
  <2>1. IsPlan(Apply(Own(a))) /\ Online
    BY <1>2, ApplyIsPlan DEF BeginApply, Inv, TypeOK
  <2>2. QED
    BY <1>2, <2>1, BeginStep DEF BeginApply, Inv
<1>3. ASSUME NEW a \in Address, ApplyOffline(a) PROVE Inv'
  <2>1. /\ UNCHANGED <<desktop, iface, keys, snapshot>>
        /\ Keys' = Keys /\ Values' = Values /\ Inputs' = Inputs
    BY <1>3, SameDesktop DEF ApplyOffline
  <2>2. call' = [op |-> "apply", at |-> "failed", todo |-> <<>>, port |-> a, alone |-> "yes"]
    BY <1>3 DEF ApplyOffline
  <2>3. call' \in [op: {"none", "apply", "restore"}, at: {"idle", "writing", "done", "failed"},
                   todo: Seq(Keys \X Inputs), port: Address \cup {None}, alone: {"yes", "no"}]
    BY <2>2
  <2>4. TypeOK'
    BY <2>1, <2>3 DEF Inv, TypeOK, SavedKeys
  <2>5. QED
    BY <2>2, <2>4 DEF Inv, Progress, Finished, Applying
<1>4. CASE UNCHANGED vars
  <2>1. Keys' = Keys /\ Values' = Values /\ Inputs' = Inputs
    BY <1>4, SameDesktop DEF vars
  <2>2. Plan' = Plan
    BY <1>4, SamePlan DEF vars
  <2>3. TypeOK'
    BY <1>4, <2>1 DEF vars, Inv, TypeOK, SavedKeys
  <2>4. Progress'
    <3> SUFFICES ASSUME call.at = "writing" PROVE Progress'
      BY <1>4 DEF vars, Progress
    <3>1. PICK w \in Seq(Keys \X Inputs), n \in Nat :
            /\ IsPlan(w) /\ n < Len(w)
            /\ call.todo = SubSeq(w, n + 1, Len(w))
            /\ call.alone = "yes" => w = Plan /\ \A j \in 1..n : Landed(w[j])
      BY DEF Inv, Progress
    <3>2. IsPlan(w)' /\ w \in Seq(Keys \X Inputs)'
      BY <2>1, <3>1 DEF IsPlan
    <3>3. \A j \in 1..n : Landed(w[j])' = Landed(w[j])
      BY <1>4 DEF vars, Landed
    <3>4. call' = call
      BY <1>4 DEF vars
    <3>5. QED
      BY <2>2, <3>1, <3>2, <3>3, <3>4 DEF Progress
  <2>5. Finished' /\ Applying'
    BY <1>4, <2>2 DEF vars, Inv, Landed, Finished, Applying, Online, activeInterface
  <2>6. QED
    BY <2>3, <2>4, <2>5 DEF Inv
<1>5. QED
  BY <1>1, <1>2, <1>3, <1>4, WriteStep, OtherStep, SnapshotStep DEF Next

(* From the start, when nothing has been called, Inv holds.                *)
LEMMA InvHolds == Spec => []Inv
<1>1. Init => Inv
  <2> SUFFICES ASSUME Init PROVE Inv
    OBVIOUS
  <2>1. desktop \in Desktop /\ iface \in Interface /\ keys \in [Keys -> Values]
    BY UserSettingsTyped DEF Init
  <2>2. snapshot.keys \in [SavedKeys -> Values] /\ snapshot.iface \in Interface
    BY <2>1, SavedTyped DEF Init, SavedKeys
  <2>3. call \in [op: {"none", "apply", "restore"}, at: {"idle", "writing", "done", "failed"},
                  todo: Seq(Keys \X Inputs), port: Address \cup {None}, alone: {"yes", "no"}]
    BY DEF Init, NoCall
  <2>4. QED
    BY <2>1, <2>2, <2>3 DEF Init, NoCall, Inv, TypeOK, Progress, Finished, Applying
<1>2. QED
  BY <1>1, InvStep, PTL DEF Spec

-----------------------------------------------------------------------------
(* What a finished call has achieved                                       *)

(* Keys that are what Apply writes are recognised.                         *)
LEMMA AppliedKeys ==
  ASSUME TypeOK, NEW a \in Address, Online,
         \A j \in 1..Len(Apply(Own(a))) : Landed(Apply(Own(a))[j])
  PROVE  CurrentState = Own(a)
<1> DEFINE e == Own(a)
<1>a. e # None /\ e.host = "loopback" /\ [host |-> e.host, port |-> e.port] = e
  BY OwnIsOwn DEF Own
<1>b. \A j \in 1..Len(Apply(e)) : Landed(Apply(e)[j])
  OBVIOUS
<1>c. SUFFICES CurrentState = e
  OBVIOUS
<1> HIDE DEF e
<1>1. CASE desktop = "gnome"
  <2>1. Apply(e) = << <<<<"http", "host">>, e.host>>, <<<<"http", "port">>, e.port>>,
                      <<<<"https", "host">>, e.host>>, <<<<"https", "port">>, e.port>>,
                      <<<<"proxy", "mode">>, "manual">> >>
    BY <1>1 DEF Apply, applyGNOME, gnomeWrites
  <2>2. \A j \in 1..5 : keys[Apply(e)[j][1]] = Apply(e)[j][2]
    BY <1>1, <1>b, <2>1 DEF Landed
  <2>3. /\ keys[<<"http", "host">>] = e.host /\ keys[<<"http", "port">>] = e.port
        /\ keys[<<"https", "host">>] = e.host /\ keys[<<"https", "port">>] = e.port
        /\ keys[<<"proxy", "mode">>] = "manual"
    BY <2>1, <2>2
  <2>4. QED
    BY <1>1, <1>a, <2>3 DEF CurrentState, currentStateGNOME, gsettingsGet
<1>2. CASE desktop = "kde"
  <2>1. Apply(e) = << <<<<"kde", "http">>, e>>, <<<<"kde", "https">>, e>>,
                      <<<<"kde", "type">>, "1">> >>
    BY <1>2 DEF Apply, applyKDE
  <2>2. \A j \in 1..3 : keys[Apply(e)[j][1]] = Apply(e)[j][2]
    BY <1>2, <1>b, <2>1 DEF Landed
  <2>3. keys[<<"kde", "http">>] = e /\ keys[<<"kde", "https">>] = e /\ keys[<<"kde", "type">>] = "1"
    BY <2>1, <2>2
  <2>4. QED
    BY <1>2, <1>a, <2>3 DEF CurrentState, currentStateKDE, kreadconfig, parseKDEProxyEndpoint
<1>3. CASE desktop = "mac"
  <2>1. Apply(e) = << <<<<iface, "web">>, On(e)>>, <<<<iface, "secure">>, On(e)>> >> /\ iface # None
    BY <1>3 DEF Apply, applyDarwin, activeInterface, Online
  <2>2. On(e) # None
    <3>1. e \in Endpoint
      BY OwnIsOwn DEF e
    <3>2. QED
      BY <3>1 DEF On
  <2>3. keys[<<iface, "web">>] = On(e) /\ keys[<<iface, "secure">>] = On(e)
    BY <1>3, <1>b, <2>1, <2>2 DEF Landed
  <2>4. QED
    BY <1>3, <2>1, <2>3 DEF CurrentState, currentStateDarwin, readProxyState, activeInterface,
                         On, IsOn
<1>4. CASE desktop = "windows"
  <2>1. Apply(e) = << <<<<"win", "enable">>, "1">>, <<<<"win", "server">>, e>>,
                      <<<<"win", "detect">>, "0">>, <<<<"win", "url">>, "">> >>
    BY <1>4 DEF Apply, applyWindows, windowsWrites
  <2>2. \A j \in 1..4 : keys[Apply(e)[j][1]] = Apply(e)[j][2]
    BY <1>4, <1>b, <2>1 DEF Landed
  <2>3. /\ keys[<<"win", "enable">>] = "1" /\ keys[<<"win", "server">>] = e
        /\ keys[<<"win", "detect">>] = "0" /\ keys[<<"win", "url">>] = ""
    <3> DEFINE w == Apply(e)
               empty == ""
               enable == <<<<"win", "enable">>, "1">>
               server == <<<<"win", "server">>, e>>
               detect == <<<<"win", "detect">>, "0">>
               url == <<<<"win", "url">>, empty>>
    <3>a. w = <<enable, server, detect, url>>
      BY <2>1
    <3> HIDE DEF enable, server, detect, url, w, empty
    <3>b. w[1] = enable /\ w[2] = server /\ w[3] = detect /\ w[4] = url
      BY <3>a
    <3>1. /\ w[1][1] = <<"win", "enable">> /\ w[1][2] = "1"
          /\ w[2][1] = <<"win", "server">> /\ w[2][2] = e
      BY <3>b DEF enable, server
    <3>2. /\ w[3][1] = <<"win", "detect">> /\ w[3][2] = "0"
          /\ w[4][1] = <<"win", "url">> /\ w[4][2] = empty
      BY <3>b DEF detect, url
    <3>3. /\ keys[w[1][1]] = w[1][2] /\ keys[w[2][1]] = w[2][2]
          /\ keys[w[3][1]] = w[3][2] /\ keys[w[4][1]] = w[4][2]
      BY <2>2 DEF w
    <3>4. QED
      BY <3>1, <3>2, <3>3 DEF empty
  <2>4. QED
    BY <1>4, <1>a, <2>3 DEF CurrentState, currentStateWindows, readDWORDValue, readStringValue
<1>5. QED
  BY <1>1, <1>2, <1>3, <1>4 DEF TypeOK

(* Keys that are what Restore writes lead where those of the snapshot did. *)
LEMMA RestoredKeys ==
  ASSUME TypeOK, \A j \in 1..Len(Restore(snapshot)) : Landed(Restore(snapshot)[j])
  PROVE  Effective(keys, snapshot.iface) = Effective(snapshot.keys, snapshot.iface)
<1> DEFINE s == snapshot.keys
           w == Restore(snapshot)
<1>1. CASE desktop = "gnome"
  <2>1. w = << <<<<"http", "host">>, s[<<"http", "host">>]>>,
               <<<<"http", "port">>, s[<<"http", "port">>]>>,
               <<<<"https", "host">>, s[<<"https", "host">>]>>,
               <<<<"https", "port">>, s[<<"https", "port">>]>>,
               <<<<"proxy", "mode">>, s[<<"proxy", "mode">>]>> >>
    BY <1>1 DEF Restore, restoreGNOME, gnomeWrites
  <2>2. \A j \in 1..5 : keys[w[j][1]] = w[j][2]
    BY <1>1, <2>1 DEF Landed
  <2>3. \A k \in Keys : keys[k] = s[k]
    BY <1>1, <2>1, <2>2 DEF Keys
  <2>4. QED
    BY <1>1, <2>3 DEF Effective, Keys
<1>2. CASE desktop = "kde"
  <2>1. w = << <<<<"kde", "type">>, s[<<"kde", "type">>]>>,
               <<<<"kde", "http">>, s[<<"kde", "http">>]>>,
               <<<<"kde", "https">>, s[<<"kde", "https">>]>> >>
    BY <1>2 DEF Restore, restoreKDE
  <2>2. \A j \in 1..3 : keys[w[j][1]] = w[j][2]
    BY <1>2, <2>1 DEF Landed
  <2>3. \A k \in Keys : keys[k] = s[k]
    BY <1>2, <2>1, <2>2 DEF Keys
  <2>4. QED
    BY <1>2, <2>3 DEF Effective, Keys
<1>3. CASE desktop = "mac"
  <2> DEFINE i == snapshot.iface
             Again(p) == IF IsOn(s[<<i, p>>]) THEN s[<<i, p>>] ELSE None
  <2>1. /\ Len(w) = 2 /\ w[1] = <<<<i, "web">>, Again("web")>>
        /\ w[2] = <<<<i, "secure">>, Again("secure")>>
    <3>1. w = [j \in 1..2 |-> <<<<i, <<"web", "secure">>[j]>>, Again(<<"web", "secure">>[j])>>]
      BY <1>3 DEF Restore, restoreDarwin
    <3> HIDE DEF w, Again
    <3>2. /\ DOMAIN w = 1..2 /\ w[1] = <<<<i, "web">>, Again("web")>>
          /\ w[2] = <<<<i, "secure">>, Again("secure")>>
      BY <3>1
    <3>3. Len(w) = 2
      BY <3>1, <3>2
    <3>4. QED
      BY <3>2, <3>3
  <2>2. \A p \in {"web", "secure"} : s[<<i, p>>] \in Switches /\ s[<<i, p>>] # None
    BY <1>3 DEF TypeOK, SavedKeys, Values, Switches
  <2>3. Landed(<<<<i, "web">>, Again("web")>>) /\ Landed(<<<<i, "secure">>, Again("secure")>>)
    BY <2>1
  <2>4. \A p \in {"web", "secure"} : Switched(keys[<<i, p>>]) = Switched(s[<<i, p>>])
    BY <1>3, <2>2, <2>3 DEF Landed, Switched
  <2>5. QED
    BY <1>3, <2>4 DEF Effective
<1>4. CASE desktop = "windows"
  <2>1. w = << <<<<"win", "enable">>, s[<<"win", "enable">>]>>,
               <<<<"win", "server">>, s[<<"win", "server">>]>>,
               <<<<"win", "detect">>, s[<<"win", "detect">>]>>,
               <<<<"win", "url">>, s[<<"win", "url">>]>> >>
    BY <1>4 DEF Restore, restoreWindows, windowsWrites
  <2>2. \A j \in 1..4 : keys[w[j][1]] = w[j][2]
    BY <1>4, <2>1 DEF Landed
  <2>3. \A k \in Keys : keys[k] = s[k]
    BY <1>4, <2>1, <2>2 DEF Keys
  <2>4. QED
    BY <1>4, <2>3 DEF Effective, Keys
<1>5. QED
  BY <1>1, <1>2, <1>3, <1>4 DEF TypeOK

(* Keys and values, snapshot and call keep their types.                    *)
THEOREM TypeCorrect == Spec => []TypeOK
<1>1. Inv => TypeOK
  BY DEF Inv
<1>2. QED
  BY <1>1, InvHolds, PTL

(* Whatever writes have failed and whatever users did in between, on every *)
(* desktop, an address is taken for qkbox's only if http and https go there. *)
THEOREM WhatIsRecognisedIsWhole == Spec => []RecognisedIsWhole
<1>1. Inv => RecognisedIsWhole
  BY Recognised DEF Inv, TypeOK
<1>2. QED
  BY <1>1, InvHolds, PTL

(* An Apply that succeeded undisturbed is recognised on every desktop,     *)
(* whatever it found in the keys.                                          *)
THEOREM WhatIsAppliedIsRecognised == Spec => []AppliedIsRecognised
<1>1. Inv => AppliedIsRecognised
  BY AppliedKeys DEF Inv, AppliedIsRecognised, Finished, Applying, Plan
<1>2. QED
  BY <1>1, InvHolds, PTL

(* A Restore that succeeded undisturbed gives back the ways of the         *)
(* snapshot, whatever it found in the keys and wherever the network is.    *)
THEOREM WhatIsRestoredIsGivenBack == Spec => []RestoredIsGivenBack
<1>1. Inv => RestoredIsGivenBack
  BY RestoredKeys DEF Inv, RestoredIsGivenBack, Finished, Plan
<1>2. QED
  BY <1>1, InvHolds, PTL
=============================================================================

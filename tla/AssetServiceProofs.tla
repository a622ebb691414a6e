-------------------------- MODULE AssetServiceProofs --------------------------
(* Theorems about AssetService, for any number of profiles, subscriptions, *)
(* assets, refreshes and texts.                                            *)
EXTENDS AssetService, TLAPS

USE RowAssumption, BadAssumption

(* What a refresh knows: its row was drawn, the profile it goes by is that *)
(* of the subscription as long as there is one, and past validation its    *)
(* text is good.                                                           *)
CallKnows(c) ==
  /\ ~At(c, "free") => call[c].row \in (Subscription \cup Asset) \cap used
  /\ At(c, "fetched") \/ At(c, "writing") \/ At(c, "renaming") \/ At(c, "cached")
       => call[c].text \in Good
  /\ At(c, "writing") \/ At(c, "renaming") \/ At(c, "cached") => call[c].row \in Asset
  /\ At(c, "cached") => cache[call[c].text] = "whole"
  /\ call[c].row \in Subscription /\ ~At(c, "free") =>
       /\ call[c].profile \in Profile
       /\ sub[call[c].row] # None => call[c].profile = sub[call[c].row].profile

(* Rows have ids that were drawn, and files appear under their final names *)
(* only when they are whole.                                               *)
Inv ==
  /\ TypeOK
  /\ \A s \in Subscription : sub[s] # None => s \in used
  /\ \A a \in Asset : asset[a] # None => a \in used
  /\ \A t \in Text : cache[t] # "part"
  /\ \A c \in Caller : CallKnows(c)
  /\ ContentIsValid
  /\ SourceHasProfile
  /\ DigestIsOfContent
  /\ KeyLeadsToContent

(* A call that moves on keeps what it knows of row, profile and text.      *)
LEMMA GotoFields ==
  ASSUME TypeOK, NEW c \in Caller, NEW point \in Points, Goto(c, point)
  PROVE  /\ call' \in [Caller -> [at: Points, row: Subscription \cup Asset \cup {None},
                                 profile: Profile \cup {None}, text: Text \cup {None}]]
         /\ At(c, point)'
         /\ call'[c].row = call[c].row /\ call'[c].profile = call[c].profile
         /\ call'[c].text = call[c].text
         /\ \A d \in Caller \ {c} : call'[d] = call[d]
  BY DEF TypeOK, Goto, At

(* A call that returns is free, and leaves the others alone.               *)
LEMMA ReturnFields ==
  ASSUME TypeOK, NEW c \in Caller, Return(c)
  PROVE  /\ call' \in [Caller -> [at: Points, row: Subscription \cup Asset \cup {None},
                                 profile: Profile \cup {None}, text: Text \cup {None}]]
         /\ At(c, "free")'
         /\ \A d \in Caller \ {c} : call'[d] = call[d]
  BY DEF TypeOK, Return, NoCall, At, Points

(* An update of a subscription changes status and digest of a row that is  *)
(* there, and nothing else.                                                *)
LEMMA UpdateSubFields ==
  ASSUME TypeOK, NEW s \in Subscription, NEW status \in {"updated", "failed"},
         NEW sha \in Text \cup {None}, UpdateSub(s, status, sha),
         status = "updated" <=> sha # None
  PROVE  /\ sub' \in [Subscription -> SubRow \cup {None}]
         /\ \A z \in Subscription \ {s} : sub'[z] = sub[z]
         /\ sub[s] = None => sub'[s] = None
         /\ sub[s] # None => /\ sub'[s].profile = sub[s].profile
                             /\ sub'[s].status = status /\ sub'[s].sha = sha
  BY DEF TypeOK, UpdateSub, SubRow

(* The same of an update of an asset.                                      *)
LEMMA UpdateAssetFields ==
  ASSUME TypeOK, NEW a \in Asset, NEW status \in {"available", "failed"},
         NEW key \in Text \cup {None}, UpdateAsset(a, status, key),
         status = "available" <=> key # None
  PROVE  /\ asset' \in [Asset -> AssetRow \cup {None}]
         /\ \A z \in Asset \ {a} : asset'[z] = asset[z]
         /\ asset[a] = None => asset'[a] = None
         /\ asset[a] # None => asset'[a].key = key
  BY DEF TypeOK, UpdateAsset, AssetRow

(* What a step of one refresh leaves to the others.                        *)
LEMMA OthersKnow ==
  ASSUME Inv, NEW d \in Caller, CallKnows(d),
         call'[d] = call[d], used \subseteq used',
         \A t \in Text : cache[t] = "whole" => cache'[t] = "whole",
         \A s \in Subscription : sub'[s] # None =>
           sub[s] # None /\ sub'[s].profile = sub[s].profile
  PROVE  CallKnows(d)'
  BY DEF CallKnows, At, Inv, TypeOK, Good

(* No edit of a user's, no step of a refresh and no crash breaks Inv.      *)
LEMMA InvStep == Inv /\ [Next]_vars => Inv'
<1> SUFFICES ASSUME Inv, [Next]_vars PROVE Inv'
  OBVIOUS
<1> USE DEF Inv, TypeOK, Row, Good, ContentIsValid, SourceHasProfile, DigestIsOfContent,
            KeyLeadsToContent
<1>1. ASSUME NEW p \in Profile, NEW t \in Text, CreateProfile(p, t) PROVE Inv'
  <2>1. \A d \in Caller : CallKnows(d)'
    BY <1>1, OthersKnow DEF CreateProfile, Draw
  <2>2. QED
    BY <1>1, <2>1 DEF CreateProfile, Draw
<1>2. ASSUME NEW p \in Profile, NEW t \in Text, SaveProfileContent(p, t) PROVE Inv'
  <2>1. /\ content[p] # None /\ t \in Good
        /\ content' = [content EXCEPT ![p] = t]
        /\ writer' = [writer EXCEPT ![p] = User]
        /\ UNCHANGED <<sub, asset, used, cache, call>>
    BY <1>2 DEF SaveProfileContent, UpdateProfileContent
  <2>2. \A d \in Caller : CallKnows(d)'
    BY <2>1, OthersKnow
  <2>3. QED
    BY <2>1, <2>2
<1>3. ASSUME NEW p \in Profile, DeleteProfile(p) PROVE Inv'
  <2>1. \A d \in Caller : CallKnows(d)'
    BY <1>3, OthersKnow DEF DeleteProfile
  <2>2. QED
    BY <1>3, <2>1 DEF DeleteProfile
<1>4. ASSUME NEW s \in Subscription, NEW p \in Profile, CreateProfileSubscription(s, p)
      PROVE  Inv'
  <2>1. \A d \in Caller : CallKnows(d)'
    BY <1>4 DEF CreateProfileSubscription, Draw, CallKnows, At
  <2>2. QED
    BY <1>4, <2>1 DEF CreateProfileSubscription, Draw, SubRow
<1>5. ASSUME NEW s \in Subscription, DeleteProfileSubscription(s) PROVE Inv'
  <2>1. \A d \in Caller : CallKnows(d)'
    BY <1>5, OthersKnow DEF DeleteProfileSubscription
  <2>2. QED
    BY <1>5, <2>1 DEF DeleteProfileSubscription
<1>6. ASSUME NEW a \in Asset, CreateDataAsset(a) PROVE Inv'
  <2>1. \A d \in Caller : CallKnows(d)'
    BY <1>6, OthersKnow DEF CreateDataAsset, Draw
  <2>2. QED
    BY <1>6, <2>1 DEF CreateDataAsset, Draw, AssetRow
<1>7. ASSUME NEW a \in Asset, DeleteDataAsset(a) PROVE Inv'
  <2>1. \A d \in Caller : CallKnows(d)'
    BY <1>7, OthersKnow DEF DeleteDataAsset
  <2>2. QED
    BY <1>7, <2>1 DEF DeleteDataAsset
<1>8. CASE Crash
  <2>1. /\ call' \in [Caller -> [at: Points, row: Subscription \cup Asset \cup {None},
                                 profile: Profile \cup {None}, text: Text \cup {None}]]
        /\ \A d \in Caller : call'[d] = NoCall
    BY <1>8 DEF Crash, NoCall, Points
  <2>2. \A d \in Caller : CallKnows(d)'
    BY <2>1 DEF CallKnows, At, NoCall
  <2>3. QED
    BY <1>8, <2>1, <2>2 DEF Crash, rows
<1>9. ASSUME NEW c \in Caller, NEW row \in (Subscription \cup Asset) \cap used,
             NEW profile \in Profile \cup {None}, BeginRefresh(c, row, profile),
             row \in Subscription =>
               profile \in Profile /\ sub[row] # None /\ profile = sub[row].profile
      PROVE  Inv'
  <2>1. CallKnows(c)'
    BY <1>9 DEF BeginRefresh, CallKnows, At, rows
  <2>2. \A d \in Caller \ {c} : CallKnows(d)'
    BY <1>9, OthersKnow DEF BeginRefresh, rows
  <2>3. call' \in [Caller -> [at: Points, row: Subscription \cup Asset \cup {None},
                              profile: Profile \cup {None}, text: Text \cup {None}]]
    BY <1>9 DEF BeginRefresh, Points
  <2>4. QED
    BY <1>9, <2>1, <2>2, <2>3 DEF BeginRefresh, rows
<1>10. ASSUME NEW c \in Caller, NEW s \in Subscription, RefreshProfileSubscription(c, s)
       PROVE  Inv'
  <2>1. /\ sub[s] # None /\ s \in used /\ sub[s].profile \in Profile
        /\ BeginRefresh(c, s, sub[s].profile)
    BY <1>10 DEF RefreshProfileSubscription, SubRow
  <2>2. QED
    BY <2>1, <1>9
<1>11. ASSUME NEW c \in Caller, NEW a \in Asset, RefreshDataAsset(c, a) PROVE Inv'
  <2>1. a \in used /\ a \notin Subscription /\ BeginRefresh(c, a, None)
    BY <1>11 DEF RefreshDataAsset
  <2>2. QED
    BY <2>1, <1>9
<1>12. ASSUME NEW c \in Caller, NEW t \in Text, Fetched(c, t) PROVE Inv'
  <2>1. CallKnows(c)'
    BY <1>12 DEF Fetched, CallKnows, At, rows
  <2>2. \A d \in Caller \ {c} : CallKnows(d)'
    BY <1>12, OthersKnow DEF Fetched, rows
  <2>3. call' \in [Caller -> [at: Points, row: Subscription \cup Asset \cup {None},
                              profile: Profile \cup {None}, text: Text \cup {None}]]
    BY <1>12 DEF Fetched, Points
  <2>4. QED
    BY <1>12, <2>1, <2>2, <2>3 DEF Fetched, rows
<1>13. ASSUME NEW c \in Caller,
              FetchFails(c) \/ Put(c) \/ WriteTemp(c) \/ Reread(c) \/ StoreFails(c)
       PROVE  Inv'
  <2>1. /\ UNCHANGED <<rows, cache>>
        /\ \/ At(c, "fetching") /\ Goto(c, "refused")
           \/ At(c, "fetched") /\ call[c].row \in Asset /\ Goto(c, "writing")
           \/ /\ At(c, "fetched") /\ call[c].row \in Asset /\ Goto(c, "cached")
              /\ cache[call[c].text] # "none"
           \/ At(c, "writing") /\ (Goto(c, "renaming") \/ Goto(c, "refused"))
           \/ Return(c)
    BY <1>13 DEF FetchFails, Put, WriteTemp, Reread, StoreFails, Goto
  <2>2. \A d \in Caller \ {c} : CallKnows(d)'
    BY <2>1, OthersKnow, GotoFields, ReturnFields DEF rows, Points
  <2>3. CASE Return(c)
    BY <2>1, <2>2, <2>3, ReturnFields DEF rows, CallKnows, At
  <2>4. ASSUME NEW point \in {"refused", "writing", "renaming", "cached"}, Goto(c, point)
        PROVE  call' \in [Caller -> [at: Points, row: Subscription \cup Asset \cup {None},
                              profile: Profile \cup {None}, text: Text \cup {None}]]
    BY <2>4, GotoFields DEF Points
  <2>5. CASE ~Return(c)
    <3>1. CallKnows(c)'
      BY <2>1, <2>5, GotoFields DEF rows, CallKnows, At, Points
    <3>2. QED
      BY <2>1, <2>2, <2>4, <2>5, <3>1 DEF rows
  <2>6. QED
    BY <2>3, <2>5
<1>14. ASSUME NEW c \in Caller, RecordFailure(c) PROVE Inv'
  <2>1. call[c].row \in Subscription => UNCHANGED sub \/ UpdateSub(call[c].row, "failed", None)
    BY <1>14 DEF RecordFailure
  <2>2. /\ sub' \in [Subscription -> SubRow \cup {None}]
        /\ \A z \in Subscription :
             sub'[z] # None => /\ sub[z] # None /\ sub'[z].profile = sub[z].profile
                               /\ sub'[z] = sub[z] \/ sub'[z].status = "failed"
    BY <1>14, <2>1, UpdateSubFields DEF RecordFailure
  <2>3. /\ asset' \in [Asset -> AssetRow \cup {None}]
        /\ \A a \in Asset : asset'[a] # None =>
             asset[a] # None /\ (asset'[a] = asset[a] \/ asset'[a].key = None)
    <3>1. UNCHANGED asset \/ (call[c].row \in Asset /\ UpdateAsset(call[c].row, "failed", None))
      BY <1>14 DEF RecordFailure
    <3>2. QED
      BY <3>1, UpdateAssetFields
  <2>4. \A d \in Caller : CallKnows(d)'
    BY <1>14, <2>2, OthersKnow, ReturnFields DEF RecordFailure, CallKnows, At
  <2>5. TypeOK'
    BY <1>14, <2>2, <2>3, ReturnFields DEF RecordFailure
  <2>6. DigestIsOfContent'
    BY <1>14, <2>2 DEF RecordFailure
  <2>7. KeyLeadsToContent'
    BY <1>14, <2>3 DEF RecordFailure
  <2>8. QED
    BY <1>14, <2>2, <2>3, <2>4, <2>5, <2>6, <2>7 DEF RecordFailure
<1>15. ASSUME NEW c \in Caller, StoreContent(c) PROVE Inv'
  <2> DEFINE s == call[c].row
             p == call[c].profile
  <2>1. /\ s \in Subscription /\ p \in Profile /\ call[c].text \in Good
        /\ sub[s] # None => p = sub[s].profile
    BY <1>15 DEF StoreContent, CallKnows, At
  <2>2. /\ sub' \in [Subscription -> SubRow \cup {None}]
        /\ \A z \in Subscription \ {s} : sub'[z] = sub[z]
        /\ sub[s] = None => sub'[s] = None
        /\ sub[s] # None => /\ sub'[s].profile = p
                            /\ sub'[s].sha = call[c].text
    <3>1. UpdateSub(s, "updated", call[c].text) /\ call[c].text \in Text
      BY <1>15, <2>1 DEF StoreContent
    <3>2. QED
      BY <2>1, <3>1, UpdateSubFields
  <2>3. /\ content' \in [Profile -> Text \cup {None}] /\ writer' \in [Profile -> Subscription \cup {User}]
        /\ content[p] = None => UNCHANGED <<content, writer>>
        /\ content[p] # None => content'[p] = call[c].text /\ writer'[p] = s
        /\ \A q \in Profile \ {p} : content'[q] = content[q] /\ writer'[q] = writer[q]
    BY <1>15, <2>1 DEF StoreContent, UpdateProfileContent
  <2>4. CallKnows(c)'
    BY <1>15, <2>1, <2>2, GotoFields DEF StoreContent, CallKnows, At, Points
  <2>5. ASSUME NEW d \in Caller \ {c} PROVE CallKnows(d)'
    <3>1. call'[d] = call[d]
      BY <1>15, GotoFields DEF StoreContent, Points
    <3>2. QED
      BY <1>15, <2>1, <2>2, <3>1, OthersKnow DEF StoreContent
  <2>6. TypeOK'
    BY <1>15, <2>2, <2>3, GotoFields DEF StoreContent, Points
  <2>7. ContentIsValid' /\ SourceHasProfile'
    <3>1. \A q \in Profile : content'[q] \in Good \cup {None} /\ (content[q] # None => content'[q] # None)
      BY <2>1, <2>3
    <3>2. ASSUME NEW z \in Subscription, sub'[z] # None
          PROVE  /\ sub[z] # None /\ sub'[z].profile = sub[z].profile
                 /\ sub[z].profile \in Profile
      BY <2>1, <2>2, <3>2 DEF SubRow
    <3>3. QED
      BY <3>1, <3>2
  <2>8. DigestIsOfContent'
    BY <2>1, <2>2, <2>3 DEF SubRow
  <2>9. QED
    BY <1>15, <2>2, <2>4, <2>5, <2>6, <2>7, <2>8 DEF StoreContent
<1>16. ASSUME NEW c \in Caller, Rename(c) PROVE Inv'
  <2>1. call[c].text \in Text /\ call[c].row \in Asset
    BY <1>16 DEF Rename, CallKnows, At
  <2>2. /\ cache' \in [Text -> {"none", "part", "whole"}]
        /\ \A t \in Text : cache'[t] = cache[t] \/ cache'[t] = "whole"
        /\ At(c, "cached")' => cache'[call[c].text] = "whole"
    BY <1>16, <2>1, GotoFields DEF Rename, At, Points
  <2>3. CallKnows(c)'
    BY <1>16, <2>1, <2>2, GotoFields DEF Rename, rows, CallKnows, At, Points
  <2>4. \A d \in Caller \ {c} : CallKnows(d)'
    BY <1>16, <2>2, GotoFields, OthersKnow DEF Rename, rows, Points
  <2>5. QED
    BY <1>16, <2>2, <2>3, <2>4, GotoFields DEF Rename, rows, Points, AssetRow
<1>17. ASSUME NEW c \in Caller, StoreAsset(c) PROVE Inv'
  <2>1. call[c].text \in Text /\ call[c].row \in Asset /\ cache[call[c].text] = "whole"
    BY <1>17 DEF StoreAsset, CallKnows, At
  <2>2. /\ asset' \in [Asset -> AssetRow \cup {None}]
        /\ \A a \in Asset : asset'[a] # None =>
             asset[a] # None /\ (asset'[a] = asset[a] \/ asset'[a].key = call[c].text)
    <3>1. UpdateAsset(call[c].row, "available", call[c].text)
      BY <1>17 DEF StoreAsset
    <3>2. QED
      BY <2>1, <3>1, UpdateAssetFields
  <2>3. CallKnows(c)'
    BY <1>17, <2>1, GotoFields DEF StoreAsset, CallKnows, At, Points
  <2>4. \A d \in Caller \ {c} : CallKnows(d)'
    BY <1>17, GotoFields, OthersKnow DEF StoreAsset, Points
  <2>5. QED
    BY <1>17, <2>1, <2>2, <2>3, <2>4, GotoFields DEF StoreAsset, Points
<1>18. CASE UNCHANGED vars
  <2>1. \A d \in Caller : CallKnows(d)'
    BY <1>18, OthersKnow DEF vars
  <2>2. QED
    BY <1>18, <2>1 DEF vars
<1>19. QED
  BY <1>1, <1>2, <1>3, <1>4, <1>5, <1>6, <1>7, <1>8, <1>9, <1>12, <1>13, <1>14, <1>15,
     <1>16, <1>17, <1>18, <1>10, <1>11 DEF Next, Edit, Refresh

(* The invariant holds from the start and is kept.                         *)
LEMMA InvHolds == Spec => []Inv
<1>1. Init => Inv
  BY DEF Init, Inv, TypeOK, NoCall, Points, CallKnows, At, ContentIsValid, SourceHasProfile,
         DigestIsOfContent, KeyLeadsToContent
<1>2. QED
  BY <1>1, InvStep, PTL DEF Spec

(* Types, for any constants.                                               *)
THEOREM TypeCorrect == Spec => []TypeOK
<1>1. Inv => TypeOK
  BY DEF Inv
<1>2. QED
  BY <1>1, InvHolds, PTL

(* Whatever path wrote it, a stored content has passed validation.         *)
THEOREM ContentWasValidated == Spec => []ContentIsValid
<1>1. Inv => ContentIsValid
  BY DEF Inv
<1>2. QED
  BY <1>1, InvHolds, PTL

(* However profiles are deleted, no subscription outlives its profile.     *)
THEOREM NoSubscriptionAlone == Spec => []SourceHasProfile
<1>1. Inv => SourceHasProfile
  BY DEF Inv
<1>2. QED
  BY <1>1, InvHolds, PTL

(* Whatever fails, crashes and overlaps: the digest of a subscription that *)
(* says it is updated is that of the content it wrote.                     *)
THEOREM RefreshIsConsistent == Spec => []DigestIsOfContent
<1>1. Inv => DigestIsOfContent
  BY DEF Inv
<1>2. QED
  BY <1>1, InvHolds, PTL

(* Wherever daemons crash, a cache key leads to a whole file.              *)
THEOREM CacheIsWhole == Spec => []KeyLeadsToContent
<1>1. Inv => KeyLeadsToContent
  BY DEF Inv
<1>2. QED
  BY <1>1, InvHolds, PTL

(* No refresh, however late, brings back a profile, a subscription or an   *)
(* asset that was deleted: an id is drawn once, and updates change no row  *)
(* that has gone.                                                          *)
THEOREM DeletedIsFinal == Spec => DeletedStaysDeleted
<1> DEFINE Stays == /\ \A p \in Profile \cap used : content[p] = None => content'[p] = None
                    /\ \A s \in Subscription \cap used : sub[s] = None => sub'[s] = None
                    /\ \A a \in Asset \cap used : asset[a] = None => asset'[a] = None
<1>1. TypeOK /\ [Next]_vars => [Stays]_vars
  <2> SUFFICES ASSUME TypeOK, [Next]_vars PROVE Stays
    OBVIOUS
  <2>1. CASE UNCHANGED <<content, sub, asset>>
    BY <2>1
  <2>2. CASE Edit
    BY <2>2 DEF Edit, CreateProfile, SaveProfileContent, UpdateProfileContent, DeleteProfile,
                CreateProfileSubscription, DeleteProfileSubscription, CreateDataAsset,
                DeleteDataAsset, Draw, TypeOK
  <2>3. ASSUME NEW c \in Caller, RecordFailure(c) PROVE Stays
    BY <2>3 DEF RecordFailure, UpdateSub, UpdateAsset, TypeOK
  <2>4. ASSUME NEW c \in Caller, StoreContent(c) PROVE Stays
    BY <2>4 DEF StoreContent, UpdateProfileContent, UpdateSub, TypeOK
  <2>5. ASSUME NEW c \in Caller, StoreAsset(c) PROVE Stays
    BY <2>5 DEF StoreAsset, UpdateAsset, TypeOK
  <2>6. ASSUME NEW c \in Caller, Refresh(c), ~RecordFailure(c), ~StoreContent(c), ~StoreAsset(c)
        PROVE  UNCHANGED <<content, sub, asset>>
    BY <2>6 DEF Refresh, RefreshProfileSubscription, RefreshDataAsset, BeginRefresh, Fetched,
                FetchFails, Put, WriteTemp, Rename, StoreFails, Reread, rows
  <2>7. CASE Crash \/ UNCHANGED vars
    BY <2>7, <2>1 DEF Crash, rows, vars
  <2>8. QED
    BY <2>1, <2>2, <2>3, <2>4, <2>5, <2>6, <2>7 DEF Next
<1>2. QED
  BY <1>1, TypeCorrect, PTL DEF Spec, DeletedStaysDeleted
=============================================================================

----------------------------- MODULE AssetService -----------------------------
(***************************************************************************)
(* Profiles, the subscriptions that refresh their content, and the data    *)
(* assets with their file cache (core/qkboxd/profile_service.go,           *)
(* asset_service.go, internal/assetcache, the repositories).               *)
(*                                                                         *)
(* A refresh reads a row, fetches for up to minutes, stores the outcome    *)
(* and reads the row again; nothing keeps other calls from editing or      *)
(* deleting it meanwhile.  Each transaction of the database is one step;   *)
(* so is a call that only checks for a row and then writes in one          *)
(* transaction, for an update of a row that has gone changes nothing.      *)
(* Texts are whole contents, named by their digests.  What the validator   *)
(* accepts, and the names, times and URLs of rows, are left out; Qkboxd    *)
(* has the active profile.                                                 *)
(***************************************************************************)
CONSTANTS
  Profile, Subscription, Asset,   \* ids, drawn at random and never again
  Caller,                         \* the refreshes that run at the same time
  Text,                           \* what users save and servers send
  Bad,                            \* the texts that fail validation
  User,                           \* the writer of a content that is no refresh
  None

ASSUME RowAssumption ==
  /\ Profile \cap (Subscription \cup Asset) = {} /\ Subscription \cap Asset = {}
  /\ {None, User} \cap (Profile \cup Subscription \cup Asset \cup Text) = {}
ASSUME BadAssumption == Bad \subseteq Text

Good == Text \ Bad
Row == Profile \cup Subscription \cup Asset

VARIABLES
  content,   \* profiles.content, None without a row
  sub,       \* profile_subscriptions
  asset,     \* data_assets
  used,      \* the ids drawn so far
  cache,     \* the files of the cache under their final names
  call,      \* the refreshes in progress
  writer     \* history: who wrote the content of a profile last

rows == <<content, sub, asset, used, writer>>
vars == <<content, sub, asset, used, cache, call, writer>>

\* A digest or a cache key comes with a success, and goes with a failure.
SubRow == [profile: Profile, status: {"pending", "failed"}, sha: {None}]
  \cup [profile: Profile, status: {"updated"}, sha: Text]
AssetRow == [status: {"pending", "failed"}, key: {None}] \cup [status: {"available"}, key: Text]
NoCall == [at |-> "free", row |-> None, profile |-> None, text |-> None]
Points == {"free", "fetching", "refused", "fetched", "writing", "renaming", "cached", "reread"}

TypeOK ==
  /\ content \in [Profile -> Text \cup {None}]
  /\ sub \in [Subscription -> SubRow \cup {None}]
  /\ asset \in [Asset -> AssetRow \cup {None}]
  /\ used \subseteq Row
  /\ cache \in [Text -> {"none", "part", "whole"}]
  /\ call \in [Caller -> [at: Points, row: Subscription \cup Asset \cup {None},
                          profile: Profile \cup {None}, text: Text \cup {None}]]
  /\ writer \in [Profile -> Subscription \cup {User}]

Init ==
  /\ content = [p \in Profile |-> None]
  /\ sub = [s \in Subscription |-> None]
  /\ asset = [a \in Asset |-> None]
  /\ used = {}
  /\ cache = [t \in Text |-> "none"]
  /\ call = [c \in Caller |-> NoCall]
  /\ writer = [p \in Profile |-> User]

-----------------------------------------------------------------------------
(* Profiles and rows                                                       *)

Draw(id) == id \notin used /\ used' = used \cup {id}

CreateProfile(p, t) ==
  /\ Draw(p) /\ t \in Good
  /\ content' = [content EXCEPT ![p] = t]
  /\ writer' = [writer EXCEPT ![p] = User]
  /\ UNCHANGED <<sub, asset, cache, call>>

\* An update: of a profile that has gone it changes nothing.
UpdateProfileContent(p, t, by) ==
  IF content[p] = None THEN UNCHANGED <<content, writer>>
  ELSE /\ content' = [content EXCEPT ![p] = t]
       /\ writer' = [writer EXCEPT ![p] = by]

SaveProfileContent(p, t) ==
  /\ content[p] # None /\ t \in Good
  /\ UpdateProfileContent(p, t, User)
  /\ UNCHANGED <<sub, asset, used, cache, call>>

\* Its subscriptions go with it: ON DELETE CASCADE.
DeleteProfile(p) ==
  /\ content[p] # None
  /\ content' = [content EXCEPT ![p] = None]
  /\ sub' = [s \in Subscription |->
               IF sub[s] # None /\ sub[s].profile = p THEN None ELSE sub[s]]
  /\ UNCHANGED <<asset, used, cache, call, writer>>

CreateProfileSubscription(s, p) ==
  /\ Draw(s) /\ content[p] # None
  /\ sub' = [sub EXCEPT ![s] = [profile |-> p, status |-> "pending", sha |-> None]]
  /\ UNCHANGED <<content, asset, cache, call, writer>>

DeleteProfileSubscription(s) ==
  /\ sub[s] # None
  /\ sub' = [sub EXCEPT ![s] = None]
  /\ UNCHANGED <<content, asset, used, cache, call, writer>>

CreateDataAsset(a) ==
  /\ Draw(a)
  /\ asset' = [asset EXCEPT ![a] = [status |-> "pending", key |-> None]]
  /\ UNCHANGED <<content, sub, cache, call, writer>>

\* The cached file stays.
DeleteDataAsset(a) ==
  /\ asset[a] # None
  /\ asset' = [asset EXCEPT ![a] = None]
  /\ UNCHANGED <<content, sub, used, cache, call, writer>>

-----------------------------------------------------------------------------
(* RefreshProfileSubscription and RefreshDataAsset                         *)

At(c, point) == call[c].at = point
Goto(c, point) == call' = [call EXCEPT ![c].at = point]
Return(c) == call' = [call EXCEPT ![c] = NoCall]

Present(row) == IF row \in Subscription THEN sub[row] # None ELSE asset[row] # None

\* The updates of a subscription and of an asset change no row that has gone.
UpdateSub(s, status, sha) ==
  sub' = IF sub[s] = None THEN sub
         ELSE [sub EXCEPT ![s] = [profile |-> @.profile, status |-> status, sha |-> sha]]

\* Variant: inserts the row when there is none.
UpsertAsset(a, status, key) ==
  asset' = [asset EXCEPT ![a] = [status |-> status, key |-> key]]

UpdateAsset(a, status, key) ==
  asset' = IF asset[a] = None THEN asset
           ELSE [asset EXCEPT ![a] = [status |-> status, key |-> key]]

BeginRefresh(c, row, profile) ==
  /\ At(c, "free")
  /\ call' = [call EXCEPT ![c] =
       [at |-> "fetching", row |-> row, profile |-> profile, text |-> None]]
  /\ UNCHANGED <<rows, cache>>

RefreshProfileSubscription(c, s) == sub[s] # None /\ BeginRefresh(c, s, sub[s].profile)
RefreshDataAsset(c, a) == asset[a] # None /\ BeginRefresh(c, a, None)

Fetched(c, t) ==
  /\ At(c, "fetching")
  /\ call' = [call EXCEPT ![c] =
       [at |-> IF t \in Good THEN "fetched" ELSE "refused",
        row |-> @.row, profile |-> @.profile, text |-> t]]
  /\ UNCHANGED <<rows, cache>>

FetchFails(c) ==
  /\ At(c, "fetching")
  /\ Goto(c, "refused")
  /\ UNCHANGED <<rows, cache>>

\* The failure replaces digest and cache key; an error of it is ignored.
RecordFailure(c) ==
  /\ At(c, "refused")
  /\ \/ /\ call[c].row \in Subscription
        /\ UpdateSub(call[c].row, "failed", None) /\ UNCHANGED asset
     \/ /\ call[c].row \in Asset
        /\ UpdateAsset(call[c].row, "failed", None) /\ UNCHANGED sub
     \/ UNCHANGED <<sub, asset>>
  /\ Return(c)
  /\ UNCHANGED <<content, used, cache, writer>>

\* Variant: content and subscription are not written in one transaction.
StoreSeparately(c) ==
  LET s == call[c].row  p == call[c].profile IN
  /\ At(c, "fetched") /\ s \in Subscription
  /\ UpdateProfileContent(p, call[c].text, s)
  /\ \/ UpdateSub(s, "updated", call[c].text) /\ Goto(c, "reread")
     \/ Return(c) /\ UNCHANGED sub
  /\ UNCHANGED <<asset, used, cache>>

StoreContent(c) ==
  LET s == call[c].row  p == call[c].profile IN
  /\ At(c, "fetched") /\ s \in Subscription
  /\ UpdateProfileContent(p, call[c].text, s)
  /\ UpdateSub(s, "updated", call[c].text)
  /\ Goto(c, "reread")
  /\ UNCHANGED <<asset, used, cache>>

\* Variant: creates the file under its final name.
PutInPlace(c) ==
  /\ At(c, "fetched") /\ call[c].row \in Asset
  /\ IF cache[call[c].text] = "none"
       THEN Goto(c, "writing") /\ cache' = [cache EXCEPT ![call[c].text] = "part"]
       ELSE Goto(c, "cached") /\ UNCHANGED cache
  /\ UNCHANGED rows

\* Store.Put: a file that is there is taken for the content it is named by;
\* otherwise the content goes to a temporary file that nobody else knows.
Put(c) ==
  /\ At(c, "fetched") /\ call[c].row \in Asset
  /\ Goto(c, IF cache[call[c].text] = "none" THEN "writing" ELSE "cached")
  /\ UNCHANGED <<rows, cache>>

WriteTemp(c) ==
  /\ At(c, "writing")
  /\ Goto(c, "renaming") \/ Goto(c, "refused")
  /\ UNCHANGED <<rows, cache>>

Rename(c) ==
  /\ At(c, "renaming")
  /\ \/ cache' = [cache EXCEPT ![call[c].text] = "whole"] /\ Goto(c, "cached")
     \/ Goto(c, "refused") /\ UNCHANGED cache
  /\ UNCHANGED rows

StoreAsset(c) ==
  /\ At(c, "cached")
  /\ UpdateAsset(call[c].row, "available", call[c].text)
  /\ Goto(c, "reread")
  /\ UNCHANGED <<content, sub, used, cache, writer>>

\* The database fails.
StoreFails(c) ==
  /\ \/ At(c, "cached") \/ At(c, "reread")
     \/ At(c, "fetched") /\ call[c].row \in Subscription
  /\ Return(c)
  /\ UNCHANGED <<rows, cache>>

Reread(c) ==
  /\ At(c, "reread") /\ Present(call[c].row)
  /\ Return(c)
  /\ UNCHANGED <<rows, cache>>

\* The daemon ends and starts again: in a crash, or because a refresh found
\* no row to reread and dereferenced nil.
Crash ==
  /\ call' = [c \in Caller |-> NoCall]
  /\ UNCHANGED <<rows, cache>>

-----------------------------------------------------------------------------
Edit ==
  \/ \E p \in Profile, t \in Text : CreateProfile(p, t) \/ SaveProfileContent(p, t)
  \/ \E p \in Profile : DeleteProfile(p)
  \/ \E s \in Subscription, p \in Profile : CreateProfileSubscription(s, p)
  \/ \E s \in Subscription : DeleteProfileSubscription(s)
  \/ \E a \in Asset : CreateDataAsset(a) \/ DeleteDataAsset(a)

Refresh(c) ==
  \/ \E s \in Subscription : RefreshProfileSubscription(c, s)
  \/ \E a \in Asset : RefreshDataAsset(c, a)
  \/ \E t \in Text : Fetched(c, t)
  \/ FetchFails(c) \/ RecordFailure(c)
  \/ StoreContent(c) \/ Put(c) \/ WriteTemp(c) \/ Rename(c) \/ StoreAsset(c)
  \/ StoreFails(c) \/ Reread(c)

Next == Edit \/ Crash \/ \E c \in Caller : Refresh(c)

Spec == Init /\ [][Next]_vars

-----------------------------------------------------------------------------
(* Properties                                                              *)

(* Every stored content has passed validation, whichever path wrote it     *)
(* (AD-007).                                                               *)
ContentIsValid == \A p \in Profile : content[p] \in Good \cup {None}

(* A subscription never outlives its profile (AD-006), so a refresh that   *)
(* finds a row finds the profile too.                                      *)
SourceHasProfile ==
  \A s \in Subscription : sub[s] # None => content[sub[s].profile] # None

(* While a subscription was the last to write its profile and says that it *)
(* is updated, its digest is that of the profile's content: whatever fails *)
(* and however refreshes overlap, the two are written together.            *)
DigestIsOfContent ==
  \A s \in Subscription :
    sub[s] # None /\ sub[s].status = "updated" =>
      LET p == sub[s].profile IN writer[p] = s => sub[s].sha = content[p]

(* A refresh that started before its row was deleted does not bring back   *)
(* the row, nor the profile.                                               *)
DeletedStaysDeleted ==
  [][/\ \A p \in Profile \cap used : content[p] = None => content'[p] = None
     /\ \A s \in Subscription \cap used : sub[s] = None => sub'[s] = None
     /\ \A a \in Asset \cap used : asset[a] = None => asset'[a] = None]_vars

(* The cache key of an asset leads to its whole content, although daemons  *)
(* crash while they write and refreshes of the same content overlap.       *)
KeyLeadsToContent ==
  \A a \in Asset : asset[a] # None /\ asset[a].key # None => cache[asset[a].key] = "whole"
=============================================================================

# Verification of qkbox

qkbox is a desktop proxy client built on sing-box.  A per-user daemon
(`cmd/qkbox` with the service in `core/qkboxd`) keeps profiles, runs at most one
sing-box runtime, and steers the operating system's proxy setting.  A profile
that needs the machine's network (TUN, DNS hijacking) is run for it by a
privileged helper, `cmd/qkbox-provider`, over a local RPC.  A window process
(`apps/desktop`) and the tray drive the daemon.

This directory holds TLA+ models of the parts whose correctness depends on the
order of events, the TLC runs that check them, and TLAPS proofs of what matters
most about them.  Every definition that models code is listed in `PROJECT.json`
under `map`, with the lines it stands for.

## Inventory

| component | state | operations | what makes it hard | what makes it correct |
|---|---|---|---|---|
| provider runtime controller (`internal/providerruntime`) | owner record in memory and on disk, adapter, heartbeat cancel function, monitor goroutines | RuntimeStart, RuntimeStop, RuntimeHeartbeat, RunRepairAction, Close, NewController | two mutexes, slow calls without the inner one, monitors that outlive their runtime, torn files, crashes | one runtime at a time; record, adapter and monitor belong together; the record is on disk while the instance runs; a lost client is reclaimed |
| provider RPC client (`core/qkboxd/provider_runtime_owner.go`, `internal/provideripc`) | runtime id, started flag, heartbeat and event goroutines | Start with its undo, Stop, heartbeat loop, event bridge | deadlines that leave the outcome open, requests executed after their caller has given up, a loop that stops at the first error, crashes of both sides | a confirmed stop is final; a late call spares the runtime held; a loss is reported; what nobody keeps alive is reclaimed |
| engine (`core/qkboxd/engine.go`) | state machine, runtime owner | Start, Stop, Shutdown, CheckActivationAllowed | slow owner calls without the mutex, Shutdown next to the operations lock | never two runtimes; a failed stop blocks starts until it is stopped |
| activation (`activation_service.go`, `runtime_service.go`) | active profile in the database | ActivateProfile, rollback, EngineStart, EngineStop | a dozen steps, each of which may fail, and a rollback that may fail too; profile deletion does not take the operations lock | active profile, running profile and proxy agree after every call |
| system proxy (`platform_service.go`, `proxy_owner.go`, `daemon.go`, `platform/capability`) | owner record in the database, the operating system's setting | enable, disable, restore on stop, rebind on activation, repair at start-up | crashes between record and setting, users who change the setting, failing calls, settings of several keys written one by one | the user's setting is always recoverable; the setting points to the runtime held, which runs unless the provider has ended it; what is recognised as ours is whole |
| user lock (`lock.go`) | lock file, flock | AcquireUserLock, Release | unlink after unlock | one daemon per user |
| daemon and IPC (`daemon.go`, `internal/ipc`) | listener, connections, resources | Start, Shutdown, request dispatch | shutdown waits for connections, the tray calls the service beside the IPC | resources are released in order, once |
| event hub (`internal/eventhub`, `runtime_events.go`) | log ring, last status, subscriber channels | publish, subscribe, replay, forgetting a subscriber; streams of snapshots | full channels drop, subscribe races publish, statuses are published after the engine's mutex is released, windows that stop reading | replay and live events keep their order without a gap; the last status arrives and is the engine's; a window that goes leaves nothing behind |
| profile store and subscriptions (`profile_service.go`, `asset_service.go`, `internal/assetcache`) | profiles, assets, cached files | CRUD, refresh | fetches between a read and a write of the database | digest and content belong together; a cache key leads to its content while there is one; what was deleted stays deleted |
| persistence (`internal/persistence`) | SQLite database | repositories, migrations | a crash between two statements of a migration | transactions are atomic; a migration can be repeated |
| window session (`window.go`, `cmd/qkbox/tray.go`, `apps/desktop/bridge.go`) | attached session, launch-pending flag, a window's bridge | WindowAttach, NotifyWindowShow, openWindow, StartRuntimeEventBridge | a session replaced before its clean-up has run, attach requests served late, pages that reload, launches that time out | one session lives; what has gone is forgotten; no launch is pending for ever |
| sing-box adapter (`internal/singboxadapter`) | box, cache directory, the tracker's map and counters | Start, Stop, CloseConnection(s), TrafficSnapshot, the wrapping of connections | goroutines of sing-box, Stop and windows close the same connections; starts and closes that fail half way | the list matches what is open; Stop closes what it saw and ends; no box is let go of before it is closed, and its directory with it; a byte is in one rate |
| configuration and URI parsing (`internal/configbuild`, `internal/uriparse`), redaction | none | pure conversions | input variety | not order-dependent: tested in Go |

Interactions.  The tray, the window and other clients call the daemon: over IPC,
or the tray directly in its own process.  The service calls the engine, the
engine an owner that runs sing-box in the process or asks the provider for it;
the provider asks for a heartbeat in return.  The proxy operations read the
engine's listener and write the operating system's setting; activation uses all
three.  Events flow back through the hub.  State shared without the operations
lock: the database rows, the operating system's setting (with its user), the
engine (with the daemon's shutdown).

## Modules

| module | models | state ↔ code |
|---|---|---|
| `ProviderRuntime` | `internal/providerruntime/controller.go`, `owner_store.go`, exits of `cmd/qkbox-provider` | `op`: who holds `opMu` and how far that call is; `owner`, `adapter`, `hbCancel`: the fields of `Controller`; `monitor`, `cancelled`: the goroutines and their contexts; `disk`: `provider-runtime-owner.json`; `live`: the instances of sing-box |
| `MachineNetworkLock` | abstract: what the controller promises | holder, mark, running |
| `QkboxdConstants`, `Engine` | `engine.go` and the runtime owners | `engine`: state and held owner; `box`: the running instances |
| `SystemProxy` | `proxy_owner.go`, the platform's snapshot, apply and restore | `os`: the setting; `record`: the row that can restore it |
| `Qkboxd` | `activation_service.go`, `runtime_service.go`, `platform_service.go`, start and close of the daemon; composes `Engine` and `SystemProxy` | `op`: which call holds `opMu`, at which point, with what it has captured; `daemon`: the daemon's goroutine |
| `MachineNetwork` | `provider_runtime_owner.go`, `internal/provideripc`; extends `ProviderRuntime` with the calls that reach it | `call`: the start or stop in progress and its answer; `held`: `o.runtimeID` while started; `beat`, `stream`: the goroutines of an owner; `requests`: what the server has read and not executed; `reported`: an error published about the runtime held |
| `ProxyPlatform` | the key by key snapshot, apply, restore and recognition on GNOME, KDE, macOS and Windows (`platform/capability/proxy_*.go`) | `keys`: the setting; `call.todo`: the writes that `Apply` or `Restore` has still to make; `iface`: macOS' interface of the default route |
| `ConnectionTracker` | `internal/singboxadapter`: adapter, managed box, traffic tracker | `connections`, `nextID`: the tracker's map; `once`: each `closeOnce`; `closing`: what `CloseAll` has copied and not yet closed; `trafficMu`, `lastTraffic`: the adapter's fields |
| `EventHub` | `internal/eventhub`, the engine's publishing and its streams, a subscription over `internal/ipc` | `logs`, `lastStatus`, `registered`, `ch`: the hub; `wire`, `last`: what is under way and what the window has read; `unpublished`: statuses taken under the mutex and not published |
| `WindowSession` | `window.go`, `tray.go`, the bridge in `apps/desktop/bridge.go` | `windowSess`: the daemon's session; `session`, `shows`: each session's context and channel; `pending`, `clearer`: the tray's flag and its watcher; `bridge`, `eventCancel`: a window's bridges |
| `ProxyPromise` | abstract: what qkboxd promises about the user's setting | os, remembered |
| `DaemonExit` | `cmd/qkbox/main.go`, the tray's exits, `daemon.go`, `internal/ipc/server.go` | `exit`: what the caller that passed `exitOnce` has come to; `signalled`, `cancelled`: the two contexts; `serve`, `conn`: `Server.Serve` and its handlers; `cleanup`: the goroutine of `Start` |
| `AssetService` | `profile_service.go`, `asset_service.go`, `internal/assetcache`, their tables | `content`, `sub`, `asset`: rows; `cache`: files under their final names; `call`: refreshes in progress |
| `UserLock` | `lock.go`, `lock_unix.go` | `path`: the file at the path; `file`: what each process has open; `pc`; `overlap`: history, whether a start has overlapped a release |
| `MC*` | the constants TLC uses | |
| `*Proofs` | theorems | |

A step is what no other actor can look into: a section under a mutex, a
transaction, one call of sing-box or of the operating system.  Calls that are
refused and queries change nothing and are no steps.  `MachineNetwork` extends
`ProviderRuntime`: each of its steps is one of the controller's or leaves the
controller alone.  `Qkboxd` takes a hosted runtime through `Engine` as one that
may start, stop, be refused or be lost; what such an outcome hides is in
`MachineNetwork`.  `SystemProxy` takes a setting for one value; a half written
one is `Mixed`, or `Stray` where keys left by an earlier write make up an address
of qkbox again.  What the halves look like is in `ProxyPlatform`.
Operators marked *Variant* state a plausible mistake in the definition below them; no
specification uses them, they are there to try a property against the mistake.

## Runs

| run | what it shows | bounds |
|---|---|---|
| `ProviderRuntime_safety` | under every fault and with repairs: the adapter belongs to the owner on record (`AdapterOwned`), a running owner has its own uncancelled monitor (`RunningIsWatched`), only a stop admitted for a runtime closes it (`ClosedByItsOwnStop`), a stale owner blocks until it is released (`StaleUntilReleased`) | three runtimes: a predecessor whose monitor is late, the owner, a successor |
| `ProviderRuntime_loan` | nobody repairing and saves succeeding: never two instances, the record is on disk while one runs, the controller implements `MachineNetworkLock`, and a client that has gone loses the machine network | two runtimes, no symmetry (liveness) |
| `MachineNetwork_calls` | calls that may not leave, be answered or be executed in time, both sides may be killed: `StoppedStaysStopped`, `HeldIsLeftAlone`, `LossIsReported`, `OrphanIsReclaimed` | two runtimes: the one given up and the next; no symmetry (liveness) |
| `Qkboxd_safety` | every fault: a proxy address of ours is always covered by a record, unless a failed write brought it back (`RecordCoversProxy`), no instance is out of the engine's reach (`LocalBoxIsHeld`), no call that has not failed yet stops a runtime before the proxy is out of the setting, whatever cannot be read or written (`StopNeedsRelease`) | three profiles: two that listen at different addresses, of which one is hosted by the provider, and one that does not listen; two settings of users |
| `Qkboxd_serving` | the setting can be read and written, everything else may fail: the proxy leaves before its runtime (`ProxyLeavesFirst`), between calls, after a crash too, an address of ours in the setting is that of the runtime held, and that runs, but for a hosted one the provider has ended (`NoDeadProxy`), active and running agree (`ActiveIsRunning`), a shutdown restores (`ShutdownRestoresProxy`), and `ProxyPromise` is implemented | as above |
| `ProxyPlatform_keys` | writes that fail anywhere, users and networks that move: what `CurrentState` takes for ours sends http and https to qkbox (`RecognisedIsWhole`), what was applied is recognised (`AppliedIsRecognised`), what was restored is what was there (`RestoredIsGivenBack`) | four desktops, two ports, two interfaces, three or four settings of users on each, with keys that are absent |
| `UserLock_starts` | exits and crashes anywhere, the file created again and again: two processes come to hold the lock only after a start that overlapped a release (`OnlyOverlapAdmitsTwo`) | three processes, four creations of the file |
| `DaemonExit_paths` | the clean-up finds no handler at work (`ClosesWhenIdle`), and the process ends once asked (`EndsWhenAsked`) | two connections: one that ends and one that stays |
| `AssetService_refresh` | matching digests (`DigestIsOfContent`), whole cache files (`KeyLeadsToContent`), nothing deleted comes back (`DeletedStaysDeleted`) | one profile, two subscriptions to it, one asset, two refreshes at a time, two good texts and a bad one |
| `ConnectionTracker_closing` | the list matches what is open (`ListMatchesOpen`), Stop closes what it saw (`StopClosesWhatItSaw`) and ends (`StopEnds`), no directory that the system lets go of and no box is left behind, but for the box of a failed start that would not close (`NothingLeftBehind`), a byte is in one rate (`RatesAddUp`) | two connections, Stop, one window and each connection's own goroutine as closers, two readers, one byte |
| `EventHub_windows` | the log arrives in order and without a gap unless a channel was full (`LogsInOrder`), the last status arrives and is the engine's (`StatusReaches`), what has gone is forgotten (`DoneIsForgotten`) | one subscriber of each kind, a ring of two, room for one more; each behaviour keeps to one budget: five log entries and an error, six changes of the status, or a stream |
| `WindowSession_tray` | the daemon's session is the one that lives (`OneSessionLives`), one that is given up is forgotten (`GoneIsForgotten`), no launch stays pending (`PendingClears`) | two windows, one of which loads its page twice; one show event in a channel |

Why these bounds.  In the controller a call, the monitor of the previous owner
and the next owner are the parties to every race; the monitor of a third
predecessor is in the same state as that of the second.  One call at a time
holds `opMu` in qkboxd, so two profiles (from, to) and one without a listener
exercise every path; a second setting tells whose is restored.  Profiles do not
meet in `AssetService` except through their subscriptions; two of these
overlapping on one profile is the race.  Ids are random in the code and never
drawn again; the sets of ids therefore bound the length of a behaviour in
`ProviderRuntime` (starts requested) and `AssetService` (rows created), and
`MaxFile` does in `UserLock`.  In `MachineNetwork` the race is between the calls
of one owner and those of the next, so two ids suffice; the theorems do without
the bound.  The hub's two kinds of publishing and its streams share nothing but
the shape of a channel, so each has a behaviour of its own (`Budgets`), long
enough to fill the ring, the channel and the connection.  `MaxBytes`, `MaxLoads`
and the budgets bound counters; a closer that comes twice is in the place of
another one.  Nothing else is bounded.  `CHECK_DEADLOCK FALSE`
stands wherever ids run out or a process may be gone for good.

Assumptions of the runs.  `Faults` names what may fail: `SystemWorks` leaves out
failing reads and writes of the operating system's setting, because without it a
proxy that cannot be reset stays set and no ordering of the code could help.
`Repairs = FALSE` says that nobody sends the repair action, which can clear the
record of an instance that is being started (below).  `MachineNetwork` leaves
failing writes of the record to `ProviderRuntime` (`CallAssumption`).
Crashes are those of processes: a write that was done is on disk.
The proxy provider of the platform is available.  A user's change between the
snapshot and its save is lost by the code, and `ProxyPromise` allows for that:
the setting it remembers may be older than the user's last.

Fairness.  `ProviderRuntime!Fairness`: goroutines that can run do (`OpStep`,
`MonitorStep`), the heartbeat of a client that has gone does come to be late,
and a process that was told to exit does.  Clients, repairs, crashes and
restarts are not fair.  `DaemonExit!Fairness`: goroutines that can run do; a
stream handler whose context is cancelled gets to see it although events keep
coming (strong fairness: `select` is random); calls of the service return; a
client sends its request or hangs up, and reads what it is sent, which
`internal/ipc/client.go` does (deadlines on calls, a reading loop on
subscriptions).  Nothing makes a subscriber leave.  `MachineFairness`: each side
runs what it can run, deadlines pass, a request that was read is executed, and
the heartbeat of a client that is silent comes to be late; nobody need start,
stop or repair, and crashes and restarts are not fair.  `EventHub!Fairness`:
the hub's goroutine that forgets a subscriber, a stream's loop and a caller
that has a status to publish run; windows need not read.
`ConnectionTracker!Fairness`: goroutines that have begun to close go on, sing-box
returns from `Close`.  `SessionFairness`: goroutines and timers run and
the daemon serves requests; users and windows need do nothing.

## Theorems

Proved by TLAPS for all values of the constants, from the assumptions named in
the modules (ids are distinct from `None`, `Torn`, `Mixed` and `Stray`, listeners are
addresses or none, a ring and a channel hold something).  Where a theorem needs
more it says so with `ASSUME ... PROVE`, and what it needs is what the run of the
same property assumes: `Repairs = FALSE`, saves that do not fail (`"save" \notin
Faults`), a setting that can be read and written (`SettingWorks`) or whose writes
do not stop half way (`"half" \notin Faults`).  Every safety invariant and every
safety action property that a run checks is stated by one of these theorems.

* `ProviderRuntimeProofs`.  `OpInv` says what the call that holds `opMu` may
  rely on at each of its points (which record it wrote, whether the adapter is
  still there); `AdapterOwned` follows from it and is not inductive alone,
  since a start installs its adapter long after it wrote its record.
  `Exclusive` adds, if nobody repairs, that a start in progress, a running
  instance and a stale record exclude each other: hence `AtMostOneBox`, and
  `LockStep` maps every step to one of `MachineNetworkLock` or a stutter
  (`LockIsKept`).  `Recorded` adds, if saves do not fail, that record and file
  agree while an instance runs (`RecordBeforeBox`).  `Watched` relates
  `hbCancel`, monitors and contexts (`RunningOwnerIsWatched`).
  `OnlyItsOwnStopCloses` is an action property; so is `StaleStays`, for which
  `ClosedInv` adds that nothing starts an instance from its close to the end of
  the stop that closed it.
* `QkboxdProofs`.  `OpShape` says what each call knows at each point, `Cover`
  that snapshots are never addresses of qkbox, that the setting is none when a
  record is about to go or to be replaced or a call that has not failed yet stops
  or starts a runtime, and that the record names the address before it is written;
  together with types they are inductive and give `ProxyIsCovered` and
  `NoStopUnreleased`.  `Held` says that an owner is let go of with its runtime and
  never before: `LocalBoxStaysHeld`.  `Whole` excludes
  half written settings when no write stops half way; with it every step is
  one of `ProxyPromise` or a stutter (`PromiseIsKept`).
  What holds while the setting works takes three more, each inductive only with
  those before it.  `Left`: from the release of the proxy to the end of the call,
  through a rollback too, no address of qkbox is in the setting, unless a running
  activation is about to bind it again; hence `StopsAfterRelease` and
  `ShutdownGivesBack`.  `Alive`: in the middle of calls as between them an address
  in the setting is that of the runtime the engine holds, and a call that is about
  to write one has that runtime's; with `Held`, which says that this one runs, it
  gives `ProxyPointsToRuntime`.  `Agreed`: but for the
  stretch of an activation that `Apart` names, the running profile is the active
  one, and what each call would start again is the active one as well, though a
  deletion may reset that under it (`ActiveProfileRuns`).
* `MachineNetworkProofs`.  `ControllerStep` maps every step of the calls to one
  of the controller's or a stutter: `CallsImplementController`, and with it every
  theorem about the controller holds however late calls are executed,
  `OneBoxAcrossCalls` and the refinement of the abstract lock
  (`LockAcrossCalls`) among them.  For the calls themselves `OwnerInv` relates the
  runtime held to its owner's goroutines, `PendingInv` says for which ids a
  start or a stop may still be executed, and `AnswerInv` what an answer tells;
  none is inductive alone.  They give `StoppedIsFinal` and `HeldIsSpared`.
* `AssetServiceProofs`.  `CallKnows` is what a refresh may still rely on after
  its fetch: the id was drawn, its text passed validation, its subscription,
  if it is still there, is one of the same profile, and the file it is about to
  record is whole.  With "a row's id was drawn" and "no partial file under a
  final name" it is inductive: `RefreshIsConsistent`, `CacheIsWhole`, and, since
  an id is never drawn again, `DeletedIsFinal`; its parts
  about validation and the cascade give `ContentWasValidated` and
  `NoSubscriptionAlone`, which no run checks.
* `DaemonExitProofs`.  `Inv` relates the server's loop, its connections and the
  clean-up: `CleanUpFindsNoHandler`, for any number of connections.  The same
  module, which extends `UserLock` too, holds what is proved of that.  `LockInv`: a
  lock belongs to a file and is one process's; as long as no start has overlapped a
  release, every open file is the one at the path, and none is open between the
  unlock and the removal.  Hence `OnlyOverlapIsUnsafe`, over any number of
  processes, exits, crashes and files.
* `ConnectionTrackerProofs`.  `CloseInv` says that a connection is in the map
  under its own id from `addConnection` until somebody runs its `closeOnce`, and
  that what Stop found is on its list or closed: `ListsMatch`, `StopClosed`.
  `BoxInv` follows the box and its directory, whose removal may fail, through
  Start and Stop (`NoneLeftBehind`); `TrafficInv` says that who computes a rate holds the lock
  and saw the last snapshot (`RatesNeverDouble`).
* `EventHubProofs`.  `Newest`: the ring holds the newest entries without a gap.
  `LogsFor`: what a window has read, what is on its connection and what is in its
  channel make one sequence (`Coming`) that is in order and, unless an event
  found the channel full, complete; an append, a replay and a read each keep that,
  by lemmas about the ends of a sequence (`AppendSorted`, `ReplaySorted`,
  `ReadSorted`), so no induction over sequences is needed.  `StatusFor`: the last
  status that is to come is the hub's; `CallerPublishes`: without a shutdown the
  last change is the hub's or is about to be.  They give
  `WindowReadsLogsInOrder` and `WindowReachesStatus`, for any size of the ring, of
  a channel and of a connection and for any number of windows.  The same module,
  which extends `WindowSession` too, holds what is proved of that:
  `OneSessionLives` is inductive with the types (`OneLives`).
* `ProxyPlatformProofs`.  `IsPlan`: a write of a setting is a list of different
  keys.  `Progress`: a call that is at it has written the first of them, and as
  long as nobody disturbed it they have landed and the list is the one `Apply` or
  `Restore` would make again; `Finished` is what is left at its end.  A key is
  written once, so a later write never undoes an earlier one.  Hence
  `WhatIsAppliedIsRecognised` and `WhatIsRestoredIsGivenBack` for any ports,
  interfaces and settings of users; `WhatIsRecognisedIsWhole` compares what each
  desktop reads back with what it would have written.

Type correctness is proved for each of the modules above (`TypeCorrect`,
`MachineTypeCorrect`, `LockTypeCorrect`, `WindowTypeCorrect`); the type invariants
are therefore not repeated in the runs.

Only model-checked: the liveness properties (`GoneClientIsReclaimed`,
`OrphanIsReclaimed`, `LossIsReported`, `EndsWhenAsked`, `StopEnds`,
`DoneIsForgotten`, `GoneIsForgotten`, `PendingClears`), because liveness under
fairness, which rests on `ENABLED`, is out of the prover's reach.

## What the models show beside the properties

Behaviours of the code met while modelling; each is reachable in the model named,
and the properties are stated so that they are true beside it.

Provider and engine.
* A repair takes `mu` but not `opMu`: while a start is in progress and a late
  monitor has marked its record stale, a repair clears the record, and the
  instance that then starts has no owner (`ProviderRuntime`, `RunRepairAction`).
* A heartbeat between the delete of the owner file and the clearing of the owner
  writes the file back (`Heartbeat` after `DeleteRecord`); a monitor that lost
  `opMu` to the next start marks the next, healthy runtime stale
  (`MonitorMarkStale`).
* After a stop of a hosted runtime that was refused or not answered, the second
  stop returns at once (`provider_runtime_owner.go:102`) and the engine is idle
  while the runtime goes on until the provider reclaims it (`StopAgain`).
* A stop cancels the heartbeat that is under way, and the loop publishes that as
  an error of a runtime that was stopped as asked (`HeartbeatFails`,
  `provider_runtime_owner.go:240-246`).  The event bridge looks at its context
  first and stays silent (lines 267-270).
* When the provider ends a hosted runtime it has lost touch with, the windows hear
  of it and nothing else happens: the engine holds the runtime as before, and the
  system's proxy setting points to a port where nobody listens until the user stops
  it (`ProviderReclaims`; `HeldRuns` in `NoDeadProxy` leaves it out).

Proxy and activation.
* A write that fails may complete what an earlier one left, so that
  `CurrentState` finds an address of qkbox again, the record's or that of an
  earlier runtime: on Windows `Apply` switches the proxy on while the server is
  still the old one, on KDE `Restore` writes the type before the endpoints, on GNOME
  an `Apply` after half a `Restore` writes the host beside the old port
  (`ProxyPlatform`).  If the record has been given a new address meanwhile
  (`platform_service.go:320-325`), the next operation finds that it does not match and
  deletes it (`platform_service.go:406-411`): the old address stays, and nothing is
  left to restore.  `SystemProxy` has it as `Stray`, which `RecordCoversProxy` leaves out.
* A setting that a restore left half written is not tried again at the next
  start-up: it matches neither the record nor the user's (`daemon.go:150-155`).
* A profile deleted during its activation becomes active without a row
  (`PersistActive`); if a rollback cannot restore the setting, the new runtime
  stays beside the old active profile (`ActiveIsRunning` is therefore stated for a
  setting that can be written).
* macOS writes to the interface that is active by then and restores that of the
  snapshot, so a network that has moved in between keeps the address of qkbox;
  on Windows the proxy is switched on before the server is written.

Daemon, profiles and windows.
* `Release` unlocks before it removes the file (`lock.go:53-57`): two daemons can
  hold the lock, one of them of a removed file.
* A row deleted during its refresh is nil when it is read again and is
  dereferenced (`asset_service.go:139` and `249`); a refresh of a subscription
  that has been deleted still overwrites the profile's content.
* If `Accept` fails, the server waits for connections whose context nobody
  cancels; a client suspended while it sends or reads holds its handler.  Quitting
  gives the clean-up ten seconds, a stop of a runtime may take sixty: the process
  then ends beside the clean-up, as it does when the tray ends by itself
  (`ShutdownGivesUp`, `TrayEnds`).  Only `ClosesWhenIdle` and `EndsWhenAsked` are
  claimed of an exit.
* `window.go:25` says that replacing a session should not happen with a single
  window: it does, whenever a page is loaded again.  The attach request of the
  bridge given up may be served last; the window then has no session.  The
  clean-up of an old page's bridge cancels the new one
  (`StopRuntimeEventBridge`).  A show event in the channel of a session that ends
  is lost.  After the launch timeout a second window may be spawned.
* `closeFunc` is set after the connection is in the tracker's map: a close in
  between closes nothing, and every later one does nothing either (`early`).
* The error of the removal of a box's cache directory is dropped
  (`adapter.go:156-160`), so a directory may stay, after a Close that failed with
  its file still open as well (`cleanupRuntimeCache`, "stuck").  Whether a box whose
  Close has failed can be closed at all later is a matter of sing-box: here the
  next Close may succeed or fail.

## Not modelled

* Conversions: `internal/configbuild`, `internal/uriparse` (called by its tests
  alone), `internal/redact`, `validate.go`, framing.  They have no state and no
  order of events.
* Migrations: each is a list of `CREATE TABLE IF NOT EXISTS` and the like, which
  may be repeated after a crash; a model would have a single state to say so of.
* sing-box itself: its calls succeed or fail, its connections come when they
  like.  Options, groups, metadata and the selection of outbounds in the adapter.
* The Network Extension owner: the protocol of the provider RPC client against a
  runtime that this repository only declares.
* Windows' way of locking, where an open file cannot be removed.
* `UpdateProfile`, names, URLs, versions and policies of profiles and assets.
* `core/qkboxd/diagnostics_service.go` and other queries; the methods of the
  desktop bridge that forward a call.

## Plan

Written, in the order of their weight: `ProviderRuntime` → `MachineNetworkLock` →
`Engine`, `SystemProxy` → `Qkboxd` → `ProxyPromise` → `UserLock` → `DaemonExit` →
`AssetService` → `MachineNetwork` → `ProxyPlatform` → `ConnectionTracker` →
`EventHub` → `WindowSession`.  Dropped from the plan: the migrations (above) and
reference definitions for pure conversions, whose correctness is in details of
text.

To model next: a hosted runtime in `Qkboxd` by `MachineNetwork` instead of its
outcomes.  To prove next: that what `ProxyPlatform` leaves of a write that failed
is among what `SystemProxy` allows (`Partly`), so that the theorems about `Qkboxd`
hold of settings that are written key by key.

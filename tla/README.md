# Noema Atlas: a TLA+ model

Noema Atlas downloads model weights from Hugging Face, HTTPS mirrors, local
files, Iroh peers and BitTorrent, verifies them against a signed manifest, keeps
them in a content-addressed store and shares them on. This directory holds TLA+
models of the parts of it that are hard to test - the download engine, the store,
the transports, sharing and its tracker, the pages of the two front ends and the
updater -, the TLC configurations that check them on small instances, and TLAPS
proofs, for every size of the parameters, of every safety invariant and action
property that a run checks. Liveness is left to TLC.

Paths below are relative to the repository (`crates/...`). `PROJECT.json` lists
components, runs, hazards and theorems, and says for each definition which lines
of the source it models.

Running it, from this directory:

    tlc -workers 2 -config Artifact.cfg MCArtifact      # model-check a run
    tlapm StoreProofs.tla                               # check the proofs of a module

Contents: 1 inventory, 2 modules and code, 3 runs, 4 bounds and fairness,
5 proofs, 6 what the checks found, 7 what the models leave out, 8 plan.

## 1. Inventory

| Component (source) | State | Operations | What is hard | What makes it correct |
|---|---|---|---|---|
| Download queue (`core/engine.rs` 635-765) | semaphore permits, list of waiting ids, tokio `Notify` | `acquire`, permit drop, future drop, `reorder` | wake-ups that store nothing, cancellation at any await | no permit lost or duplicated, list exact, nobody sleeps next to a free slot |
| Transfer control and registry (`core/transfer.rs`, `core/engine.rs` 1149-1261, 1564-1670) | `cancel`, `discard`, `executing`, `state` per control; id -> control | `request_pause`, `request_stop`, `try_begin`, `run_transfer`, `discard_transfer` | four atomics written separately by two threads; a new run while the old one ends | one run per control, no bytes lost on pause, nothing left after stop, every run ends |
| Desktop cards (`desktop/main.rs`) | `running`, `failed`, `launched` per card | start, resume, pause, stop, remove, refresh, Done | flags that lag behind the engine | a card nobody drives can be resumed |
| Reconcile and resume (`core/engine.rs` 3285-3369) | downloads rows, `.part` files | start-up and per-refresh cleaning | works on stale snapshots while transfers begin; crashes | no partial without row, no live partial reaped |
| Artifact download (`core/engine.rs` 1700-3000) | `.part`, downloads row, attempts, owner of the partial | plan, try source, stream, segment, resume, verify, quarantine, commit | resume across sources, ignored ranges, parallel connections, crash between any two steps | only right content committed; honest sources never blamed; one good source suffices |
| Streaming verifier (`core/verify.rs`) | running digests, current leaf | `feed`, `finish` | must describe the bytes that are committed | verdict = content |
| Source health (`core/db.rs`, `core/planner.rs`) | counters, bans with a time | record result, ban, cooldown | shared by all transfers | a ban costs a source, never the download |
| Content store, index, installs (`core/cas.rs`, `core/db.rs`, `core/engine.rs`) | blob files, sidecars, rows, links | commit, import, evict, materialize, reconcile | files and rows change in separate steps | a row has its file, a view has its blob |
| Striped Iroh fetch (`core/iroh_node.rs` 60-350, 1100-1277) | piece queue, counters, journal | lanes, requeue, refresh, watchdog, resume, fallback | many lanes and peers, crash, torn journal | every piece written once verified; the whole blob is delivered; ends |
| Iroh seeding and uploads (`core/iroh_node.rs` 355-1000) | slots per request, counts per blob, connections | provider events, reaper, unseed | events in any order and missing ones | counts match the slots; share-off reaches every puller |
| BitTorrent adapter (`core/transport.rs`) | seeds map, promotions, scratch folder, paused set, lifetime upload | seed, promote, unseed, fetch, ratio watch | unseed racing a promotion; torrents that outlive the run; counters that restart | no seed survives an unseed; pieces kept; caps enforced |
| Sharing and announcing (`core/engine.rs` 2779-2930, 3374-3760, `core/share.rs`, `core/tracker.rs`) | overrides, confirmations, announced set | share on/off, announce loop, withdraw | long passes over stale decisions, lost and late requests | consent; what is not shared ends up in no catalog |
| Registry: tracker (`registry/main.rs`) | providers with TTL, aliases | announce, withdraw, get, browse | expiry, replays, restart, aliases nobody verified | only live providers of what a hash names, one record per peer |
| Registry: manifest store (`registry/main.rs`) | manifests, slugs, files | publish, latest, load | torn writes, crashes, re-publication | what was answered Created is kept |
| Bandwidth schedule (`core/engine.rs` 740-1140) | schedule, caps, ticker | set caps, set schedule, tick | who is inside a runtime, edits against the ticker | the caps of the hour are in force |
| Desktop search, model page, Explore (`desktop/main.rs`) | rows, spinners, what was asked for | search, open, back, filter, download a row | answers late and in any order | what is shown is of what is open |
| Desktop composer (`desktop/main.rs`) | composer, imports, pending link | pick, drop, scan, confirm, import | imports and scans side by side | a link names its content |
| Desktop settings (`desktop/main.rs`) | settings in memory, on disk, in the engine | edit, start and stop seeding, save, restart | partial failure, failed writes, crash | the switch tells the truth |
| Desktop Library, model rows (`desktop/main.rs`) | snapshot of the index | refresh, download, delete, Done | stale snapshots, shared files | a missing file is offered |
| Desktop progress (`desktop/main.rs`) | speed, bytes per source, route | fold of events | retries of a source, fallback from segments, resumes, restarts, failover | no byte counted twice |
| Studio transfers (`studio/commands.rs`, `ui/src/App.svelte`) | cards, callbacks, events | start, pause, stop, resume, remove, mount | temporary keys, events in any order, reload | a moving card moves, and settles |
| Studio sharing (`studio/commands.rs`) | the live seeder behind a mutex | start, stop, announce, delete | commands at once | one seeder, serving what is shared |
| Updates (`core/update.rs`, `registry/main.rs`, `cli/updatecmd.rs`, `desktop/updater.rs`) | release, staged file, app and its backup | sign, serve, check, download, swap, roll back | a crash or failure at each step | genuine, startable, never older |
| Planner scores, policy, manifests, signatures, hashing, inspection, Hugging Face client, README renderer, secrets, drawing, CLI, vendored engine | little or none | pure functions, parsing, I/O | - | see `PROJECT.json` |

How they interact: the desktop calls the engine on background tasks and learns of
their end through a channel (`Msg::Done`), and it pauses and stops a transfer
through the shared `TransferControl`. `run_transfer` takes a slot from the queue,
then calls `download_artifact` for each artifact, which asks the planner for an
order, streams from the transports, verifies, and commits to the store. Seeding
and announcing read the store and its index. The pages of both front ends read
snapshots taken by tasks, and learn of changes by messages (`Msg` of the desktop,
events of Studio). Devices meet at the registry only: its tracker knows what was
announced to it.

## 2. Modules and the code they model

| Module | Models | Remarks |
|---|---|---|
| `DownloadQueue` | `DownloadQueue`, `QueuePermit`, `DequeueGuard` | one action per critical section, semaphore operation or `notify_waiters` |
| `AdmissionQueue` | - | abstract: a line, a bounded set of running transfers, atomic operations, everybody served; `DownloadQueue` instantiates it as `Admission` and states `ImplementsAdmission` |
| `Transfers` | `TransferControl`, `TransferManager`, `run_transfer`, `finish_cancelled`, `discard_transfer`, the downloads part of `reconcile`, and the commands of the Transfers tab | extends `DownloadQueue`: a run executes the queue's own actions |
| `ArtifactDownload` | `download_artifact`, `try_source`, `stream_once`, `stream_segmented`, `prepare_resume`, `verify_temp_full`, the verifier, bans and commit | content as a sequence of cells |
| `StripedFetch` | `IrohAdapter::open`, `fetch_from_providers`, `fetch_striped`, its lanes, journal and fallback | content as a set of pieces, files as inodes |
| `UploadSlots` | `ProviderEventSink`, `IrohMetrics`, reaper, `unseed_and_disconnect` | one action per lock |
| `BtSeeds`, `BtFetch`, `RatioWatch` | the BitTorrent adapter: seeds and promotions; a fetch; the stop-at-ratio watcher | the session of the vendored engine is external |
| `Registry` | the tracker: announce, withdraw, lookups, catalog, aliases, TTL | a record counts the ticks it has left; a peer may give any hash as a sha256, another blob's blake3 included |
| `Sharing` | share decisions, `start_worldwide_share` and its loop, withdraw and refresh tasks, the requests on their way | extends `Registry`: a delivered request is the tracker's own action |
| `ManifestStore` | the registry's `Store`: publish, load, slugs | a write in place may be cut short |
| `CasIndex` | commit, import, cache hit, install, evict, `reconcile` over blobs, sidecars and rows | one content; all imports use one temporary name, all installs one destination; copies and sidecars are written in place |
| `SpeedLimits` | `BandwidthSchedule`, its ticker, both front ends' ways to set caps | the clock is inside the window or not |
| `Browse`, `ModelPage`, `Explore` | the listing, the open model, the catalog of the desktop | requests in flight are bags or sets |
| `Composer`, `AppSettings`, `LibraryRows`, `ProgressFold` | imports and share links; settings; rows of models and Library; the numbers on a card | |
| `StudioCards`, `StudioShare` | transfers of the Studio on both sides of the webview; its seeder | |
| `Updater` | from the operator's signature to the swap and its roll-backs | versions are numbers |
| `MCPeers` | - | `BtSeeds`, `BtFetch`, `RatioWatch`, `UploadSlots` with its liveness |
| `MCNetwork` | - | `StripedFetch`, `Sharing` |
| `MCStore` | - | `CasIndex`, `Registry`, `ManifestStore`, `UploadSlots` |
| `MCPages` | - | `Browse`, `AppSettings`, `LibraryRows`, `ProgressFold`, `Composer`, `StudioCards` twice, `StudioShare` |
| `MCDesktop` | - | `ModelPage`, `Explore`, `SpeedLimits`, `StudioCards`, `Updater` |
| `MCDownloadQueue`, `MCTransfers`, `MCArtifact` | - | instances of the download engine |
| `TransfersProofs` | - | theorems about `DownloadQueue` and `Transfers`, section 5 |
| `NetworkProofs` | - | theorems about `ArtifactDownload`, `Sharing`, `StripedFetch` |
| `RegistryProofs`, `StoreProofs`, `PeersProofs` | - | theorems about `Registry`; about `CasIndex`, `ManifestStore`, `UploadSlots`; about `BtSeeds`, `BtFetch`, `RatioWatch` |
| `StudioProofs`, `PagesProofs`, `DesktopProofs` | - | lemmas about `StudioCards` for any instance; theorems about the specification of `MCPages` and of `MCDesktop` |

The five collecting `MC` modules instantiate or extend several components that share
no state. Their variable `part`, chosen at the start, says which one a behaviour is
about; the others stay at their initial state. So the states of a run are the sum
of those of its parts and not their product, and each part is checked as if alone,
under its own fairness. Their properties are conjunctions of the parts' own, which
are stated and explained in the component modules; `StripedInv`, `SharingInv` and
`RegistryInv` are those modules' own.

**DownloadQueue.** `permits` is the tokio semaphore, `waiting` the mutex-protected
list. `notify_waiters` wakes the futures that exist and stores nothing, so
`woken[t]` belongs to the `Notified` future task `t` currently has (points
`check`, `try`, `parked`). A future can be dropped only where it is suspended,
hence `DropAcquire` from `parked`. `Without` removes one entry where the code
retains all others: the list never holds an id twice, which `WaitingIsExact`
checks.

**Transfers.** A task is one call of `run_transfer`; `idOf` says for which
manifest. Each load, store, critical section, file or database operation is a
step. The control's three flags and its state are four separate fields, as in the
code. The user interface is one more thread with one command at a time, because
the desktop runs them on one thread; its guards are the code's (`running` flag,
`engine_executing`). A manifest has one artifact, whose files are a `.part`, a
row and a blob. A crash keeps the disk and loses the rest; the start-up reconcile
and the rebuilt cards are part of the crash action, because nothing else runs
before they are done. `wanted` is a history field: what the user asked of the
admitted run.

**ArtifactDownload.** Cell `i` of the right content is the number `i`, so bytes at
a wrong offset are wrong bytes. `Bad` is what a poisoning source sends, `Hole`
what a pre-sized or sparse file holds. Init chooses the world: whether the size is
known, whether a chunk tree is cached, whether the manifest declares a blake3
digest, which sources are corrupt and which reliable; a source that is neither
may fail, break off or ignore a range whenever it likes. `part`, `rowSource`,
`blob`, `indexed` survive a crash; the rest of a run does not. The plan comes in
any order of the sources that are not banned, which covers every score.

**StripedFetch.** `disk` numbers the scratch files like inodes, because lanes keep
writing to a file that a stop has unlinked; `right` holds the pieces whose verified
bytes are in it. Timeouts (connect, stall, idle poll, watchdog) may fire whenever
the code waits. A crash can tear the last line of the journal, and a torn line can
parse as another piece.

**Sharing.** The user's choices are the database's (`override`, `confirmed`,
`share_gated`); the loop, the withdraw and refresh tasks take their lists and act on
them some awaits later, as in the code. A request is sent once and may be lost; one
that its sender gave up on may still arrive while its signature is fresh. `consented`
is history.

**CasIndex.** A file is an inode, whole or not: a rename or hard link keeps it, a copy
makes another, or fills the one that is there, and may stop halfway. Sidecars are
`"none"`, `"torn"` or `"whole"`: they are opened, emptied and filled in separate steps,
and each file operation may fail where the code has an error path for it. All imports of a
content copy to one temporary path, so a second one truncates what the first is writing.
`clean` and `overlap` are history: which operations ran alone, and that two imports met in
the temporary file or two installs at the destination.

**Registry.** The tracker checks the form of a sha256 and nothing else (`registry/main.rs`
102-126), so an `Announce` may give any hash of `Shas` to any blob, and `Shas` may contain
blake3 ids. `Resolve` sends every hash through the alias, as `get` does (169). What
`LookupExact` promises is therefore about the blob a hash names at the moment.

**Settings and progress.** `AppSettings.Save` may fail silently, and leave the old file or
a torn one, at every place that saves. In `ProgressFold` an attempt is split in segments or one
stream; a split that fails goes on with a stream of the same source, a retriable failure
tries that source again (`MaxTries`), both with a second `connecting` and without
`source-failed`.

**Front ends.** A click is enabled by what the page shows at that moment, and a
confirmation that was opened earlier acts on what it captured. Messages of tasks
carry exactly what the code's messages carry: `Msg::Page` and `Msg::Detail` name no
request, so the models cannot tell them apart either.

## 3. Runs

| Run | Shows | Bounds |
|---|---|---|
| `queue` | slots conserved, list exact, no lost wake-up, everybody who queues is admitted or leaves, and the queue implements `AdmissionQueue` | 3 transfers, 2 slots, 1 reorder |
| `transfers_restart` | `executing` covers exactly one run; a card nobody drives can be resumed | 2 runs of one manifest, 3 commands of every kind, a user as hasty as the interface allows |
| `transfers_disk` | a partial always has its row; pauses, resumes, refreshes and crashes lose no bytes; a stopped run leaves nothing | up to 3 successive runs, 5 commands, 1 crash |
| `transfers_end` | never more downloads than slots, no ghost in the list, every run ends | 2 manifests on 1 slot, 3 commands |
| `artifact` | only right content is committed; file and verifier agree; honest sources that stream into the `.part` are not blamed; a run fails only when every reliable source is banned; retries, failover and the fallback to one connection end | 2 sources, 3 cells, leaves of 2, 2 connections, 2 attempts, 2 runs, 1 ban from elsewhere |
| `peers` | `PeersInv`: no leaked seed, a resumed torrent is live, the lifetime upload counts no byte twice. `PeersKeep`: pieces, scratch folder and lifetime upload are lost only where they may be. `PeersSettle`: a stop wins, fetches return, the cap pauses and its relaxation resumes, slots are reclaimed | 2 promotions, 2 fetches, 4 changes of caps, 2 requests |
| `network` | `StripedInv`: pieces conserved, journal sound, whole blob delivered. `SharingInv`: nothing leaves without consent. `NetworkSettles`: fetches end, what is stopped leaves the catalog for good, what is shared is listed again and again | 2 providers, 2 pieces, 1 crash; 1 blob, 2 decisions, 2 faults |
| `store` | `StoreInv`: no half blob; install, evict and reconcile do their work when alone; slugs agree, publications kept, bound kept. `RegistryInv`: lookups exact, rows agree. `UploadsInv`: counts and bytes exact, share-off severs. `NothingForgotten`: digests and aliases stay | 2 imports, one process of each other kind, 3 operations, 1 deletion, 1 crash; 2 peers, 2 blobs, one sha256 and one blake3 that may be given as one, TTL 2; 3 ids, 2 slugs; 2 requests |
| `pages` | `RowsInv`, `SettingsInv`, `ReceiptInv`, `LinkInv`, `StudioInv`: what the front ends show agrees with what the engine does | 2 rows; 2 trackers, 3 edits, 2 failed starts, failed writes or crashes; 3 titles of 3 files, 3 clicks; 2 sources, one of them split, 5 units, 2 tries of a source, 4 connections; 2 files; 2 commands at once, 4 in all |
| `desktop` | `ViewsInv`, `UpdaterInv`: views show their own answers; an update is genuine and recoverable. `ViewsSettle`: views, schedule, cards and updates catch up or end. `NothingUndone`: never an older version; caps restored | 2 repositories, 2 queries, 3 looks, 3 caps, 2 versions, 2 keys |
| `restored_card`, `schedule_idle` | what a comment in the code promises and the code does not keep, section 6 | smallest instance that shows it |

Deadlock is checked in `queue` only. Elsewhere the model stops when its bounds on
commands or runs are used up and nothing is going on, and the system may rest as
well.

What the properties rest on, where it is not obvious:

- `PartHasRow`, `PauseKeepsBytes` and `StoppedLeavesNothing` are checked for a
  patient user (no new run of a manifest before the last one is gone) without
  remove and manual refresh. With a hasty user, or with these commands, the races
  of section 6 break them. `PauseKeepsBytes` also covers a crash at any point.
- `StoppedLeavesNothing` exempts a run that the user asked to pause as well: the
  pause may win, and then the partial stays.
- `HonestNeverBlamed` is about an artifact of known size. With an unknown size an
  early end of the stream cannot be told from a short file, and the source is
  blamed for it. It is also only about sources that stream into the engine's `.part`
  (local files, HTTP, mirrors). An Iroh peer delivers through the scratch file of
  `StripedFetch`, whose header a crash may leave wrong (section 6, `"header"`): the
  blob then fails the engine's verifier, and an honest peer is quarantined for it.
- `GoodSourceSuffices` says `reliable \subseteq banned` on failure: a reliable
  source can be under a ban because another transfer recorded one.
- `StopWins` excepts torrents that a session brought back by itself after a restart:
  nobody unseeds those (`UnsharedIsUnseeded`, section 6).
- `NeverHalfABlob` excepts behaviours in which two imports met in the temporary file
  (`overlap`): there the one renames what the other still writes. It also excepts two installs
  at one destination: a copy of the one can truncate the hard link of the other, which
  is the blob. It is about blobs only: an installed file is filled in place and may be half a
  file after a copy that failed (section 6).
- `InstallDelivers`, `EvictLeavesNothing` and `ReconcileHeals` are about an operation that ran
  alone (`clean`) and reported success; a commit or an install between its steps leaves
  something for the next reconcile. What an evict leaves does not count the chunk tree:
  `remove_blob` ignores a failure to remove it.
- `LookupExact` compares the records with `claim`, what each peer last said and how
  long that holds, which no operation of the tracker reads. It is exact for the blob that
  the alias resolves the hash to. `RowsAgree` compares a row with the lookup of its blob
  only as long as nobody gave that blob's hash to another one.
- `PublishedIsKept` excepts an edition whose own rewrite was cut short, which is lost
  at the next load.
- `ShareOffSevers` excepts the peers that began to pull while the stop was under way.
- `SettingsTakeEffect` is about the live options, and about tracker, mirror and proxy, of
  which the restart banner speaks. The other startup-only options (`start`) are neither in
  force before a restart nor announced (section 6).
- `StopIsKept` excepts a stop whose write failed, and a file torn since: the next launch
  shares by default (section 6).
- `SwitchesExplained` is about a change of the source. A retry or the fallback to one stream
  adds no leg, so legs that follow each other go to different sources, and the reason of
  each but the first is another source that failed.
- `ServedIsShared` excepts what a pass or an import took its decision on before the
  stop (`late`), and `AppRecoverable` a staged file damaged after its last check.

## 4. Bounds and fairness

*Queue.* Three callers on two slots is the least in which one waits behind a
waiter while two others release; one reorder suffices to pass a front that has
already checked. The safety properties are proved for all sizes.

*Transfers.* Two runs of one manifest are an old run that is ending and a new one;
a third is needed for pause, resume and stop with a crash in between. Five
commands are start, pause, resume, stop, start. Two manifests on one slot are
enough to wait. The safety properties are proved for all sizes. Counters (`MaxControls`, `MaxCommands`, `MaxCrashes`) only bound
the environment. No symmetry is used: runs are taken in any order anyway and the
instances are small.

*Artifact.* Three cells with leaves of two have a complete leaf and a partial one,
and two segments of different length. `EmitEvery` of one cell lets the row be both
fresh and stale. Two runs are one that leaves something and one that finds it. Two
attempts are a retry; two sources a failover. The invariants and
`GoodSourceSuffices` are proved for all sizes.

*Peers and network.* Two promotions of one blob race each other and an unseed; two
fetches of one magnet share a torrent. Two pieces and one lane for each of two
providers let a piece fail at one, return to the queue and end at the other, with a
refresh and a crash. A TTL of two ticks has a fresh record, an old one and an expired
one; a window of one tick is the freshness of a signed request. `CrashPoints` is
three phases of a fetch in which file and journal are furthest apart, to keep the run
short. It leaves out `"header"`, where a crash breaks `JournalSound`: section 6 has
that case, and the theorem of section 5 covers every other phase. One fetch uses the
blob; two share its scratch file, which section 6 describes as well.

*Store.* One process of each kind is every pair of different operations; the two imports
share the temporary name. Imports are interchangeable, and so are the tracker's peers, so the run uses
symmetry; it checks no liveness property. Three operations let a third one come between
two others; one deletion by hand and one crash may come anywhere. The theorems hold for
any number of each.

*Pages and views.* Two files, rows or repositories are what is open and what was
left; a third adds no new relation. The three titles of the Library are a bundle, a
single file and a linked one, which share shards. Five units, a report after every second one, two
tries and four connections let a receipt see a retry, a fallback from segments, a resume, a
failover and an unreported stretch. Two commands of Studio
meet at its mutex. `MaxOps`, `MaxEdits`, `MaxCmds` bound the user, `MaxFaults` failures
and crashes.

*Fairness.* `QFairness`: the runtime polls woken tasks and runs drops, and a
download ends and drops its permit; nobody has to start, cancel or reorder.
`Transfers`: a spawned task is polled until it ends; the user owes nothing. In
`ArtifactDownload` weak fairness of `Step` says that every await returns: the HTTP
client has a connect timeout of 15 s and a read timeout of 300 s, tracker lookups
are capped, and file and database calls return. It does not say that a source
delivers, only that it delivers, fails or ends. The other modules assume the same
kind of things: the runtime polls tasks and timers (`LaneStep`, `Promote`, `Watcher`,
`Housekeeping`, `Tick`), requests end one way or another, a request that is not lost
arrives, time passes, frames are drawn while the window is open. Nothing is assumed
of users, peers, the tracker's catalog or crashes.

## 5. Proofs

Every safety invariant and every action property that a run checks is stated by a
theorem, of its component's own specification or of the collecting module's, for every
value of the constants. All leaves are checked by tlapm with Z3, Zenon and LS4; nothing is assumed but the named assumptions on
the constants, which TLC evaluates on every instance:

- `QueueAssumption`, `TransfersAssumption`, `ArtifactAssumption`, `StripedFetchAssumption`:
  finite sets of tasks, sources, providers and lanes, positive sizes, the user interface is
  none of the tasks;
- `RegistryAssumption`, `SharingAssumption`: finite sets of peers and blobs, a lifetime of at
  least a tick, "no sha256" is no hash, this device is a peer; nothing about which sha256
  belongs to which blob;
- `CasIndexAssumption`, `ManifestAssumption`, `UploadsAssumption`: finite sets of
  processes, manifests and requests, a prefix within the blob;
- `SeedsAssumption`, `RatioAssumption`: there is a file name, a bound on uploads;
- `SettingsAssumption`: the default tracker is a tracker; `LibraryAssumption`: a title has
  at least one artifact, and the weights of a title with one artifact are that artifact;
  `FoldAssumption`, `ShareAssumption`: natural bounds, and "nobody" is none of the sources
  or commands;
- `ExploreAssumption`: some query (the empty one) matches everything; `UpdaterAssumption`:
  a bound on versions.

The bounds on the environment (`MaxOps`, `MaxCrashes` and the like) are any natural
numbers. `CardsAssumption` (a bundle has at least one artifact) is a hypothesis of the
lemmas of `StudioProofs`, proved for each instance. A theorem that needs more says so in
its `ASSUME`, and the reason is below.

`MCStore`, `MCPeers`, `MCPages` and `MCDesktop` have one theorem per property of their
run (but for `RegistryInv`, which is a theorem of `RegistrySpec`). Each part has
an inductive invariant of its own over its own variables; a step of the module is a step
of one part and leaves the others' variables alone, so the conjunction is
inductive.

`TransfersProofs`, the queue:

- `QueueTypeCorrect`, `QueueConservesSlots`: `QSpec => []QTypeOK` and
  `[]SlotsConserved`. Neither is inductive alone: that a release does not exceed
  the number of slots follows from the sum, and the sum needs the types. Hence
  `PermitInv == QTypeOK /\ SlotsConserved`. `OwnersStep` counts how a step moves a
  task into or out of the owners.
- `QueueLosesNoWakeup`: inductive together with `PermitInv`. Each action either
  does not make a parked front with a free slot, or is itself followed by a
  notification (`Notifying`, `reorderNotify`), or is `NotifyWaiters`, which wakes
  every listener. That a task is `Listening` from before its check is what the
  argument turns on.
- `QueueListsTheWaiting`: `WaitingIsExact` under `DistinctIds`, the contract that no
  two callers use one id. It rests on lemmas about `Without` and the four
  reorder moves as permutations. `Transfers` shows that the callers do not keep
  the contract while a run ends (section 6, `QueuedIsListed`).
- `QueueAdmitsInOrder`: under the same contract `QSpec => Admission!ASteps`. A task
  joins the abstract line when it is listed, is admitted when it takes its entry out
  of the list with its permit in hand, and leaves when it drops the entry or the
  permit; every other step is a stutter. That only the front is admitted is not what
  one step checks: the front test and the permit come before the removal. `FrontInv`
  says that, as long as the user has not reordered, whoever has passed the test still
  is the front; after a reorder the abstract queue lets it pass as well.
- `QueueImplementsAdmission`: with `EventuallyAdmitted` as a hypothesis the whole of
  `Admission!ASpec` follows, its liveness part included. That hypothesis is the
  liveness property of the `queue` run, which TLC checks.

`TransfersProofs`, the runs: about `Spec` of `Transfers` with every command, a hasty user and
any number of crashes unless stated:

- `TransfersTypeCorrect`: `TypeInv` adds to `TypeOK` that what a run or a call
  refers to is there (`Refers`): a run past its lookup and a call that asks for a
  pause or a stop hold a control.
- `ExecutingExact`: `ExecInv` is the property with its count written out as uniqueness; it
  is inductive with the types, per control rather than per transfer, because a discard
  can give a transfer a second control. The proof follows who may set the flag (the one
  swap of `try_begin`) and who may clear it (the run that holds it).
- `DownloadLimitHolds`: `SlotLink` ties the phase of a run to its place in the queue (a
  run that downloads holds a permit, an interrupted one is parked until its tail drops
  the `acquire` future); the rest is `PermitInv` of the queue, which `Transfers`
  inherits because its runs take the queue's own actions.
- `NoGhosts`: `GhostInv`, the list has no id twice and none without a task inside
  `acquire`. It holds without `DistinctIds`, which `Transfers` does not keep: every
  step that ends a waiter removes its id altogether.
- `IdleCardsCanResume`, for `MaxCrashes = 0`: `Owned` says that a control belongs
  to one transfer, `CardInv` that an active state is backed by a run that will still
  set a final one and a running card by a run whose end will be handled. With a restart it is false: that is
  the finding of the run `restored_card`.

`TransfersProofs`, the files. The three theorems assume `Patient` (a
transfer is started or resumed only when no run of it is alive) and that `Remove` is
none of the commands; section 6 has the races by which a hasty user or a removal
breaks each of them (`NoTwoWriters`, `StopDiscardsOnItsOwn`). Crashes are allowed.

- `PartsHaveRows`: `SoloInv` says that a transfer has at most one live run and that only
  that run discards it; `RowInv` that a run that writes has its row, that a row is
  deleted after its file, and that a failed row without a file, also one on the list a
  reconcile made earlier, belongs to nobody who still writes.
- `PausesKeepBytes`: `AskedInv`, whoever discards (by the flag, by the latch, or at the
  steps that delete) was asked to stop.
- `StoppedLeaveNothing`: `StoppedInv`, a run that will report `Stopped` has left nothing
  or the discard is still to come: flagged, latched or in progress.

`NetworkProofs`, the artifact download:

- `ArtifactTypeCorrect`: `TypeInv` adds to `TypeOK` that a run past the plan has a
  source (`Trying`) and that attempts are left where one is about to be made
  (`AttemptsLeft`). `SegmentBounds` shows that no segment reaches past the end.
- `ArtifactCacheIsSound` and `ArtifactAligned`: `SoundInv` says that file and verifier
  agree wherever a stream is (`FileIsFed`), that a run about to commit has exactly
  the right content in the file (`CommitsContent`), and the property. `Aligned` is
  a consequence.
- `ArtifactHonestNeverBlamed`: `HonestInv` says that with honest sources a leftover
  is either a prefix of the right content or as long as the artifact, which a
  stream never resumes, and that nothing the verifier has consumed is wrong.
- `ArtifactGoodSourceSuffices`, an action property: `PlanInv` says that a reliable
  source stays in the plan of a run until it is banned. A source being tried is the
  head of the plan until the failover drops it; the failover is reached only from a
  source that is not reliable or that `Poisoned` has just banned. That a plan names
  every source without a ban is a counting argument (`PlanIsComplete`).

`RegistryProofs`:

- `RegistryTypeCorrect`, `RegistryLookupExact`: `RegistrySpec => []RegistryTypeOK` and
  `[]LookupExact`, for peers that give any sha256, also another blob's blake3, for any
  blob: the records do not depend on the aliases, which only say which blob's are returned.
  `LookupExact` only speaks of live records, so a step of time does
  not preserve it alone: `LookupInv` says that every record, expired ones included,
  has the ticks left that its peer's last word has (`RecordsClaimed`), and that a peer
  whose word still holds has a record (`ClaimsRecorded`). One lemma per operation
  gives the records after it; an announce replaces only its own peer's record, and a
  prune drops only what has expired.
- `RegistryCorrect`: `RegistryInv`, with `RowsAgree` in addition. Rows count node ids
  and lookups return records, so it needs `OnePerDevice`: a blob has at most one
  record of each peer.
- `RegistryKeepsAliases`: `[][AliasKept]` from the same invariant: an alias names a blob
  that somebody announced, and is dropped only when nobody's word on that blob holds.

`NetworkProofs`, sharing:

- `SharingOnlyConsented`: `SharingSpec => []SharingInv`, for any number of
  the user's decisions, lost and late requests and ticks. `OnlyConsented` speaks of the
  store, the requests and the catalog; what goes there comes from lists that were
  taken some awaits earlier. `ConsentInv` therefore adds that the lists the loop and
  the tasks carry were consented (`ListsConsented`), and that a choice that makes a
  blob shareable was (`ChoicesConsented`, which with `IsBlobShareable` gives
  `ShareItems \subseteq consented`). That the catalog lists only what this device
  announced uses `LookupInv`'s types and one lemma (`ListedOnlyByAnnounce`).

`NetworkProofs`, the striped fetch:

- `StripedConservesPieces`: `StripedSpec => [](StripedTypeOK /\ PiecesConserved)`, for
  any number of fetches that share the file. `PiecesInv` is stated per fetch over its
  locals, peers and lanes (`Sound`), so that a step of one fetch leaves the others'
  part alone. Its parts: lanes work only for a peer that is up in a fetch that stripes
  (`Swarm`); no two places hold one piece (`Places`); the count of pieces left is the
  number of places, and strictly more once a piece was given up (`Counted`; the
  property alone does not say that, and without it a fatal fetch might count to
  zero); attempts stay within the limit (`Tried`); what a peer may still fail is
  bounded by its busy lanes (`Budget`), which is what bounds `fails` in the types:
  lanes that already hold a piece can push a peer past its budget by their number.
  `InOrderEnumerates` shows that a fresh queue names every piece once.
- `StripedDeliversWhole`: `StripedSpec => []StripedInv` for one fetch at a time and no
  crash in the phase `"header"`. `FileInv` relates queue, lanes and disk: lines of the
  journal, and lines about to be written, name pieces that are in the file at the
  path (`LinesHeld`, `AppendsHeld`); as long as that file is there, lanes write to it
  and not to an unlinked one (`LanesWrite`); and what is not in it is queued or with
  a lane, unless a piece was given up (`Covered`). With `Counted`, nothing left means
  an empty queue and no busy lane, so every piece is in the file. Both hypotheses are
  necessary: section 6 has the counterexamples.

`StoreProofs`:

- `StoreCorrect`: `StoreInv`, with two invariants. For the content store (`CasInv`),
  `NeverHalfABlob` needs that nobody writes to the blob: the temporary file of an
  import is never the blob, as long as no two imports met in it, it belongs to the one at
  work and is whole before the rename (`TempIsPrivate`), and a copy fills either a fresh
  inode or, with `overlap`, one that another install made. `InstallDelivers`,
  `EvictLeavesNothing` and `ReconcileHeals` need how far an operation that runs alone has
  come (`InstallAlone`, `EvictAlone`, `DoneAlone`, `CleanIsAlone`); that any of the copies,
  writes and removals may fail only ends it before it reports success. That a process
  finds a fresh inode is a count: the inodes used and the processes about to take one do not exceed the operations begun
  (`Bounded`). For the manifest store (`ManifestInv`), memory and disk hold the same
  editions except where a write was cut short (`DiskAgrees`), and the lists by slug name
  stored ids only (`SlugsStored`); with that, a load after a crash rebuilds what was
  answered.
- `UploadsCorrect`: `UploadInv` says that the counters count the slots (`Counts`), and per
  request what its slot has seen (`SlotFollows`) and what was counted for it
  (`CountedFollows`): at most what it was sent once for each time it was reaped, and
  what its present slot has. That a reaped transfer that goes on is counted anew is
  where the bound of `UploadedExact` comes from. `OffListed` says that a stop of
  sharing has on its list every connection it has to sever.
- `NothingIsForgotten`, an action property: a digest leaves a row only with the row, and an
  alias only when nobody announces the blob (`LookupInv` of the tracker).

`PeersProofs`:

- `PeersCorrect`: `SeedsInv` says that an entry of the seeds map exists as long as it has a
  promotion or a torrent (`Entry`), and that a torrent of the session has its id in the
  entry, a promotion that will put it there or take it back, or a deletion under way
  (`NoLeakedSeed`). `FetchInv`: a fetch that has its torrent to itself finds it in the state
  it left it in (`OnItsOwn`). `RatioInv`: record, baseline and session together never account
  for more than was uploaded (`Accounted`); the record alone is not inductive, since a
  fresh session counts from zero.
- `PeersKeepPieces`: the action properties, from the same invariants.

`StudioProofs` has no theorem of a specification: its lemmas say that `CardsInv` is inductive for
any ids, links and starts, and `PagesProofs` and `DesktopProofs` instantiate them for the cards
their modules have. A card shown as moving is accounted for by a command at work, by
the end of its transfer on its way, or by its passing on to an id (`Accounted`). For
that to survive a step, no event in the queue may start a card whose end has been told
already (`Backed`), so the order of the queue matters: an end counts only behind
the event it ends. And a registered control has its command (`Known`).

`PagesProofs`:

- `LinksCorrect`: `OneImport`, the composer is closed while an import runs, and so there is
  one at a time.
- `SettingsCorrect`: what the engine was opened with is what the banner compares with
  (`InForce`), a seeder needs an engine and an engine an app (`Needs`), and a stop is in
  memory, and on disk unless its write failed or the file was torn since (`StopWritten`,
  with the history `unwritten`); with these, `ServedIffWanted` is inductive.
- `RowsCorrect`: `BrowseInv` is the property with its types; `LibInv` says that the index has
  a row for exactly the files on disk unless a file went unnoticed (`LibDisk`), and that
  a title with a card is known to the database (`CardsKnown`), which is why only a new
  title can make the Library's list out of date.
- `ReceiptCorrect`: `FoldBytes` relates what the card counted to what came over the network:
  never more than reported, and for each connection announced, retries and the
  fallback from segments included, a first report that counts nothing and a last stretch
  that is not reported may be missing (`Allowed`). `FoldRoute`: legs go to sources the run has
  been through, the card shows the source of the attempt under way, and between two
  attempts the reason of the next leg is a source that failed; a new source is none of
  those, so it is never its own reason.
- `StudioCorrect`: `HeldInv` says that the mutex is held exactly by the command that is
  between its steps (`HeldLock`), and that what is served is shared, or comes from a list
  taken before the stop, or belongs to a command that is about to take it down
  (`Excused`). With `CardsInv` for both instances.

`DesktopProofs`:

- `ViewsCorrect`: `PageInv` says that every spinner has its request in flight (`Awaited`)
  and that card and conversions are of the model they were asked for (`Fitting`); the
  requests are a bag, because a click may ask again for what is under way. `LooksInv`: one row per
  content, in the listing and in the answer under way.
- `UpdaterCorrect`: `UpdInv` says what a swap has to rely on between its steps. What comes into
  the bundle's place was whole when it was last looked at, the old app is whole
  aside while that place is empty (`UpdWhole`), and what is on offer, checked or applied is
  newer than what runs (`UpdOffers`).
- `NothingIsUndone`: from `UpdOffers`, no step leads to an older version; and every step that
  switches the schedule off restores the normal caps.

Only model-checked: the liveness properties (`EventuallyAdmitted`, `EveryRunEnds`,
`RunEnds`, `PeersSettle`, `NetworkSettles`, `ViewsSettle`), since proofs under fairness are
out of this prover's reach, and the two violations. `QueueImplementsAdmission` takes the
first of them as its hypothesis. Theorems of collecting modules are about the constants
the module leaves open; `MCPages` has one bundle and one model started twice, which fixes
the ids and starts of its cards, and `StudioProofs` has the general statement.

## 6. What the checks found

Two promises of comments that the code does not keep, each with a run:

1. `restored_card`. After a restart a rebuilt card has a fresh control in state
   `Queued`, which `engine_executing` takes for a run, so Resume refuses it.
2. `schedule_idle`. `set_bandwidth_schedule` starts its ticker only when the caller
   is inside a tokio runtime (`core/engine.rs` 1095). The desktop calls it from its
   window's thread (`desktop/main.rs` 1702, 1990) and Studio from its main thread at
   start-up (`studio/main.rs` 96): no ticker runs, and the caps stay those of the
   hour in which the schedule was set.

Races and gaps without a run of their own. The modules state each as a formula, and
TLC refutes it in a few steps when the formula is added to a configuration:

- `StopNotLost` (`Transfers`): `try_begin` sets `executing` and clears `cancel` and
  `discard` in three operations. A stop in between is erased and the download goes
  on, although the comment says that this cannot happen (`core/transfer.rs` 125).
- `QueuedIsListed`: a run interrupted while queued keeps its pinned `acquire` future
  until `run_transfer` returns, after `executing` was cleared. A new run of the same
  transfer can queue under the same id in between; then the old future's guard
  removes the new run's entry, and that run is never admitted.
- `OnlyPoisonersBlamed` (`ArtifactDownload`): the row's `source_id` is written at
  4 MiB, at the end and on a cancel. After a failover and a crash it names the first
  source while the partial holds the second one's bytes; the first resumes it and is
  banned for bytes it never sent.
- `JournalSound` and `DeliversWhole` (`StripedFetch`) with `"header"` in `CrashPoints`: a
  journal can outlive its scratch file (the single-peer fallback removes the file
  before it moves the blob there, a stop removes the file first). The next attempt
  finds no file and makes a new one of full size before it overwrites the journal
  (`core/iroh_node.rs` 1127-1132). A crash in between leaves the old lines beside an
  empty file of the right length, and the attempt after it takes them as done,
  although "anything stale falls back to a fresh start" (1115). The engine's verifier
  refuses the result. The attempt to prove `JournalSound` found this.
- `DeliversWhole` with two `Fetches`: two transfers of one blob share the scratch file,
  and the `File::create` of one truncates what the other streams.
- `StopDiscardsOnItsOwn`: a removal between `LatchDiscard` and `EndExecution` is
  turned into a stop that nobody acts on; partial and row stay until a restart.
- `NoTwoWriters`: `discard_transfer` unregisters a control that a new run has just
  begun with; the next run gets a second control for the same partial.
- `ReconcileSparesLive`: `reconcile` acts on its snapshot of live transfers after a
  new run has begun.
- `NeverClobbers`: `set_transfer_state` reads and stores in two critical sections,
  and a pause in between is shown as Downloading (the flags still work).
- `NoSpuriousFailure`: a resume on a stale `running` flag starts a second run, which
  fails as already running.
- `UnsharedIsUnseeded` (`BtSeeds`): after a restart the session serves its persisted
  torrents before the seeds map has an entry (`core/transport.rs` 1555,
  `core/engine.rs` 3530); a stop sharing finds nothing to unseed.
- `StoppedIsUnserved` (`Sharing`): a pass or a refresh that read the old choice seeds
  the blob after the stop has unseeded it, and nothing takes it out again.
- `ShareOnShares` (`Sharing`): a gated model whose sharing went off with the global
  switch has an override already, so turning it on asks for no confirmation and shares
  nothing, although the desktop says that it does.
- `RollbackRestores` (`Updater`): the rename that moves the backup back is ignored
  when it fails (`desktop/updater.rs` 599), and the user is told of the first error
  only.
Statements of the documentation that differ from the code, without a run:
`docs/architecture.md` says that source B resumes at 60 % where source A dropped,
while without a cached chunk tree a partial of another source is truncated (`core/engine.rs` 1915-1921); it
and `core/error.rs` 148 say that a source is banned for the session, while the ban
has a cooldown of six hours and survives restarts (`core/planner.rs` 168-193).
The desktop speaks of a 30-minute lifetime of announcements (about
`desktop/main.rs` 1851), and the registry keeps them for 15.
`docs/threat-model.md` 39 describes a global opt-in for gated content, which has no
effect without the confirmation of each model. The comment on `by_slug` says "in
insertion order; last is latest" (`registry/main.rs` 325), which holds neither after
a restart, where it is the order of the directory, nor after a re-publication.
`is_expired` of a release is there so that
callers "*also* try a fallback source rather than to reject outright"
(`core/update.rs` 167); its one caller rejects.

Narrow races and gaps met while modelling, outside or at the edge of what the
properties say:

- *Store.* A cache hit by sha256 or git oid does not look at the file
  (`core/engine.rs` 1713). Two imports of one content share a temporary name, and a
  blob can be published half written (`overlap` of `CasIndex`, without which
  `NeverHalfABlob` is refuted). A commit
  or an install between the steps of an evict or a reconcile leaves a row without
  its file until the next reconcile. Where neither reflink nor hard link works, an install
  copies in place (`core/cas.rs` 294): a crash or a full disk leaves half a file at the
  destination, to which the view of an earlier install may still point
  (`view /\ dest # 0 => dest \in whole` is refuted). Two installs at one destination can
  copy over a hard link of the blob. A sidecar is written in place (`cas.rs` 250): a
  `meta.json` torn by a crash makes `blob_meta` an error, which blocks every later commit of
  this content (`cas.rs` 196) and every evict that reaches it (`core/engine.rs` 3959). An evict
  that fails at the sidecar leaves row and chunk tree without the blob, until a reconcile.
- *BitTorrent.* `ensure_bt_seeded` decides some awaits before it seeds
  (`core/engine.rs` 2817); a magnet can be persisted after a stop has cleared it
  (`core/transport.rs` 2206); a session that fails to start leaves its promotion in
  the entry (1318-1325); a late deletion can hit a torrent added again meanwhile.
- *Sharing.* The engine's set of seeded blobs is not updated by an unseed. A withdraw
  that is lost leaves the content listed until its TTL.
- *Registry.* The tracker takes the sha256 of an announce as it comes (`registry/main.rs`
  102-126) and resolves every query, one by blake3 too, through the alias (169): an announce
  that gives a blob's blake3 as the sha256 of another sends the lookups of the one to the
  other, as long as that one is announced. `LookupExact` and `RowsAgree` say so. An alias
  whose blob has expired redirects to nothing until the next prune. A manifest that is
  renamed stays listed under its old slug until the next load. A crash or failed write while a manifest is written again loses it.
- *Settings.* A failed start at launch turns sharing off in memory, and a later save
  persists that. A torn settings file is read as the defaults, in which sharing is on
  (`desktop/main.rs` 9657-9662). A write that fails is not reported (4283-4288), so that a stop
  of sharing whose write failed is undone by the next launch.
  After an edit of the tracker without a restart the seeder announces to the new one
  and withdraws from the old. The banner does not speak of `iroh_download`, the `bt_`
  options and `max_concurrent`: `ConnSnapshot` (508-530) is not all that is read only at
  start-up, as its comment has it.
- *Library.* A bundle's row ignores its sidecar files. A bundle is listed once its
  first shard is cached, and Delete removes that shard only. The popup's `cached` is
  frozen when it opens. Pause all is disabled when every card is queued. A delete
  that fails is not followed by a refresh. A run that passed over a file deleted
  meanwhile ends well.
- *Progress.* A bundle sums `done` over its files while the start of an attempt is per
  file (`desktop/main.rs` 9571). An Iroh partial that is larger than the HTTP one, or
  an interrupted verification, is overcounted.
- *Composer.* A scan that imports a file again overwrites the title and licence the
  user gave (`desktop/main.rs` 2162, `core/db.rs` 304).
- *Schedule.* Setting a cap does not update the schedule's normal cap, and overrides
  the alternative one inside the window.
- *Studio.* A second start of running content emits `done` with an error on the live
  card, whose Remove then stops the live download. Pause and Stop on a provisional
  card do nothing and say nothing. A late `done` of a paused run hides the next one.
  A list taken before a `done` leaves a card without a transfer. The announce after
  an import runs without the mutex; the shutdown withdraws before it stops seeding.

## 7. What the models leave out

- *Digests* match exactly the right content; hash collisions and the computation of
  digests are not modelled.
- *Abandoned writes.* When one of several connections fails, the others' futures are
  dropped. A write already handed to the blocking pool is taken to land before the
  truncation that follows. If it landed later it would leave a sparse prefix.
- *Power failure.* A crash is a crash of the process: what was written stays, in order.
- *Cooldowns* end between runs. A ban that ends during a run makes no difference to
  the run's plan, and only makes the loop skip a source it might have tried.
- *Policy.* `Source` is the set of sources policy allows. A disk ceiling and warnings
  are not modelled.
- *One artifact per manifest* in `Transfers`; several are downloaded one after the
  other by the same run.
- *One run per partial* in `ArtifactDownload`: what `Transfers` is about.
- *Counters* of the health table, latencies and scores; pacing; names, labels and log
  lines.
- *Libraries.* Connections, protocols and the inside of the Iroh and BitTorrent
  engines: their sessions keep what is added until it is deleted, and their events
  come in order per request.
- *Time* is a clock that may tick whenever it could; a timeout may fire whenever the
  code waits. Real durations only appear as their order (`Window` before `TTL`).
- *Requests* of the registry are parsed and authenticated before the model sees them:
  signatures and rate limits are left out, replays within the freshness window not.
- *Failures without a trace.* Writes of the database succeed. A reconcile that fails leaves the
  Library as it was (`LibraryRows.Refresh` reconciles always). `BtSeeds.Unseed` always has the
  torrents deleted; the code does so only inside a runtime and ignores a failure
  (`core/transport.rs` 1584-1593). A tracker lookup that fails or times out answers (0, 0) and
  overwrites the counts of a model page (`core/engine.rs` 3462-3479); in `ModelPage` lookups
  answer, so `CountsFollow` is about a tracker that can be reached.
- *Schedule.* The window is open or not: which minutes and weekdays it covers (`active_at`)
  is left out.
- *Studio.* A control that has not begun is listed as no card; the code lists it as queued
  (`core/transfer.rs` 76, `App.svelte` 89).
- *Settings* that only change how a page is drawn; actions that open a folder or a
  browser.
- *Updates.* Replacing the program's own file is one rename, as on Unix; on Windows the
  running file is moved aside first. Archive formats, installers and platform tools
  succeed, fail or are cut short; the manifest's fields are version, key, freshness and minimum.
- *Progress* of bundles and of files with a chunk tree, for which the comments of the
  code and section 6 say what the numbers mean.
- *What `part` separates.* The parts of a collecting module are not composed with each
  other; where components interact (queue and transfers, sharing and tracker, commands
  and webview) a module composes them.

Components that are not modelled, and why, are in `PROJECT.json`: pure parsing and
formatting, cryptography, third-party code, drawing, and what section 8 plans.

## 8. Plan

What is left, the most valuable first.

1. That a striped fetch implements an atomic set of pieces that grows to all of them:
   `PiecesInv` and `FileInv` are what its refinement needs.
2. The disk theorems of `Transfers` with `Remove` for a transfer that no run holds.
3. Compositions that are only argued now: `BtSeeds` under the decisions of `Sharing`;
   `CasIndex` under the runs of `Transfers`.
4. The safety parts of the liveness properties, such as that a ticker, once it runs, sets the
   caps of the hour it read (`TickerFollows` of `SpeedLimits`).
5. Pure algorithms against reference definitions: eligibility and score in the
   planner, policy, the arithmetic of pieces and segments, the order of versions.

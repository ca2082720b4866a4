# MaxPrice: a specification of the fleet

MaxPrice reads the transcripts Claude Code leaves on each machine and reports what they would cost.
Several machines form a *fleet*: each contributes its usage rows to a Hub, the Hub keeps the archive
of record, and each machine may hold a *Fleet replica* of that archive and report over it. This
directory specifies the parts of the program that hold state across awaits, processes and machines:
the replication and its recoveries, deletion, what a machine keeps and contributes, how a change of
the corpus or of the settings reaches the engine, and the pollers. The modules are TLA+, checked with
TLC and, where "Proved" says so, with TLAPS.

Paths below are relative to `src/`. `PROJECT.json` maps every definition to the lines it models,
lists every component with what is modelled of it, and every hazard at the line where it bites.

## The system

| Component | Where | State | Operations |
|---|---|---|---|
| Merge rule | `packages/shared/src/fleet-dedup.ts` | none | which of two copies of a dedup key is kept |
| Hub archive | `fleet-sync-store.ts` (`hubStore`), SQLite | rows, change history, cursor, seq counter, Deletion generation, floor, receipts; snapshots in RAM | push, remove, changes, snapshot page, prune, restart, restore |
| Fleet replica | `fleet-sync-store.ts` (`replicaStore`), SQLite | rows, epoch, cursor, generation, a partial seed | apply a snapshot page, apply changes, unlink, reopen |
| Local archive | `fleet-sync-store.ts` (`archiveStore`), `local-archive.ts` | the machine's copy of rows whose transcripts may vanish | append, sweep, forget, open, chunked seed, stop |
| Event sync pump | `packages/usage-core/src/event-sync.ts` | gates, fences, acknowledgements, dirty keys | pull, push, kick, suspend, resync |
| Hub client | `hub-client.ts`, `sse-pump.ts` | connection, streams, backoff, samples owed | connect, backfill, push up, fall back, reconfigure |
| Fleet coordinator | `apps/sidecar/src/fleet.ts`, `fleet-forget-intent.ts`, `eligible-contribution-view.ts` | reconcile chain, forget intent, retained report view, what may be pushed | rebuild, prepare contributions, forget |
| Event engine | `apps/sidecar/src/engine/store.ts` | the rows every report reads, this machine's contributions | append, feed, evict, forget, replace contributions |
| Report caches | `engine/report-cache.ts` | built reports, buffered changes | cold build, refold, evict, swap |
| Hub server | `apps/hub/src/server.ts`, `machine-directory.ts` | routes, directories | fence a push, 410 a gap, purge a machine, recover a purge |
| Hub restore | `apps/hub/src/restore.ts` | staged files | place a backup under a fresh epoch |
| Usage pollers | `poller.ts`, `usage-poller.ts`, `poll-set.ts` | one poll in flight per Organization, its key | poll, replace the key, hand over, discover |
| Corpus walks | `scan-gate.ts`, `watcher.ts`, `watcher-restarts.ts`, `tail-reader.ts` | one queue of walks, the installed watcher, offsets | walk, coalesce, restart, read what was appended |
| Organization evidence and repair | `organization-lifecycle.ts`, `organization-repair.ts` | tracked set, repair marker, done lists | change of the set, repair of archive and Hub |
| Process, operator, CLI, shells, UIs | `serve-lock.ts`, `apps/cli`, `apps/desktop`, ... | processes and files | not modelled |

**How they interact.** A client contributes with `POST /api/events` under a *fence*, the archive's
epoch and Deletion generation. The Hub stamps what it takes and appends one change. A replica seeds
from a snapshot pinned at a change cursor, a page at a time, then drains `GET /api/events` after its
cursor. The Hub pokes its streams after each change, and a status frame carries the newest epoch, seq
and generation. A client that meets a foreign epoch, a 410 or malformed data *recovers*: it gates both
loops, empties the replica, rebuilds the engine from its sources and resyncs. A deletion (a forget or
an operator's purge) raises the generation, which refuses every push under an older fence: each client
must read its own sources again before it contributes under the new one. An edit of the tracked set
runs through the same reconcile chain, and its repair forgets on the Hub what the set now excludes.
A watcher and its walks feed the engine; the engine's change feed keeps the report caches.

**What makes it hard.**

* The clients run on one thread but await requests, feeds, walks and file operations, so timers,
  frames, disconnections and edits run in between, and what was read before may be stale after.
* A transaction commits *before* the RAM beside it follows (a replica before the engine, rows before
  directories, a Hub's deletion before the Local archive's), and anything may fail between the two.
* An aborted request's answer, an old status frame, a push its sender gave up on, a poll's answer after
  its key was replaced: each arrives after the state it was computed from.
* Histories are pruned, snapshots expire, processes die between two steps, and a Hub restored from a
  backup counts its cursors over again under a new epoch.
* A deletion must not be undone by what a client still has in RAM, nor run twice when its reply is
  lost.

## The modules

| Module | Models |
|---|---|
| `FleetDedup` | the fullness order of `fleet-dedup.ts` |
| `FleetMerge` | one key across stores that feed one another copies in any order |
| `HubArchive` | the Hub's SQLite archive and the routes that reach it |
| `EventSync` | each client's pump, replica, engine and recovery, composed with `HubArchive` |
| `FleetCopy` | the abstract specification a replica implements |
| `EngineStore` | the engine's event map, contributions and the competition of excluded copies |
| `LocalArchive` | the Local archive with its queue, its replays and a failing disk |
| `FleetForget` | a forget: intent, receipts, archive gate, resume, a restored or another Hub |
| `ContributionView` | the view of what a client may push, and the push's bookkeeping |
| `Reconcile` | the coordinator's reconcile chain and the settings driver |
| `OrganizationRepair` | the repair, its marker and done lists, joined runs, Hub and write faults |
| `HubMachines` | a purge across the archive, the names and the identities; startup recovery |
| `RestoreStaging` | the file operations of a restore, kills, power loss, the boot after |
| `HubClient` | connect, backfill, push-up, fallback, backoff, streams and reconfiguration |
| `UsagePoller`, `PollSet` | a client's poller; the Hub's discovery of the Organizations its key lists |
| `ScanGate`, `WatcherRestarts`, `TailReader` | the walks, the watcher, the reading of growing files |
| `ReportCache` | one family of the report cache over the change feed |
| `Merge_proofs` | theorems about `FleetDedup`, `FleetMerge`, `EngineStore` and `TailReader` |
| `HubArchive_proofs` | theorems about `HubArchive` |
| `EventSync_proofs`, `EventSyncPush_proofs` | theorems about `EventSync` with `HubArchive`, the refinement of `FleetCopy` included |
| `FleetClient_proofs` | theorems about `LocalArchive`, `ContributionView` and `HubClient` |
| `FleetForget_proofs` | theorems about `FleetForget` |
| `HubServices_proofs` | theorems about `UsagePoller`, `PollSet`, `HubMachines` and `RestoreStaging` |
| `Changes_proofs` | theorems about `ScanGate`, `Reconcile`, `WatcherRestarts` and `ReportCache` |
| `MCEventSync` | small fleets for `EventSync` |
| `MCMerge`, `MCHub`, `MCSync`, `MCSyncLive`, `MCFleet`, `MCFleetLive`, `MCChanges`, `MCChangesLive` | *suites*, below |

Each module opens with what it models, where its actions cut the code, and what stands for what. The
correspondences a reader of the code would ask about:

**FleetDedup, FleetMerge.** A copy is its token total, its Organization tag (a positive number in the
uuids' order, `NoTag` for none) and its session, which the order never reads. `held` is the copy a
store keeps; the auxiliary `seen` is every copy that reached it, itself or through another store.

**HubArchive.** One variable per table or `meta` row of the SQLite file, and the snapshot map in RAM.
Each operation of `hubStore` is one transaction, so one action. `AppendChange` includes the prune that
`appendChange` ends with, and any prefix may go, since age and bytes are not modelled. The auxiliary
`history[e][n]` is what archive `e` held at cursor `n`; no action reads it but the backup a restore
starts from.

**EventSync.** `sync[c]` holds the variables of the `createEventSync` closure and the locals of its
running pass; `pc` is the await the pass is at. An action is what the thread runs between two awaits.
`StartPass`, `Kick`, `Suspend`, `Resynced`, `Disconnected` are functions of the closure's state, as the
code's closures are. `generation` and `resetGeneration` are compared only with the values a pass
captured when it began; they are the flags `stale` and `reset`. Aborting a request makes its await
throw before any other event runs, so an abort ends the pass in the same step. `engine` is what the
replica's feed gave the engine, `local` the machine's own contributions. `PeerPush` is what any
client's accepted push does to the Hub, `Purge` is any machine's deletion seen from the clients. A
request to a stopped Hub may be answered by the one that comes up in its place. The feed's own awaits
are settled promises, so a fed change is atomic with respect to a forget.

**LocalArchive.** The opening with its replays is one action; links of its chain and chunks of a seed
are where other events come in. **FleetForget** has replica and sharing on; a pull is one step; a
disconnect ends pushes in flight; a restore happens while disconnected; the stores a rebuild retains
or seeds are `Reconcile`'s. `GoneStaysGone` speaks of batches that removed rows, since only those raise
the generation. **ContributionView** pushes without a replica.

**Reconcile** takes ingestion as settled and the repair as one step, with a reachable Hub.
**OrganizationRepair** always has a Hub configured; `stop()` and permanent refusals are left out, and
a pass that throws leaves its work to the next run. **EngineStore** batches one record at a time; the
auxiliary `own` is the set of copies this machine's sources offered; ties go either way.

**HubMachines** interleaves at the purge's one await; an unreadable identities file is the degraded
mode; the command line completes a pending receipt. **RestoreStaging** cuts at every file operation
and keeps the states of the data dir since its last fsync in order: a power loss leaves one of them. **HubClient** merges the kinds of fallback into one
and leaves out the healing of the Hub's key. **UsagePoller** abstracts deadlines and staggering to an
armed timer; the flag `live` says a poll was asked in the present epoch. **PollSet** abstracts its
retry and discovery intervals; credential writes end in any order and may fail after they wrote; the
boot is atomic, since `/api` waits for it.

**ScanGate** counts versions of the disk: a walk has read one, a store holds one, and the walk's lines
reach its store when it ends. `rebuild` is the rebuild under way, with what its own walk read and what
it caught of the store it will replace (`rebuildEngine`'s `appended`); its archive and replica reads
are the time between `FreshEnd` and `Swap`, when walks go on. The auxiliary `outrun` is the walks that
ended on a store no more installed. The walk of a deletion fence's preparation is a walk like another.
**WatcherRestarts** closes a superseded watcher at once; a *mute* watcher has lost its watches and
reports nothing. **TailReader** retries a failed flush at the next event, as the code does; its
liveness leaves out files whose truncation was not noticed before they grew back. **ReportCache** has
one family, chunks of one row and batches of one change; the presumption that a row's price holds
follows the pricing rule and is left out.

## The runs

Runs share their suites: a suite holds the variables of several components and lets one of them move,
chosen in the initial state by the constant-valued variable `part`; the others rest in their `Init`.
A suite EXTENDS the modules whose properties are proved, so that a run checks the very definition a
theorem states; other components it instantiates over variables of its own, a scenario an instance.
Where one extended module has several scenarios, `part` narrows its `Next` by a conjunct over the
primed variables (`ArchiveBounds`, `ForgetBounds`, `ClientBounds`); so do `MCSync` and `MCSyncLive`,
to the events that fleet makes plenty of.

| Run | Instance | Distinct states | Checks |
|---|---|---|---|
| `MCMerge` | 3 stores, 2 totals, 2 tags; the engine with 1 key, 2 sessions, 4 steps | 617 K | `HeldIsFullest`, `StoresAgree`, `CountsTheFullest`, `EvictedIsOwed` |
| `MCHub` | archive: 2 keys, 2 machines, 2 deletions, 3 changes, and with 2 epochs 1 key; 2 purges, 1 failed write, 3 processes; a restore of 3 files, 2 failed renames; 1 Organization and 2 keys to poll | 373 K | `HubTypeOK`, `ReplayReachesHead`, `SnapshotIsPinned`, `SeqNamesOneRow`, `ReceiptIsExact`, `OnlyADeletionLoses`, `PurgeHolds`, `ServedAfterRecovery`, `RestoreIsWhole`, `PollSetHolds` |
| `MCSync` | a replica and a peer: 2 keys in pages of one with 1 fault; 1 key with 2 faults | 861 K | `ReplicaIsPrefix`, `PartialSeedIsSlice`, `EngineIsReplica`, `CaughtUpIsProven` |
| `MCSyncPush` | a share-only client with a growing message; a replica that pushes beside a peer; a Hub restored from a backup | 222 K | `NothingLeftBehind`, `ReplicaIsACopy` |
| `MCSyncLive` | a replica that pushes, 1 fault, a purge or a restore, fairness | 36 K | `PreparedAfterDeletion`, `Converges` |
| `MCFleet` | the Local archive on a good and on a failing disk; forgets with a crash, a restore or another Hub; the view; the Hub client with 3 samples and 2 failures, or 2 samples, 1 failure and an edit of its settings; the poller | 1.5 M | `ForgottenStaysOut`, `ArchiveIsTrue`, `ForgetIsExact`, `PushIsComplete`, `SamplesAreOwed`, `PollingHolds` |
| `MCFleetLive` | Local archive, forget and view under fairness | 194 K | `ArchiveSettles`, `HubSettles` |
| `MCChanges` | gate, watcher, tail reader, reconcile chain (2 edits, 2 toggles, 1 mismatch, 1 throw), repair (3 instances), report cache (2) | 2.0 M | `OneAtATime`, `AnswerIsNotOlder`, `ReadingsStay`, `WatcherHolds`, `LinesLandOnce`, `AdmissionHolds`, `RepairHolds`, `ReportsHold` |
| `MCChangesLive` | gate, watcher, tail reader, reconcile chain and repair under fairness | 355 K | `CorpusIsRead`, `EditsTakeEffect` |
| `MCSyncRefeed` | a replica, 2 changes, 3 faults | violated | `EngineIsReplica` |
| `MCSyncGated` | a replica that pushes, 2 faults, one of them a failed rebuild, fairness | violated | `GateReopens` |
| `MCWatcherMismatch` | `MCChanges` | violated | `MismatchIsDegraded` |

What they show, in the order of the hazards:

* *No change is lost, doubled or reordered.* `ReplicaIsPrefix`: a seeded replica equals the archive at
  its cursor. `PartialSeedIsSlice`: a seed cut anywhere and resumed holds exactly the pages before its
  offset of one pinned state. `ReplicaIsACopy` is the refinement of `FleetCopy`: a copy is taken whole,
  only moves forward along one archive, and is dropped whole. All lean on the Hub's own
  `ReplayReachesHead`, `SnapshotIsPinned` and `SeqNamesOneRow`.
* *What is derived follows what it is derived from.* `EngineIsReplica`, up to the recoveries still
  under way and the mark that shows a degraded sync; `CountsTheFullest` for the engine's verdicts;
  `ReportsHold` for the reports; `LinesLandOnce` for the corpus.
* *Nothing is lost but by a new deletion.* `OnlyADeletionLoses`: rows only get fuller unless the step
  raises the generation and stores a receipt that was not there, so a retried deletion is harmless.
  `ReceiptIsExact` carries that across a restore; `ArchiveIsTrue` is the same for the Local archive.
  `ReadingsStay`: what a walk read the installed store keeps, though rebuilds replace it under a walk
  and after it; its exception is a finding below.
* *Nothing comes back.* `PreparedAfterDeletion`: what is pushed under a fence was walked after the
  deletion that made it. `CaughtUpIsProven`: the archive's gate opens only when every advertised change
  is in the replica. `ForgetIsExact`, `ForgottenStaysOut`, `PurgeHolds`: forgets and purges, cut
  anywhere and resumed, take what was asked, no more, and for good.
* *Nothing is forgotten.* `NothingLeftBehind` and `PushIsComplete`: an idle client with no work marked
  has nothing to offer. `SamplesAreOwed`: nor samples taken off the Hub. `Converges`, `HubSettles`,
  `ArchiveSettles`, `CorpusIsRead`, `EditsTakeEffect`: after the faults, everything owed is done. Of
  `EditsTakeEffect`, the faults are a Hub that fails once, disconnects or is another, and a restart. A
  pass of the reconcile chain that throws is not among them (`fleet.ts` 739, below), nor a write of the
  repair's own that fails: `armRetry` runs only at the end of a pass (`organization-repair.ts` 508), so
  what a pass that throws owes waits for the next run, which a connection, an edit or a boot asks for.
* *A late answer is recognised.* `PollingHolds`, `PollSetHolds`, `AnswerIsNotOlder`,
  `RepairHolds`.

### Bounds, and why they are enough

Every bound is a constant that guards the action it bounds. In the archive and the sync `MaxCursor`,
`MaxEpoch` and `MaxFaults` bound changes, epochs and faults together; `PullLimit`, `ChangeLimit` and
`BatchMax` are one, so that every page and slice boundary is crossed. Three changes are the fewest in
which a contribution, its deletion and its return all happen, with a reader between any two; two keys
are the fewest in which a snapshot takes two pages. Two totals make a copy grow, two tags make a tie.
One fault means each fault at each point; two and three are spent where one recovery meets another.
In `MCSyncPush` the restored fleet spends its fault on the backup, and the fleet with both a replica
and a peer has a peer's rows only while nothing failed; turning sharing off is the share-only fleet's.
Elsewhere the bounds are two of what competes (keys, pairs, roots, questions, purges) and one or two
failures. A watch that reports late is left out of the liveness (`MaxLates` 0), and `WatcherHolds`
claims that a deaf watcher is answered until one does (`ReadyCameLate`): see the
counterexamples. `CHECK_DEADLOCK FALSE` stands where a bounded component comes to rest: all suites but
`MCSync` and `MCSyncLive`.

Symmetry is used in `MCMerge` over stores and in `MCHub` over machines and operations, which no
definition names or picks by order, and never with a liveness property.

### Fairness

The modules state fairness beside their specification, and the live suites repeat it under `part`.
Weak fairness throughout means that what the process itself will run is run: continuations of settled
promises, queued links, timers, deliveries of events, retries with backoff. In the sync it is the Hub
answering (requests have a 30 second deadline), a pass that awaits an answer, feed or walk, the two
steps of the reconcile chain, reconnection, noticing a dead stream (idle deadline), and the
five-minute sweep; frames and pokes are not assumed. Strong fairness is assumed where a
condition comes and goes: `FleetForget`'s pull and push between disconnections, `LocalArchive`'s sweep,
and `OrganizationRepair`'s connect and retry timer.

### Findings

`MCSyncRefeed` violates `EngineIsReplica`. The first engine feed that fails in a connection recovers.
A second one only degrades (`event-sync.ts` 547), and the next `connect` clears the mark and drains
after the committed cursor: the page that failed never reaches the engine, and nothing shows it. The
comments at 374-375 and 531-532 promise a rebuild. `MCSync` shows that the property holds under any
two faults.

`MCSyncGated` violates `GateReopens`. `reconcileOnce` clears `pendingResync` and calls `resync` only after
`replica.unlink()` and `rebuildEngine()` have succeeded (`fleet.ts` 793-810); if one throws, the loops
stay gated through reconnections and sweeps. `event-sync.ts` 85 says `fleet.ts` "unlinks + rebuilds,
then MUST call resync()". The constant `RebuildMayFail` turns the fault on: it is TRUE in the safety
runs, FALSE in `MCSyncLive`, which shows that all converges when rebuilds succeed.

`MCWatcherMismatch` violates `MismatchIsDegraded`. A recovery on the previous roots clears the flag a
failed change of roots raised (`boot.ts` 1393, against 1410).

Further counterexamples met while modelling, each from the stated property of its module, which no
run keeps:

| Where | Property | What happens |
|---|---|---|
| `apps/hub/src/index.ts` 1125 | `HubMachines` | A purge the command takes up from a pending receipt answers with that receipt: events the machine contributed since its first run stay, though `apps/hub/README.md` 746 says they leave the archive. |
| `watcher.ts` 216 | `TailReader` | A read under way when its file is removed sets its offset after `forget`, so the recreated file is not read from byte 0. |
| `index.ts` 1807 | `ScanGate` | A rescan whose store a rebuild replaced before it ended has read into the replaced store, which the rebuild no longer hears: the installed one lacks what it found, though 1773-1774 say the store "gains missed events but never shrinks" (`RescansStay`). |
| `boot.ts` 1554 | `WatcherRestarts` | A late `ready` clears the flag whatever raised it. |
| `watcher-restarts.ts` 153 | `WatcherRestarts` | A roots change within the settle window of a loss builds its watcher over the dead watches. |
| `organization-repair.ts` 517 | `OrganizationRepair` | A repair joined to a run reads the set when its pass begins, so exclusion, re-tracking and exclusion may meet the first done list. |
| `organization-lifecycle.ts` 358 | `Reconcile` | The set is compared by value after the walk; a set that moved away and back passes with a store of the set between. |
| `fleet.ts` 739 | `Reconcile` | The chain leaves on a pass that throws, with coalesced requests still set. |
| `fleet-sync-store.ts` 556 | `FleetForget` | A forget that matches nothing on a restored Hub raises no generation, so it fences no contribution in flight. |
| `local-archive.ts` 476 | `LocalArchive` | A forget after `stop` in a process whose archive never opened is recorded as done locally. |
| `engine/store.ts` 992, 1482, 1431 | `EngineStore` | An eviction lists only the last displaced copy's pair; an excluded copy that lost to a fleet row is not kept for that row's deletion; a forgotten session's contribution below another machine's copy stays. |
| `hub-client.ts` 518 | `HubClient` | The floor is cleared when the batches are acknowledged, samples the poller took during the push included. |
| `server.ts` 1126 | `PollSet` | Two credential posts that overlap may store one key and arm the other. |

## Proved

TLAPS proves for every value of the constants what the runs check on small ones. Eight modules
hold the theorems, 58 in all; a theorem marked * states a property that a run checks, 33 of its 40.
An assumption on the constants is named in the module that declares them, and each run evaluates it.

**`Merge_proofs`**, from `DedupAssumption`, `MergeAssumption`, `EngineAssumption` and `TailAssumption`,
has three parts.

* The merge rule: `MergeTypeCorrect`, `HeldIsFullestHolds`*, `StoresAgreeHolds`*. The lemmas say that
  `AtLeast` is reflexive, transitive and antisymmetric up to fullness, and that `Kept` is at least as
  full as both its arguments. `HeldIsFullest` is inductive on top of the types: a relay passes on only
  the held copy, and transitivity covers the copies that lost before it. Agreement follows by
  antisymmetry.
* The engine: `EngineInvariant`, `CountsTheFullestHolds`*, `EvictedIsOwedHolds`*. `EngineInv` is, key by
  key, that the fullest copy offered decides whether the key counts and that the contribution kept
  beneath a counted copy is the fullest of its own (`KeysOK`); that this machine's contributions and the
  repair's lists speak of pairs it knows (`OwnOK`, `ListsOK`); and that owner points stay in order
  (`PointsOK`), by a lemma on the sorted insertion.
* The reader of transcripts: `TailInvariant`, `LinesLandOnceHolds`*. `PathOK` says of a path, one fact
  for each place that may be behind: what an unheard unlink or an unnoticed truncation implies of the
  file (`FileOK`), that the lines of each life landed in order (`LinesOK`), that offset and cursor are
  past just those lines or wait to be dropped (`OffsetOK`), and that what the read under way sampled is
  of the file that offset and cursor are of (`HeadOK`). It is claimed of every path but those of which a
  read resumed before an unlink was heard, a counterexample listed above. The order of parent and
  subagent needs `SpawnOK`, `QueueOK` and `AheadOK`: a subagent's read is only begun behind its parent's,
  and that read sees all the parent held at the spawn or the parent's file is another.

**`HubArchive_proofs`**, from `HubAssumption` and `DedupAssumption`, has two inductive invariants.

* `HubInv`: the file is well formed (`FileOK`), so is the backup (`BackupOK`, needed because `Restore`
  makes the backup the file), each snapshot equals the history at its cursor (`SnapshotsOK`), each
  retained change leads from the history at its predecessor to the history at its cursor (`HistoryOK`),
  and receipts are receipts (`ReceiptsOK`). Each action has a lemma. `HubTypeCorrect`* and
  `SnapshotIsPinnedHolds`* follow at once. `ReplayReachesHeadHolds`* takes one more argument: if the
  replay ever left the history there would be a least cursor where it does (`LeastElement`), and
  `HistoryOK` at that cursor contradicts it. `OnlyADeletionLosesHolds`* is the action property, by
  cases on the step.
* `TimelineInv`, on top of it, looks along the whole past of an archive: the states it went through
  (`StatesOK`), the seqs its changes named (`ChangesNamed`), the deletions its receipts report
  (`ReceiptsExact`), and the past that a restored archive shares with the one its backup was taken of
  (`PastOK`). The present file alone is not inductive for these, since a restore brings an older file
  back and its counters run again. From it: `SeqNamesOneRowHolds`*, `ReceiptIsExactHolds`*, and
  `HistoryGrows`, that no step rewrites a state a reader may have seen.

**`EventSync_proofs`**, from `SyncAssumption` and those of the Hub, proves the replication itself, with
the Hub that `HubArchive` specifies and any number of clients.

* `LoopOK`, one client's closure: `LoopType` says which fields a pass at each `pc` may have set,
  `LoopGate` which gates a connection state implies, `LoopFence` that every fence, boundary and walk
  the pass captured is no newer than the Hub's. The first part of the module shows that each function of
  the closure (`Suspend`, `Resynced`, `StartPass`, `SendNext`, `Rest`, ...) keeps it.
* `SyncInv` adds what relates a client to the Hub. `ClientFine` holds of each client: its replica is
  well formed and holds pages of one archived state (`ReplicaType`, `ReplicaTrue`), its gates open
  only over a replica that is caught up (`LoopCaughtUp`), and the answer in flight to it is one the Hub
  computed from some state it went through (`ReplyTrue`: a snapshot page is the slice of the pinned
  state at its offset, a changes page leads from the asked cursor to its own). `StrayOK` says the same of
  a push its sender has given up on. Every step either is a step of one client over an unmoved Hub, or
  moves the Hub as `HubNext` does; `HubMoves` is what the clients need of such a move, that fences and
  states only advance, and every conjunct of `ClientFine` survives it.
* From it: `SyncInvariant`, `ReplicaIsPrefixHolds`*, `PartialSeedIsSliceHolds`*, `CaughtUpIsProvenHolds`*,
  and `PreparedAfterDeletionHolds`*. `ReplicaIsACopyHolds`* is the refinement of
  `FleetCopy`: the initial states map to initial states, and `CopyStep` maps each action of the pump and of
  the Hub to one action of the abstract specification or to a stutter.

**`EventSyncPush_proofs`** proves `NothingLeftBehindHolds`*, the promise of a push, on top of `SyncInv`.

* `GrowthInv`: among the states of one archive that share a Deletion generation, a later one is fuller.
  It is what lets a replica, or a receipt, vouch for the Hub's present rows under an unchanged fence.
* `PushInv`: while a client's sources count for the Hub's own fence, each key it holds is marked for a
  pass, in the push under way as the client holds it, or carried by the Hub, and all it believes
  acknowledged is carried (`Offered`). The rest of it says why each part survives: what a push has sent
  is what it meant to send (`SendsTodo`), a receipt in flight tells of carried rows (`Receipted`), and the
  replica that a walk or a feed will compare with has come to the fence (`WalkFits`, `FeedFits`,
  `PullsOwn`). `NothingLeftBehind` alone is not inductive: it says nothing of a pass under way, and a
  pass is when a row can be forgotten.
* A step that only marks more, or forgets what was acknowledged, satisfies `Keeps`, which composes
  (`KeepsThrough`) and leaves the account in order (`KeptFine`); a step of the Hub does by `PushFineLater`.
  The four functions that unmark keys (`Examine`, `SendNext`, `PushUnderFence`, `AfterPage`) have lemmas
  of their own.

**`FleetClient_proofs`** proves what a client keeps and contributes, in three parts.

* The Local archive, from `LocalArchiveAssumption`: `ArchiveInvariant`, `ForgottenStaysOutHolds`*,
  `ArchiveIsTrueHolds`*. A forget passes through RAM, a queue, the file and a durable intent, and any of
  the four may be behind. `ArchiveInv` says what each place may still hold of a forgotten pair and which
  entry still to come will take it away: `QueuesOK` and `ChainOK` for the queued operations, `FreshOK` for
  the rows a rebuild reads, `BarredOK` for what the file may hold, `FleetOK` that a replica that is caught
  up is the Hub's state as last announced.
* The view of what may be pushed, from `ViewAssumption`: `ViewInvariant`, `PushIsCompleteHolds`*. `PassOK`
  follows the pass through the feed and the put-back keys; `NothingMissed` says that what none of the
  feed, the keys put back, the eligibility in hand and the pass under way covers, is on the Hub;
  `AckedIsHeld` that an acknowledgement under the Hub's fence is of a row it holds.
* The Hub client, from `HubClientAssumption`: `ClientConnects`, `SamplesAreOwedHolds`*. `WayOK` makes the
  state name exactly what is under way, `PushOK` says that a push takes along all that is owed,
  `BackfillOK`, `SupplementsOK` and `StreamsOK` that what a backfill or a stream leaves out below the
  newest sample it brought is in a frame or a supplement still to come (`Coming`).

**`FleetForget_proofs`**, from `ForgetAssumption`: `ForgetInvariant`, `ForgetIsExactHolds`*. A forget is cut
at every await, its answer may be lost, and the Hub may be restored beneath it. `ForgetInv` follows what a
receipt says was removed: those rows are in no archive of that epoch, in no contribution the Hub would take
under its fence, in no replica as new (`ReceiptsOK`, `RemovedOK`), from the request on its way
(`RequestsOK`) to the step that takes up the answer (`StepOK`, `IntentOK`); and `ArchiveOK`, `EngineOK` and
`GoneOK` say the same of the Local archive and the engine once it was taken up. `LandedIsTrue` and
`OnlyAskedIsLost`, the two halves of `ForgetIsExact`, follow.

**`HubServices_proofs`** has three parts.

* The pollers, of a client and of the Hub's poll set: `ClientInvariant`, `PollingHoldsAlways`*,
  `HubPollInvariant`, `HubPollingHolds`, `SetIsTheKeysHolds`, `ListsAgainHolds`, `PollSetHoldsAlways`*.
  `PollerOK` is one poller's closure: each read that still counts was asked in the present epoch with the
  present key, and the next step is armed. The Hub's adds that one listing at most may still act and is of
  the poller's key (`ListingsOK`), and that the timer is armed just when none is out (`TimerOK`).
* The purge, from `PurgeAssumption`: `PurgeInvariant`, `PurgedIsGoneHolds`, `AliasesResolveHolds`,
  `ServedAfterRecoveryHolds`*, `PurgeHoldsAlways`*. Receipt, names and identities are written one after the
  other and any write may fail. Rows and names carry their *era*, the number of purges before them;
  `PurgeInv` says that a receipt's rows are gone from the moment it is stored (`RowsOK`), that the two
  directories, in RAM and on disk, lack what the job under way has already taken (`JobOK`,
  `DirectoriesOK`), that a complete receipt left nothing (`CompleteOK`), and what a recovery owes before it
  serves (`RecoveredOK`).
* The restore, from `RestoreAssumption` (each file once, `hub.json` last): `RestoreInvariant`,
  `RestoreIsWholeHolds`*. `RestoreInv` claims something of every state of the data dir that a loss of
  power may leave, not only of the one a process sees: each is marked, empty or whole, holds `hub.json`
  only when whole, and whole ones stay whole (`DirsFine`). `RunOK` says what the data dir holds at each
  point of the restore under way, `CopiedOK` that what was copied is in the order of the backup's
  versions, so that a group read the same before and after is of one moment, and `WholeOK` that a whole
  data dir has durable contents and that a reported restore is durable.

**`Changes_proofs`** has four parts.

* The gate, from `ScanGateAssumption`: `GateInvariant`, `OneAtATimeHolds`*, `AnswerIsNotOlderHolds`*,
  `OneWaitsPerKeyHolds`, `ReadingsStayHolds`*. The walks before the last one that started have
  settled (`ChainOK`, `InOrder`), each slot holds the one walk that waits under its key (`SlotsOK`), and
  what a gesture joined has not read the disk before it (`GesturesOK`). `ReadingsStay` is inductive with
  `InstallInv`: nothing holds or has read more than the disk had (`ReadsOK`), a walk of a rebuild that
  has not settled is the one the rebuild under way waits for (`RebuildOK`), and from that walk's start
  to the swap, what it read or what the rebuild caught covers the installed store (`CoversOK`).
* The reconcile chain, from `ReconcileAssumption`: `ReconcileInvariant`, `AdmissionHoldsAlways`*. The
  queued changes lead to the admission in force (`QueueOK`), and a store, a done list or a retained view
  that does not fit it has its change still queued (`StoresOK`, `DoneOK`, `SettledOK`,
  `RetainedIsAdmitted`). All but the types is claimed until a pass throws: a pass that throws leaves the
  chain with requests still set, a counterexample listed above.
* The watcher's restarts, from `WatcherRestartsAssumption`: `WatcherInvariant`, `WatcherHoldsAlways`*.
  `WatchersOK` says that every watcher but the installed one is closed, `RestartOK` what the restart
  under way took of what was owed and has decided, `BoundOK` what the recovery bound has counted since the
  last quiet minute. Whether a deaf watcher is answered is only inductive together with `RestartOK`: it is
  the restart that took the loss who owes the answer, until it installs, gives up or fails.
* The report cache, from `ReportCacheAssumption`: `CacheInvariant`, `ReportsHoldAlways`*. An answer is
  promised to be *some* state the store went through, so the invariant has to name it while it is still
  in pieces. `BuildOK`: the rows already partitioned and those still to be, led through the changes
  buffered meanwhile, make up the state the entry should hold (`Serves`: the bound store's rows while the
  feed reaches the entry, and a state each waiting query has seen). `BuiltOK` says the same of an entry
  that is built, and that a clean bucket nobody folds has the fold of its rows, each once; `RefoldOK`
  follows the bucket in hand; `Answers` keeps the pass that found nothing dirty apart from what lands
  before its answer is assembled. A buffered batch is replayed by a recursive function, which
  `ReplayDefined` shows to be what its definition says by the least count at which it could differ.

**Only model-checked**, and why:

* Liveness (`Converges`, `HubSettles`, `ArchiveSettles`, `CorpusIsRead`, `EditsTakeEffect`) needs
  ENABLED, which the prover does not handle.
* `EngineIsReplica` is no theorem: it is false for more faults than `MCSync` has, see `MCSyncRefeed`.
* `RepairHolds` speaks of several instances of its module, with parts that hold only where a fault is
  left out: a row moved by more edits than the instances have can leave a done list behind.

## Not modelled

Of the modelled parts: attaching and detaching the replica while a pass runs; the answers of a Hub
that predates event sync or whose archive failed to load (404, 409 on a pull, 503); the 4 MiB budget of
a page (a page here is cut by count, which is the same to its reader); duplicate keys within a batch,
which a client's view, keyed by dedup key, cannot produce; heartbeats and backoff times; the
compaction of the databases.

Of the system: the directories that keep the newest of two writes, the sample store, the pricing
refresh, process supervision and the serve lock, the Hub's operator surface, the command line, the
desktop shells, the user interfaces, pricing and blocks arithmetic, and everything vendored or
generated. They are arithmetic over data, files and processes of the operating system, or rendering;
`PROJECT.json` gives the reason for each.

# A verification of Cosplay Gallery Manager

CGM is a single-owner, self-hosted gallery manager: a Go server over one SQLite
database, a directory of generated files, and background loops that scan,
process, back up and clean. This directory holds TLA+ models of its core, the
TLC instances that check them, and TLAPS proofs. `PROJECT.json` lists the runs,
the mapping from definitions to source lines, the known hazards, the findings
and the theorems.

To check something: `tlc -config QueueLeases.cfg MCProcessingQueue`; to prove:
`tlapm ProcessingQueueProofs.tla`.

## Inventory

The product's own code is in `src/internal` and `src/cmd/cgm`. `src/pkg`,
`internal/{api,manager,dlna,identify,autotag,desktop}` and `ui/v2.5` are the
upstream program it evolved from and are not run by the product; they are not
modelled.

Everything durable is one SQLite database with a single connection
(`database.go`), opened so that a transaction takes the write lock when it
begins. So a transaction is atomic and isolated, and everything hard happens
*between* transactions: in the loops that read, then work, then write; between
the database and the file system; and across crashes.

| component | state | operations | interacts with | hard because | correct when |
|---|---|---|---|---|---|
| Processing queue (`processing_job_store.go`) | `processing_jobs`: status, attempts, priority, due time, lease | enqueue, claim, heartbeat, complete, fail, cancel, requeue, manual priority | everything that wants media generated; worker loops | leases against lagging clocks, reused owner names, restarts, signals | one worker per job, no result without the claim, nothing lost, everything settles, nobody oversleeps by more than the shortest wait, or the wait after an error |
| Worker loop (`worker.go`, `server.go`) | the job it holds, a snapshot of the wake-up channel, a timer | claim, process, heartbeat, record | queue, derivatives | claims withdrawn while it works | as above |
| Derivatives (`derivative_store.go`, `pipeline.go`, `cache_gc.go`) | `media_derivatives`, files under the cache root | publish, request, evict, remove | workers, cleaners, resource endpoints | two media, no common transaction | served records are of the current content and have their files |
| Cache lifecycle (`cache_lifecycle_store.go`, `cache_lifecycle.go`, `cache_scheduler.go`) | `cache_cleanup_outbox`, scan cursor | retire, unlink, retry, find orphans | derivatives, queue | review older than deletion; crash between unlink and commit | never takes a recorded file; leaks nothing whose name it recognises |
| Gallery members (`gallery_member_store.go`) | `gallery_items` | exclude, restore, forget, reorder | queue, derivatives | cancels and reopens jobs of others | the owner's decisions survive |
| Source scan (`scan_store.go`, `sourcescan`) | scan runs, observations, items | begin, stage, commit, abort | items, queue, derivatives | matching by fingerprints; missing and replaced files | identity of items survives moves and edits |
| Automation (`automation_store.go`, `automation_runner.go`) | `library_automation_runs`, `library_draft_retry_targets` | queue, claim, batch, requeue, complete, cancel | discovery, galleries, scheduler, queue | progress saved apart from work; runs that wait for media; drafts that change hands meanwhile | no draft passed over, counts exact, a cancellation seen, every run ends |
| File monitor (`library_monitor.go`, `library_path_changes.go`, `background_scans.go`) | pending paths in memory, `library_path_changes`, `reconcile_state` of sources | observe, settle, store, mark, discover, scan | source scan, discovery | debounce, overflow, lost events, crashes, scans that run while a row is used up | a change is always announced somewhere until it is scanned |
| Scheduler, backups (`scheduler.go`, `operations_store.go`, `backup_store.go`) | `scheduled_operations`, backup records and files | claim, complete, fail, retain | restore | leases, files against records | one run at a time, newest kept |
| Restore (`productserver/operations.go`) | `maintenance_state`, the live database file, the metadata directory | restore, roll back, map paths, resume | everything | many steps over several media, any may fail | either the old state or the new one, never a mixture; work resumes only after validation |
| Playback (`videoplayback/manager.go`) | sessions, leases, encoders | start, extend, cancel, monitor | derivatives | join against idle-out, limits | at most eight sessions, none leaked |
| Manifests (`manifest`, `manifest_store.go`, `manifest_batch_store.go`) | sidecar files and their `.bak`, rows of `gallery_manifest_sync` | check, push, pull, resolve, batch item, acknowledgement | galleries, scans, restore | queries and file operations that nothing holds together; edits of both sides between any two | the stored revision tells whether the database differs from its baseline; a pull takes back no newer edit |
| Discovery, galleries, entities | drafts, galleries, entities, the UUID registry | revision-checked edits | automation, manifests | identity and tombstones | no identity is reused |
| Portable catalogue (`portable_*`) | import and merge journals | import, merge, recover | all of the above | journalled multi-step recovery | resumable or undone |
| Coser assets, authentication, access, browsing, API, generators | | | | | not planned: I/O, cryptography, queries, or pure computation over media |

The hazards found while reading are under `"hazards"` in `PROJECT.json`, each at
its line, with the property that covers it or the module that will.

## Modules

| module | what it is |
|---|---|
| `WorkLease` | abstract: what a lease queue promises |
| `ProcessingQueue` | the queue, the worker loops, signal, timer, switches, exclusion |
| `MCProcessingQueue` | its instances |
| `ProcessingQueueProofs` | theorems about it: types, fencing, cancels |
| `ProcessingQueueInvariants` | its other invariants (follow-ups, sleep, manual scans), that it implements `WorkLease`, and what takes a row from a worker |
| `DerivativeCache` | one item's derivative files and records, workers, cleaners |
| `MCDerivativeCache` | its instances |
| `DerivativeCacheProofs` | theorems about it |
| `PlaybackSessions` | sessions of progressive playback, their viewers, encoders and monitor, and the end of the service |
| `MCDerivativePlayback` | instances of it and of `DerivativeCache` |
| `PlaybackSessionsProofs` | theorems about it |
| `AtomicRestore` | abstract: what a restoration promises |
| `RestoreProtocol` | the restoration of a backup and what goes on beside it |
| `MCRestoreProtocol` | its instances |
| `RestoreProtocolProofs` | theorems about it |
| `LibraryAutomation` | runs over the drafts of libraries, their worker, what happens to galleries meanwhile |
| `MCRestoreAutomation` | instances of it and of `RestoreProtocol` |
| `MCBackgroundWork` | the queue with commands and faults; the queue composed with the automation |
| `LibraryAutomationProofs` | theorems about it |
| `LibraryChanges` | file events, their rows, the scheduler's pass over them, scans of sources |
| `LibraryChangesProofs` | theorems about it |
| `ManifestSync` | one gallery's sidecar and its row: checks, pushes, pulls, batch items, edits of both sides |
| `MCRestoreManifest` | instances of it and of `RestoreProtocol` |
| `ManifestSyncProofs` | theorems about it |

Definitions named *faulty variant* in the comments are plausible bugs; the
mutants of `PROJECT.json` put them in place of the definition they precede, and
TLC must then find the property violated.

### ProcessingQueue

One action per transaction and per step of the loop. `status`, `attempts`,
`priority`, `notBefore`, `owner`, `leaseLeft`, `lastError` are columns of
`processing_jobs`; `switch` and `excluded` the settings and items the
transactions read; `phase`, `job`, `claimPriority`, `outcome`, `cut`, `timer`
the local variables of a worker loop and its heartbeat; `wake` says whose
snapshot of the wake-up channel has been closed. `lost`, `ownerCancelled` and
`promoted` are history variables.

*Time.* Leases and due times count down by `Tick`. A loop reads the clock before
it waits for the connection, so a claim and a heartbeat compare with a clock
that lags by `0..MaxLag` ticks; lower than `-MaxLag` no comparison tells two
ages apart, and the countdown stops there.

*Signals.* The TEMP triggers of `background_signal.go` close the channel inside
the transaction and are not undone by a rollback: `ClaimNothing` signals when
its rolled-back recovery has touched a row.

*Waits.* A loop that finds nothing sleeps to the next deadline (`SleepFor`), at most for the
recovery interval of an hour and at least for half a second, also when a row is due already
(`MinWait`, `FallAsleep`). When the query of the deadlines fails it sleeps for a minute, whatever
is due (`NextWakeFails`, `QueryErrorWait`, phase *dozing*). When the claim itself fails it pauses for a
second and listens to no signal (`ClaimFails`, `ClaimErrorWait`, phase *pausing*); what the claim
had touched is rolled back, its signal is not. `Waiting` are the three.

*Exclusion.* `Exclude` and `Restore` are the whole of `SetItemExcluded` as far as
jobs go, with the planning of base jobs that ends a restoration.

*Left out:* `archive_video_state` mirrors a job's state and is not read by the
queue; deletion of an item (its rows go with it); content revisions (they are in
`DerivativeCache`); the lag of `Fail`'s clock, which only shortens a delay;
attempts beyond `MaxAttempts`, which nothing tells apart; the similarity and
signature tasks that share the loops' signal and only shorten a sleep. Jobs of
optional variants that no switch gates behave like base jobs.

| run | shows |
|---|---|
| `QueueLeases` | `FencedByName`: the guard of Complete and Fail compares only names, and is exact; `TakenOnlyWhenLate`; `FollowUpNotLost`; `NoOversleep`, with a follow-up that a switch hides and reveals and with a query that fails: a worker that waits without a signal waits past a row it could claim no longer than `MinWait`, or than the time it chose after an error; and the refinement of `WorkLease`: a claim is exclusive, only its holder finishes, an expired holder never does |
| `QueueLiveness` | `OwnerCancelIsFinal`, `LatestScanFirst` with three commands of the owner and a fault; `EveryJobSettles` over failed attempts, their back-off and the last one; `WorkersComeToRest` without gated jobs; and, composed with `LibraryAutomation`, `EveryRunEnds` (below) |
| `QueueBusyWait` | violation: `WorkersComeToRest` with a gated job |

*Bounds.* Two workers are enough to take a job from each other, and the same
worker may meet its own name again after a restart. Two jobs give a probe and
its follow-up; a third stands for another gallery or a gated job. A lease of
two ticks with a lag of one lets a claim be late, in time, and exactly due.
Two attempts are the fewest with a retry: a failure below the limit waits out its
back-off, the next one is final, and a claim after a recovery meets the limit. In
`QueueLiveness` the switch stays as it is, as no job there is gated. The waits are `MinWait` 1,
`QueryErrorWait` 2 and `ClaimErrorWait` 1: sleeps of both kinds can outlast a deadline.
`MaxCommands` (commands of the owner) and `MaxFaults` (restarts, stalls, failed
recordings and failed queries) bound what comes from outside; enqueues, retries, claims and
failures are not bounded.

*Fairness.* A started loop keeps taking its steps, heartbeats are ticker driven,
time passes. Nothing is assumed of the owner, of success, or of restarts. A lease
that runs out under a living worker is a stall and is bounded by `MaxFaults`, as
heartbeats come three times per lease.

### DerivativeCache

A *path* stands for variant, content revision and processing profile: the cache
path, the record's key and the job's key are functions of these. Database
transactions are actions that need the connection (`DbFree`). The second
transaction of a cleanup stays open across its unlink, so it is a sequence of
steps (`Lock`, `Open`, `SetAside`, `Unlink`, `Commit`) during which no other
transaction runs, while file operations of workers still do. `file` holds the
identity of the file at a path, `aside` the one quarantined as `.gc-<name>`.
A cleaner is the cache loop or the owner's reviewed cleanup: both select an
entry by the same predicates, if its name is one they recognise (`Recognised`, `Candidate`:
`ParseGeneratedCachePath`, whose pattern lacks the names of CARD_DISPLAY_*), inspect the file, retire the record in a
transaction of its own, and recheck before the unlink. A worker claims, reads
the item, writes and renames, publishes or removes what it could not publish,
and records the outcome under the guard of `ProcessingQueue`.

*Disturbances.* `Events` says which kinds happen in an instance and `MaxEvents`
how many: *retry* (the owner reopens a finished job, or a request acts on what it
read before a change), *withdraw* (cancel, exclusion), *stall* (a lease runs out
under a living worker), *refuse* (Publish fails for a reason of its own),
*ioerror*, *crash*. Restorations, new content, forgetting, requests and claims are
not bounded, except that content changes `MaxRevision - 1` times.

*Left out:* the queue's order, attempts and due times; missing and over-limit
sources; legacy `CARD_480` records superseded by `CARD_DISPLAY_960`; ids of
records (an entry whose record was replaced by one of the same path is taken for
it; the code skips it, and finds it again); the error code that marks an unrecognised
outbox row as unsafe; the limit of 100 entries of a pass; that the quota's pass ends at a
record it does not recognise (below); the quota's arithmetic (any enhanced
record may be its candidate); directories. A file between rename and publication
is assumed younger than `CacheOrphanGrace` (a day).

| run | shows |
|---|---|
| `CacheSafety` | `ServedIsFresh`, `CleanersSpareRecords` with every kind of disturbance, for a recognised base derivative (a video's poster) |
| `CacheRecords` | `OneCurrent`, `RecordsAreNotDoomed` and `ServedFileExists` with two profiles of a variant, a crash or an I/O error, while claims and publications stand (the other properties of this run are of `PlaybackSessions`) |
| `CacheUnprotected` | violation: `ServedFileExists` once a claim may be withdrawn |
| `CacheLiveness` | `DeadFilesGo`: no file of replaced or forgotten content whose name the cleaners recognise stays, also beside one they do not recognise (the other properties of this run are of `PlaybackSessions`) |

*Bounds.* Files have the least unused of a few identities (`MCFileId`,
`MCFewFiles`): as many as can be on disk, aside and remembered at once, except in
`CacheRecords`, where a path is not written anew while three are in use. Two
contents, two profiles and two workers are the least that differ. `CacheLiveness` has an enhanced
file of the first content (LIGHTBOX_4096, recognised) and the base file of the second
(CARD_DISPLAY_960, not recognised): the first can only go once the second is READY, failed
or withdrawn, and the second stays listed when the item is forgotten.

*Fairness* (`CacheFairness`). A worker and a cleaner take their steps, the lease of a worker that is
gone lapses, and files age. The pass over known entries (`KnownPass`) comes again as long as
one is listed, hourly at the latest (`cache_scheduler.go`). A removal may fail over and over: after a
crash between setting aside and unlinking, with the path written anew, the quarantined name is
taken (`cache_gc.go:142`) and the outbox entry comes back at every pass, until the pass over
the disk finds the leftover. Weak fairness would allow that entry to take the connection at every
moment in which a worker or the other pass wants it. So those two have strong fairness: a
failed outbox entry is due again after fifteen minutes only, the pass over the disk has a
due time of its own and keeps its place in the walk, and between two passes the loop leaves the
database to the workers (`cacheRunSpacing`). Eviction by quota is not assumed.

*Deadlock* is not checked for this module: an item that is forgotten and cleaned
really is at its end.

### PlaybackSessions

The goroutines of `videoplayback/manager.go`: `run` and `generate` of each session, the monitor,
the requests of viewers, and `Close`. What one of them does while it holds the manager's mutex is
one action; `start` is two (`BeginStart`, `EndStart`), because it checks the service's context
and that context is cancelled without the mutex. Between the two the start holds the mutex
(`starting`), and whatever needs it waits (`Unlocked`).

| state | code |
|---|---|
| `run`, `keyOf`, `next`, `fallback` | where `Manager.run` is (*top* of its loop, *generating*, *draining* after a seek, *stopping* after an end, *settled*, *ending*, *removing* its directory), the session's key, the segment it goes to, `fallbackLevel` |
| `gen`, `pos`, `result`, `slot` | where `generate` is, the segment its encoder is at, what it returned, and `playbackSlot` |
| `start`, `produced`, `failed`, `segments` | what a request compares with: the two positions, the status ERROR, the files of the directory |
| `cancelled`, `seek` | the session's context, and its channel of seeks, which holds one and drops the rest |
| `known`, `held`, `stale` | `Manager.leases`, `session.leases`, and those not used for `idleTimeout` |
| `want`, `at` | the segment a viewer's request waits for, and whether it polls or has decided to seek |
| `verdict`, `watching`, `service` | the session that the monitor found idle under the mutex and has yet to cancel; the monitor; the steps of `Close` |

A request decides to seek by what `start` and `produced` were under the mutex, and sends the
seek without it (`Poll`, then `Ticks`): by then the session may be elsewhere. The fallback to
another encoder clears the directory and starts from the same position (`Judge`). The
worker of the queue that makes complete MP4 files takes the same slot (`JobTranscodes`).

*Incidents*: a failure of the encoder, with or without a fallback (`Break`), another transcode,
the end of a session for a reason of its own (`Withdraw`: 30 minutes, authorization,
maintenance, changed content, a full cache), the end of the service (`Stop`); at most
`MaxIncidents`. `MaxVisits` bounds them together with starts, requests and releases.

*Left out:* the checks before a session (capacity, authorization, the video's own), which are
refusals; publication of a finished MP4 and copies, which are a result of `generate`; playlists;
durations as times. A viewer has at most one request for a segment at a time.

*Composition.* A session writes below a directory of its own that no cleaner looks at, so
`MCDerivativePlayback` lets playback or the cache work in a behaviour (`busy`).

| run | shows |
|---|---|
| `CacheRecords` | `PlaybackTypeOK`, with the limit of sessions and the slot; `LeasesLead`; `ClosedIsEmpty` (the other properties of this run are of `DerivativeCache`) |
| `CacheLiveness` | `SessionsEnd` and `RequestsAreAnswered` (the other property of this run is of `DerivativeCache`) |

*Bounds.* For safety two sessions of two contents with room for one, so that a second one meets a
limit or follows the first; two viewers, who join, leave or stay away, in five visits of which
two may be incidents; one segment, as positions do not matter there. For liveness one session of
two segments with nothing waited for ahead of the encoder, so that a seek forwards and one
backwards is needed; two viewers, four visits, one incident.

*Fairness.* Every goroutine goes on, a `select` takes the end of a context sooner or later, and
leases age. That a request gives up (its timeout of 30 seconds, or its viewer) is assumed only
while another viewer of the same session waits too (`Contended`); otherwise an answer must come
from the session. Encoder failures and releases of leases are not assumed.

*Deadlock* is not checked: with its visits used up an instance is at its end.

### RestoreProtocol

`pc` is where `RestoreBackup` stands, one action per call that changes the disk,
the database or the process; `live` and `coser` are what is at the live paths,
`aside` and `asideCoser` the `.rollback-<id>` files, `stage` and `stageCoser` the
`.restore-<id>` ones. A database carries the restoration that brought it (`gen`),
the metadata it belongs to (`pair`), how much was written to it since (`data`), its
maintenance mode and how far it is vetted; a package's own database knows that
package as `CREATING`, so it cannot be restored from until `Register`. `mu` is
`operationMu`, which the restoration holds from `Begin` to `Return` and the loops
of the scheduler and of automation take inside an iteration; `stopWorkers` is
`CancelWorkers` and `AwaitWorkers`. `request` is a handler past the maintenance
gate that has not written yet; it keeps the database object it was built with,
which `CloseLive` closes.

*Disturbances* are of the kinds in `Events` and at most `MaxEvents`: a *fault* (an error of the disk or
of SQLite at any step, including the steps of the rollback, whose errors the code
ignores), a *hangup* (the request's context is cancelled; the steps that are given
it fail from then on, the others go on), a *crash* (of the process; `Start` is what
`Open` and `RunWorkers` do).

*Left out:* that a second caller waits at the mutex (its call is a later one); WAL
files (a clean close removes them, and their renames follow the database's);
`CreateFullBackup` (another holder of the mutex that waits for nobody) and the
portable maintenance modes; packages of another schema; a metadata directory that
is empty, which a rename would replace; playback sessions. `ResumeMaintenance` may
find the environment invalid at any time; it then changes nothing.

*What it implements.* `AtomicRestore` knows no files: one database with its metadata is
installed, a server is *serving*, *draining* (in maintenance, with requests still under way),
*closed*, *unmapped* or *mapped*, and a restoration exchanges both in one step (`Exchange`), or
fails and has changed nothing. The refinement mapping (`Stored`, `Service`, `Outcome`) puts the commit
point at `Finalize`: from `CloseLive` up to there, and on the way back, what the restoration
found counts as installed, wherever its files are.

| run | shows |
|---|---|
| `RestoreServer` | `FinalizedBeforeServed`, `WorkersAreAway`, `FailureIsUndone`, `FailureReopens`, `NoMixture` and `ImplementsAtomicRestore` with one error at any step or a hangup (the other properties of this run are of `ManifestSync`) |
| `RestoreAutomation` | `RestoreEnds` without loops, with two errors or an error and a crash (the other properties of this run are of `LibraryAutomation`) |
| `RestoreDeadlock` | violation: `RestoreEnds` beside the loops |
| `RestoreCrash` | violation: `FinalizedBeforeServed` with a crash |

*Bounds.* Two restorations, so that the second meets what the first has left; two
writes, so that one can come before and one during a restoration; a scheduler turn takes the mutex
twice, an automation batch once. One error is what the rollback is for: with a
second one inside it the pair may be torn, and the code does not claim otherwise.

*Fairness.* A call and an iteration take their steps; a Go mutex hands itself to a
waiter that has starved (SF of `Begin` and `Lock`). New iterations, the owner's
resumption and starts are not assumed.

*Deadlock* is not checked: after its last restoration an installation may wait for
its owner for ever, and the real deadlock is what `RestoreDeadlock` shows.

### LibraryAutomation

`run` is `library_automation_runs`: status, library, whether it is a retry,
`discovery_completed` (which a retry run has from the start), cursor, count of
activations, `cancel_requested`, and whether its lease has run out. `retried` is
`library_draft_retry_targets`. `turn` is where `ProcessClaimedRunBatch` stands, one
action per transaction: a batch is *begin*, *discover*, *list*, then for every target
*scan*, *policy*, *media*, *find*, *activate*, the *outcome* of a retry target and
*save*. `listed` and `unsynced` are the target list that the worker read once and goes
by; `fresh` says that `metadata_revision` is still what `FindGallery` read, `verdict`
what has come of the gallery that no progress is saved of yet. `stateOf`, `synced`,
`preparing`, `blocked` are what a run reads of galleries: state, `reconcile_state`,
unfinished rows of `processing_jobs`, activation blockers. `undecided`, `asked`,
`made`, `late`, `broken` are history variables.

*Accidents* are of the kinds in `Accidents` and at most `MaxAccidents`: *owner* (a
change of a gallery's state or metadata, or new jobs for it, at any step), *cancel*,
*error* (where the code marks the run FAILED, and where a failed save of progress leaves
it RUNNING until its lease ends), *release* (the error returns through
`RunAutomationBatchOnce`, or the server stops), *crash*. Runs of both kinds, outcomes of
discoveries, scans and policies, and media becoming ready are not bounded otherwise.

*Composition.* A scan enqueues jobs and a run waits until none of the gallery is
unfinished (`galleryMediaPreparationPending`). `MCBackgroundWork` puts `ProcessingQueue`
for that condition: `Scan` and `Enqueue` are one step, `preparing` is what the queue's
rows say, and nothing is assumed of `MediaPrepared`. A restoration keeps the automation's
loop off through `operationMu` and `stopWorkers` (`WorkersAreAway`), so
`MCRestoreAutomation` lets one of the two work in a behaviour (`busy`).

*Left out:* `scanned_count`, `candidates_seen`, `needs_review_count`, the rows of issues and the error
texts; what the policy writes; the limits of 5 runs in a call of the command line tool; heartbeats,
which fail only as any other statement does; deletion of a gallery. The ids of galleries rise in the
order of their discovery.

| run | shows |
|---|---|
| `RestoreAutomation` | `NoDraftPassedOver`, `ProgressIsExact`, `CancelStopsActivation`, `RetryOpensItsDrafts`, `EveryRunEnds` with an accident of any kind |
| `QueueLiveness` | `EveryRunEnds` on top of the queue: the jobs that a run waits for are settled by the queue's own fairness |

*Bounds.* Three galleries in two libraries with batches of one: a library's run is
requeued between its galleries, and runs of two libraries meet in the queue. Two runs,
so that the one behind must come to its turn, or the same library has a second one. One
accident, at any step of any of them. Composed with the queue: one gallery in each
library, one worker.

*Fairness.* The loop goes on (`ProcessBatch`), a lease that nobody renews runs out, jobs
are settled. The owner, and that a run succeeds, are not assumed.

*Deadlock* is not checked: with no run left to queue the system may rest.

### LibraryChanges

A source's `content` counts its changes on disk; `known` is the one that the last scan
has stored. A change is an event (`Observe`), unless the watcher is off or the kernel
drops it and reports an overflow later. `pending` is the map of `runLibraryMonitor`,
which a full map replaces by the library's root; `Flush` stores one path that has been
quiet. `rows` are `library_path_changes` with their `updated_at` as a stamp, `later` those
due in an hour. A pass of the scheduler reads the due rows once (`batch`), marks the sources
they concern (`MarkChange`), discovers the library if one of them concerns no source or is the root,
deletes the rows that are still the ones it read (`CompleteChanges`), and scans the marked
sources. A discovery loads what is stored (`detector`), looks at the disk (`seen`), and
marks what differs if what it loaded is still stored. A scan is `RunWithOptions`, by the `Worker` of
the pass or by the `Owner`, one step per query or look at the disk:

| step | code |
|---|---|
| `LookUp` | `findSource`: the path (`given`) |
| `Enter` | `activePhysicalScans` admits one scan of a source; it reads the `scan_revision` that it will expect (`expected`) |
| `BeginScan` | `Begin`: SCANNING, whatever the state was |
| `ScanRead`, `ScanVerify` | the members are read, and looked at again |
| `ScanCommit`, `ScanChanged`, `RecordUnreadable`, `ScanRefused`, `OwnerHangsUp` | the commit against the expected revision, and the other ends |

A rebind may come between any two of them. A path that was given up before `Enter` is *old*: nothing tells
the scan, whose commit makes the source `misled`. One that was given up *since* is told by the
revision.

*Disturbances:* *lost* events, an error of the *discovery*, scans by the *owner*, a
*refused* scan (ERROR), an owner that *hangs up* (SCANNING stays), a *rebind* of a source, the
*switch* of the monitor, a *crash*. A source has at most one caller of each kind at a time.

*Left out:* the cached evidence a scan may go by instead of reading again; discoveries by the daily schedule and by the owner, which find changes too and would
only help; sources that are missing; drafts, whose scans are the automation's; several
libraries; the limits of 5 scans and 100 rows in a pass; the debounce's ten seconds and the
retry's hour as times; a change that keeps size and modification time, which no
discovery can see.

| run | shows |
|---|---|
| `ChangesTracked` | `ChangesTracked`, `NoOutdatedMark`, `ChangesAreScanned`, `FilesAreDiscovered` with two disturbances of any kinds |

*Bounds.* A directory and an archive, which discovery compares by different evidence; two
changes, so that one can come while the other is being handled; two disturbances, which may be
of one kind; a collection of two paths, which a third one overflows.

*Fairness.* The monitor, the pass and the scans take their steps, a process that has died is
started again, an hour passes. Events, edits and the owner are not assumed.

*Deadlock* is not checked: when all is scanned the library may rest.

### ManifestSync

`content` and `revision` are a gallery's business snapshot and `metadata_revision`; `sync` is
its row of `gallery_manifest_sync` (status, manifest revision, the hash of the file, baseline
and baseline revision), or `NoRow`. `sidecar` and `bak` are the file and the one that the last
push set aside. `call[c]` is where a call stands (`at`, one step per query or file operation)
and what it has read so far: the row (`row`), the file (`doc`), the content (`snap`), the merge
it will apply (`merged`). Nothing in the code holds these steps together, so calls overlap
in any order.

| step | code |
|---|---|
| `Enter`, `Recognise` | a call starts under the revision that was shown; a push of a batch item compares it anew |
| `Load` | `loadGalleryManifestState` |
| `ReadToCheck`, `Decide`, `Persist` | `checkGallery` and `persistManifestInspection` |
| `ReadToChange`, `SnapshotToPush`, `Recheck` | `pushGallery` up to the write, with or without overwriting |
| `Discard`, `SetAside`, `Replace` | `manifest.WriteAtomic`: remove the old `.bak`, rename the file to it, rename the new one into place |
| `StorePushed`, `StorePulled` | the row after a push or a pull |
| `SnapshotToPull`, `Apply`, `Reread` | `pullGallery`: three-way merge or resolution, `applyGalleryBusinessSnapshot`, the baseline read again |
| `Compare`, `Acknowledge`, `Agree`, `Confirm` | `PushGalleryBatchItem` and `acknowledgeNoContentChange` |

Around them the owner edits the gallery (`EditGallery`: a new revision, a clean row becomes
DB_DIRTY) and the file (`EditSidecar`).

*Mishaps* are of the kinds in `Mishaps`; with the edits, at most `MaxChanges`: *unrevised* (a scan, a rename or a
merge of an entity, a portable merge or the repair of a cover changes what the snapshot holds without
a new revision, whether or not it marks the row), *file* (the file is removed, spoilt, or replaced by the `.bak`), *error* (a call ends; a
failed second rename puts the file back), *crash*, *restore* (the database becomes the
backup's, path mapping may mark its row MISSING, the file stays).

Of a document only the manifest revision and the fields count, and its hash is the document
itself. A merge of keyed collections is member by member, so a field stands for a member.
`unnoticed` and `overtaken` are history: the first says that the present row may be wrong for
a reason below, the second that something came between what a call read and what it will
store.

*Left out:* manifests of cosers; the identities of links and items inside collections and the
errors about them; `gallery_manifest_inspections`, which only the list page reads; a library
that forbids writing back; choices that name other conflicts than there are (an error that
changes nothing); imports of a portable catalogue.

*Composition.* A restoration closes the database that a call works on, and admits none until
it is over, so `MCRestoreManifest` lets one of the two work in a behaviour (`busy`); what a
restoration means to the row is `Restored`.

| run | shows |
|---|---|
| `RestoreServer` | `RevisionTells`, `PullSparesEdits` with two overlapping calls of any kind and two changes, between any of their steps (the other properties of this run are of `RestoreProtocol`) |

*Bounds.* One field, since fields are merged independently; three values, so that baseline, database and
file can all differ. Two calls by two callers, so that each may come between any two steps of
the other; with the check that ends a batch item and the push inside it, a caller makes up to three in
turn. Two changes: one of each side, or an edit and a mishap. Values are interchangeable and
callers are, hence the symmetry (no liveness is checked in this run).

*Deadlock* is not checked: with its calls and changes used up an instance is at its end.

## Findings

1. *Busy wait* (`QueueBusyWait`). A job claimed while its switch was on, whose
   lease runs out after it was turned off, keeps every loop awake: recovery rolls
   back, its triggers have signalled, and the expired lease remains the next
   deadline. `processing_job_store.go:186` says disabled work must not do this.
2. *A file not protected between rename and Publish* (`CacheUnprotected`). After
   a cancel no job protects what the worker still writes; a cleaner may delete it
   before the Publish of an unfenced variant succeeds. The record is READY without a
   file.
3. *A restoration waits for itself* (`RestoreDeadlock`). It holds `operationMu`
   while `stopWorkers` waits for all loops; one that has come to the mutex meanwhile
   waits for it. The safety package gives them minutes to come.
4. *A crash before FinalizeRestore is forgotten* (`RestoreCrash`). The database of
   the package is at the live path in mode NORMAL; the next start serves it with its
   old sessions, jobs and paths.

Other behaviours of the code that bound what the passing runs can say, each
reachable in the model by adding the disturbance the run leaves out:

- A worker whose claim was withdrawn (exclusion, restoration, a late lease) may
  remove as *unpublished* the file that its successor has published at the same
  path (`worker.go:559`); so `ServedFileExists` is checked without withdrawals.
- If the client of a restoration is gone, the failure path cannot set NORMAL, as it
  uses the client's context (`operations.go:270`): RESTORING stays and no command
  leads out. So `FailureReopens` asks for a client that is there.
- `rollbackRestore` takes any `.rollback-<id>` for its own, also one that an
  interrupted earlier restoration of the same backup has left (`operations.go:283`).
  So `FailureIsUndone` is checked without crashes.
- The cleaners do not recognise the files of CARD_DISPLAY_960 and CARD_DISPLAY_1600: `RelativePath` writes
  them as `card-display-960` and `card-display-1600` (`pipeline.go:121`), which `generatedCachePattern` lacks
  (`cache_gc.go:17`). Those of replaced or forgotten content are never deleted: an OBSOLETE record is
  skipped at every pass, an outbox entry only marked unsafe, the walk passes the file over, and the
  quota's pass ends with an error at such a record (`cache_maintenance.go:38`). A pass reads the
  oldest 100 OBSOLETE records (`cache_lifecycle_store.go:100`), so a hundred that are skipped keep it from
  all others. `DeadFilesGo` is about recognised names (`Recognised`), and fewer than a hundred.
- The safety package is made before maintenance is entered (`operations.go:170`);
  what is written in between is lost with a restoration that succeeds.
- A row of `library_path_changes` that concerns a source being scanned is used up without
  marking it, and the scan may have read the file before the change. Then only the next
  discovery finds it. `ChangesTracked` names these sources (`overlooked`).
- `RunWithOptions` reads the path (`scan_store.go:635`) and the revision (`:650`) in separate queries.
  If the owner confirms a rebind between the two, the files of the old path are committed under the new
  revision: the source is IN_SYNC with them and nothing announces the new ones until a discovery compares.
  `ChangesTracked` and `ChangesAreScanned` name these sources (`misled`). If the rebind comes between the
  revision and `Begin` (`:664`), SCANNING overwrites its NEEDS_RESCAN, the commit refuses, and the
  source ends in ERROR, which no pass takes up again.
- A file that changes while it is read makes its source UNREADABLE, and no pass takes it up
  again; a scan that dies leaves SCANNING, which no pass takes up either. So
  `ChangesAreScanned` ends in these states too.
- A run of the whole library activates what its target list named, also a gallery the owner
  has archived in between; only a retry run looks whether it is still a draft
  (`automation_runner.go`). So `RetryOpensItsDrafts` is about retry runs. An
  archived gallery with a blocker becomes a draft when its activation is tried.
- The oldest queued run is always taken first, so a run that waits for media is taken again
  and again before the runs behind it. With it, `galleryMediaPreparationPending` counts the
  jobs that a switch keeps from being claimed: such a job holds all runs. `EveryRunEnds` is
  checked without gated jobs.
- A pull stores the merged database as baseline with the hash of the file, also when the merge
  kept edits that the file does not have, and calls the row CLEAN (`manifest_store.go:430-440`).
  A check then finds no difference, and a second pull takes the file's older value over the
  edit. `PullSparesEdits` measures a pull by the baseline it reads.
- What changes without a new revision (`scan_store.go:478`, `core_entity_lifecycle.go:315`,
  `core_entity_merge.go:116`) is known only from the mark DB_DIRTY; the repair of an automatic cover
  (`cover_store.go:231`) and the renames of a portable merge (`portable_merge_apply.go`) do not even set it. A check, push or pull that is
  under way stores its status over the mark; the two entity paths mark only a clean row, and
  path mapping makes it MISSING. Later checks then say CLEAN. `RevisionTells` excuses these
  changes (`unnoticed`).
- `acknowledgeNoContentChange` compares the content with the baseline it has loaded, and its
  UPDATE looks only at the hash and the revision (`manifest_batch_store.go:182`). A pull that ends in
  between may have replaced the baseline under the same hash; the row is CLEAN though content and
  baseline differ. `RevisionTells` excuses it (`Overtaking`).
- A pull that also dates the gallery by its files brings two revisions and stores the first
  (`manifest_apply.go:103-115`): the gallery is DB_DIRTY right after it.
- A file that is edited between the last look of a push and its renames is only in the `.bak`,
  which the next push removes; a crash between the two renames leaves no file at the path
  (`file.go:224-228`). No property is about the file's side.
- Between the two renames of a restoration there is no file at the live path (`operations.go:222-225`).
  A staged copy that was broken off stays (`operations.go:570` creates it under a name that must be
  free, and nothing removes it then), so later restorations of the same backup fail.
- A viewer who joins between the monitor's verdict and its cancel (`manager.go:757`) gets a
  lease of a session that ends at once; the player has to start anew.
- Two viewers at different places of one session seek it away from each other, and each may wait
  until its timeout. `RequestsAreAnswered` excuses them (`Contended`).
- A session whose encoder has failed stays in ERROR for all who join it: a request that finds it
  so is refused before it could seek. It ends when its leases are gone.
- A crash between an activation and its progress leaves it uncounted, and the target of a
  retry run SKIPPED although the run has activated it (`ProgressIsExact` says how many).

## Proofs

`ProcessingQueueProofs` proves, for every value of the constants that meets
`ConstantsAssumption` (finitely many jobs, any number of workers, any lease, lag
and limits):

- `TypeCorrect`: `Spec => []TypeOK`. One lemma per group of actions.
- `Fenced`: `Spec => []FencedByName`. The inductive invariant is
  `TypeOK /\ WorkersHaveJobs /\ FencedByName`: without `WorkersHaveJobs` the row
  of a busy worker could be one that does not exist yet and be inserted under it.
- `CancelFinal`: `Spec => []OwnerCancelIsFinal`, with `MarksAreExclusions` (the
  mark of an exclusion is never on a row the owner cancelled), without which a
  restoration could reopen it.

`ProcessingQueueInvariants` goes on from the same assumptions, and `FollowUpAssumption` (a
follow-up is of its job's item), with one inductive invariant, `QueueIInv`. It collects what the
theorems need of each other, and each conjunct has a lemma that every step keeps it:

- `FollowUpsAreKept`: `[]FollowUpNotLost`, with `SuccessHasFollowUp`: what Complete records
  is a success, and a success is there only after its follow-up. `RowsStay` (no row leaves the
  table, none loses priority) keeps it there.
- `NobodyOversleeps`: `[]NoOversleep`, for any values of the three waits, from `TimersCover`. Its first half,
  `AsleepCover`, says of a sleeper without a signal that its timer is before every deadline or no longer
  than the shortest wait (`CoveredSleep`, `AsleepStep`): each transaction either closes the channel
  or moves no deadline closer, a tick moves timers and deadlines alike, and a heartbeat only puts
  a lease off (its clock is never older than the lease's). Its second half, `PausesEnd`, bounds the
  waits that follow an error by what was chosen for them (`PausesStep`); they cover no deadline.
- `LatestScanStaysFirst`: `[]LatestScanFirst`, with `ClaimedPriorities` (a follow-up gets the
  priority its worker has read at the claim: the row still has it or more, so it stays below what
  another gallery was promoted to) and `AbsentPriority`.
- `StrengtheningHolds`: `[]Strengthening`, the conjuncts all these rest on.

The same invariant leads to the abstract lease:

- `ImplementsLease`: `Spec => ImplementsWorkLease`. `OneHolder` removes the choice from the
  refinement mapping: by `FencedByName` at most one worker stands on a row. Then each
  transaction is one abstract step: enqueuing, requeuing and restoring open; a claim grants one row
  and revokes the expired ones; completion and final failure finish; a retry, an error of the
  record and a restart revoke; cancelling and excluding withdraw; the rest stutters.
- `TakenOnlyLate`: `Spec => TakenOnlyWhenLate`.

`DerivativeCacheProofs` proves, under `CacheAssumption` (any paths, variants,
revisions, profiles, workers, cleaners and disturbances):

- `TypeCorrect`: `Spec => []TypeOK`, which includes that a job has a lease exactly
  while it is RUNNING.
- `FreshAlways`, `OneCurrentAlways`: `Spec => []ServedIsFresh`, `Spec => []OneCurrent`.
  With `TypeOK` the two are inductive: only Publish adds to `current`, it rechecks
  the revision and withdraws the siblings in the same transaction.
- `NotDoomedAlways`: `Spec => []RecordsAreNotDoomed`, which is not inductive alone:
  after a failed unlink Commit puts a path *back* into the outbox, and Publish makes
  a STALE record of every current sibling. The invariant `Spared` adds `LockedIsBare`
  (while a cleaner's second transaction is open, its entry has no record: the recheck
  established it, and nobody publishes meanwhile), `OpenedByName` (the file of a path
  is opened only by an entry that names that path) and `CurrentIsRecorded`.
- `CleanersSpareAlways`: `Spec => CleanersSpareRecords`, from `Spared`.
- `FileExistsAlways`: `Spec => []ServedFileExists` if no claim is withdrawn or stalled and no
  publication refused (`Undisturbed`); crashes, errors of the disk, retries, replaced content and
  requests may be any number. `ExistsInv` adds to the above that a worker loses its claim only to
  a change of the bytes (`ClaimStands`, with `NoFuture`: nobody works for a revision yet to come),
  that a cleaner's second transaction found no job for its path and none begins while it is open
  (`LockedIsUnused`), and that what was renamed is there until it is published
  (`WrittenExists`) and while it is served (`CurrentExists`). The hypothesis is tight: with one
  withdrawal TLC shows the violation (`CacheUnprotected`), and so it does with a stall, or with a
  refusal and a retry.

`PlaybackSessionsProofs` proves, under `PlaybackAssumption` (finitely many sessions, any keys, leases,
segments, limits, visits and incidents), from one inductive invariant, `PlayInv`:

- `PlaybackTypeCorrect`: `[]PlaybackTypeOK`. The limit (`Places`) needs that a new session is counted
  under the mutex that inserts it; the slot (`SlotIsUsed`) that every return of `generate` gives it
  back.
- `LeasesLeadAlways`: `[]LeasesLead`, with `LeaseOfBegun`: a lease is of a session that has begun, so
  a session that is inserted anew has no lease that would not answer.
- `ClosedEmptyAlways`: `[]ClosedIsEmpty`. `CancelAll` waits for the mutex, so after it no start is past
  its check (`SweptIsShut`), and an encoder is there only while its `run` waits for it
  (`GenerateIsAwaited`), so awaiting the runs is enough.

`RestoreProtocolProofs` proves, under `RestoreAssumption` (any loops, numbers of
restorations and writes, and disturbances of every kind, crashes included):

- `TypeCorrect`: `Spec => []TypeOK`, which includes that `operationMu` has one holder
  and that a database whose mapping is pending waits for validation.
- `AwayAlways`: `Spec => []WorkersAreAway`.

Both follow from one inductive invariant, `IInv`: beside `TypeOK` it says at which
steps the database is open (`Handle`) and the loops are off (`Away`), that a process
that is down has neither and a request always has the database (`Alive`), and that no
restoration works on a database with a pending mapping (`NothingPending`), without
which the way back could set NORMAL over it. It has a lemma per conjunct and, in
each, a step per group of actions.

The other theorems about restorations are for a process that does not crash, and for so many
errors and hang-ups in a behaviour; how many restorations there are does not matter. Each number is the
largest: TLC shows a violation with one more.

- `FinalizedAlways` (two disturbances): `Spec => []FinalizedBeforeServed`. `FinalizedInv` counts what has
  been paid for (`Costs`): the way back has cost one disturbance, and a raw database that is
  still at the live path when the old one is put over it has cost a second (`RawIsReplaced`), so
  only a third could leave it there. `DatabaseIsThere` says where the files of both are, without which an
  open would make an empty database; `LoopsOnMapped` that loops are started over a mapped one only. A
  crash makes it false at once (`RestoreCrash`).
- `NeverMixed`, `FailuresAreUndone`, `FailuresReopen` (one): `[]NoMixture`, `[]FailureIsUndone`,
  `[]FailureReopens`. `OneInv` adds where what the restoration found is at every step: the
  database (`Kept`) and the metadata (`CoserKept`) at the live path or beside it; that outside the
  swap the two belong together (`Together`); that leftovers of an earlier restoration, which the
  way back takes by name, have cost the disturbance (`Leftovers`); and how a failed restoration leaves
  everything (`Undone`).
- `RestoreIsAtomic` (one): `Spec => ImplementsAtomicRestore`. `AtomicInv` adds that a restoration brings a
  generation of its own (`Newer`) and that the mode tells how far it is (`Modes`). Then each action
  is one abstract step or none: `EnterMaintenance` drains, `CloseLive` closes, `Finalize` exchanges,
  the three ways to return succeed or fail, mapping and resuming are the owner's, and a request
  writes; renames, the way back and the loops stutter. With two disturbances it is false: a
  restoration whose close and reopening both fail leaves a closed server and calls it a failure.

`LibraryAutomationProofs` proves, under `AutomationAssumption` (finitely many galleries and
runs, any libraries, batch size and accidents):

- `AutomationTypes`: `AutomationSpec => []AutomationTypeOK`, in which `WorkerHasRun` says that
  the run of a worker is RUNNING and in nobody else's hands; it is a part of every other
  invariant.
- `CancelIsSeen`: `[]CancelStopsActivation`, from `CancelInv`: a run whose cancellation was asked
  for and that still goes on has the mark in its row, through requeues, releases and
  recoveries, and has activated something late only if it is not yet back at a point that looks
  at the mark.
- `ProgressIsCounted`: `[]ProgressIsExact`, from `VerdictIsNew` (an activation that is not
  saved belongs to the step the worker is at) and `CountsAgree`.
- `RetryOpensOnlyItsDrafts`: `RetryOpensItsDrafts`, from `BatchTargeted` (the list of a retry run
  are its targets) and `FreshIsDraft` (a gallery that has not changed since it was found to be a
  draft is one).
- `NoDraftIsPassedOver`: `[]NoDraftPassedOver`, from `NoneSkipped`: what a run still owes remains to
  be listed (`AwaitedRemains`), and is in the worker's batch or comes after all of it
  (`BatchOrder`). That needs that cursors and batches are of galleries that exist, so that a
  discovered draft comes after every cursor, and that retry runs never discover.

`LibraryChangesProofs` proves, under `ChangesAssumption` (any finite sets of sources and any
numbers of changes, paths and disturbances):

- `ChangesTypes`: `ChangesSpec => []ChangesTypeOK`.
- `MarksAreNotOutdated`: `NoOutdatedMark`, from `LoadedIsStored`: as long as a directory's revision
  is the one loaded, what was loaded of it is what is stored.
- `ChangesAreTracked`: `[]ChangesTracked`, from `BehindIsReached`, which says it also of a source
  that will be behind once the scan under way is committed. It needs `ScanShows` (a scan that has
  begun and can still be committed shows as SCANNING, so a row used up meanwhile makes its source
  overlooked; one whose path was given up since it read the revision cannot be committed) and
  `BatchHandled` (past the marking, every row that was read is handled).

`ManifestSyncProofs` proves, under `SyncAssumption` (any fields and values, any callers, any
numbers of calls, edits and mishaps):

- `SyncTypes`: `SyncSpec => []SyncTypeOK`.
- `RevisionsTell`: `[]RevisionTells`.
- `PullsSpareEdits`: `SyncSpec => PullSparesEdits`.

All three follow from the inductive invariant `SyncIInv`. Beside the types it says that no row is
ahead of its gallery (`RowFits`, also of the backup's), and of every call, by the step it is
at, how what it has read relates to the present (`Fits`): while the revision is still the one
it began with and nothing without a revision came in between, the content is what a push has
read of it (`PushFits`) or what a pull has merged with (`PullFits`: where the merge differs
from the content, the content is as in the baseline), and the row an acknowledgement has read
is the present one (`AckFits`). A new revision makes all these conditions false at once
(`NewRevisionFits`), which is why the code may compare revisions only.

Every invariant and action property of a passing run is a theorem. *Only model-checked* is what this
prover does not reach: liveness under fairness (`EveryJobSettles`, `WorkersComeToRest`, `EveryRunEnds`,
`DeadFilesGo`, `SessionsEnd`, `RequestsAreAnswered`, `RestoreEnds`, `ChangesAreScanned`,
`FilesAreDiscovered`). The four violations are TLC's too.

## Not modelled

What the plan below still names is core logic that these modules leave open. The rest stays
out for reasons of its own:

- The upstream program (`src/pkg`, `internal/{api,manager,dlna,identify,autotag,desktop}`, `ui/v2.5`)
  is most of the repository's lines and is not run by the product. The generated GraphQL code
  (`generated_exec.go`, `generated_models.go`) is most of the product's; its resolvers
  validate, call one store operation and audit it.
- Coser assets, archives and media access, generators and video planning: input and output and
  computation over media, with no state between calls.
- Authentication and setup: cryptography and single revision-checked transactions.
- Browsing, search and similarity: queries that change nothing.
- Core entities, aliases and most of discovery: one transaction per command, which the single
  connection makes atomic. What they mean to runs is in `LibraryAutomation` (`OwnerEdits`,
  `OwnerSetsState`, `Discover`), what they mean to sources in `LibraryChanges` (`Walk`, `ConfirmRebind`).

## Plan

1. *Done:* `WorkLease`, `ProcessingQueue`, `DerivativeCache` and their first proofs.
2. *Done:* `RestoreProtocol`, and `AtomicRestore`, the switch between two states of the
   installation that it implements. To come: the portable maintenance modes.
3. *Done:* `LibraryAutomation`, and `LibraryChanges` for the file monitor. They stand beside
   `WorkLease` and do not refine it: one loop claims runs, a run returns to the queue without
   having failed, and the name of the claimer is always the same.
4. `ScheduledOps`: leases of scheduled operations, retention by count.
5. *Done:* `PlaybackSessions`: limits, joins, idle leases, seeks, fallback.
6. `SourceScan`: staging and committing observations, moved, missing and replaced
   items; composed with `DerivativeCache`'s invalidation.
7. *Done:* `ManifestSync`, with the merge as an operator on fields. To come: the nesting of keyed
   collections as a recursive function against a reference definition.
8. `DurableTime`: the text order of formatted times against the order of times.
9. `GalleryLifecycle`, `PortableMerge`.

Proofs go with each module that is still to come; for `ScheduledOps` first that the newest backup is kept.

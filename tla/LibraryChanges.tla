--------------------------- MODULE LibraryChanges ---------------------------
(***************************************************************************)
(* How a change on disk reaches the database: the monitor of a library     *)
(* (runLibraryMonitor) collects file events and, once quiet, stores them   *)
(* as rows of library_path_changes; a pass of the background scheduler     *)
(* (runLibraryPathChanges, runChangedSourceScans) marks the sources they   *)
(* concern, discovers the library if it must, and scans the marked ones;   *)
(* the owner scans and rebinds sources meanwhile.                          *)
(*                                                                         *)
(* One library, whose galleries are not drafts.  The content of a source   *)
(* is the number of its changes so far.  Times are numbers that order the  *)
(* changes of one path; whether ten seconds or an hour have passed is left *)
(* open.                                                                   *)
(***************************************************************************)
EXTENDS Naturals, FiniteSets

CONSTANTS
  Directories, Archives, \* the sources of the library
  Root,        \* the path of the library
  Unbound,     \* a path below it that belongs to no source
  Idle,        \* nobody scans a source
  Worker, Owner, \* who scans: the background scheduler, a request
  MaxPending,  \* runLibraryMonitor collects at most so many paths (4096)
  MaxEdits,    \* bound: changes on disk
  Events,      \* kinds of disturbances: see Disturb
  MaxEvents    \* bound: disturbances in a behaviour

Source == Directories \cup Archives
Path == Source \cup {Root, Unbound}

ASSUME ChangesAssumption ==
  /\ IsFiniteSet(Source) /\ Directories \cap Archives = {}
  /\ Root \notin Source /\ Unbound \notin Source \cup {Root}
  /\ Idle \notin {Worker, Owner} /\ Worker # Owner
  /\ MaxPending \in Nat \ {0} /\ MaxEdits \in Nat /\ MaxEvents \in Nat

VARIABLES
  content, files, \* on disk: the state of each source, the number of unbound files
  reconcile, available, \* gallery_sources: reconcile_state, availability_state
  known, revision, \* what the last scan stored, galleries.scan_revision
  found,       \* the unbound files that discovery has made candidates of
  rows, later, \* library_path_changes: a path's stamp (0: no row), those due in an hour
  up, monitored, \* the process runs, its monitor is switched on in the settings
  watching,    \* the watcher is set up
  pending,     \* runLibraryMonitor: a path's stamp (0: not collected)
  lost,        \* the kernel has dropped events, the watcher's error is to come
  step,        \* the scheduler's pass: where it is,
  batch, handled, \* the rows it has read, those whose sources are marked,
  discover,    \* whether the library is to be discovered,
  detector, seen, \* the sources compared: their stored state, what discovery saw,
  targets,     \* and the sources it is to scan
  given,       \* the path a caller of a scan has been given: see LookUp
  scanner, phase, read, expected, \* the scan of a source: who, its step, what it read
  overlooked,  \* history: sources that a row concerned while they were scanned
  misled,      \* history: sources whose last scan was of a path given up before it
  edits, used  \* changes and disturbances so far

disk == <<content, files, edits>>
sources == <<reconcile, available, known, revision>>
durable == <<found, rows, later>>
monitor == <<monitored, watching, pending, lost>>
comparison == <<detector, seen>>
pass == <<step, batch, handled, discover, comparison, targets>>
scan == <<given, scanner, phase, read, expected>>
history == <<overlooked, misled>>
vars == <<disk, sources, durable, up, monitor, pass, scan, history, used>>

Stamp == Nat
Reconciles == {"SCANNING", "IN_SYNC", "NEEDS_RESCAN", "ERROR"}
Caller == {Worker, Owner}
Steps == {"idle", "mark", "discover", "walk", "compare", "suspect", "complete", "scan"}
Unread == [revision |-> 0, known |-> 0, loaded |-> FALSE]

DiskTypes == content \in [Source -> Nat] /\ files \in Nat /\ edits \in 0..MaxEdits
SourceTypes ==
  /\ reconcile \in [Source -> Reconciles] /\ available \in [Source -> BOOLEAN]
  /\ known \in [Source -> Nat] /\ revision \in [Source -> Nat]
RowTypes == found \in Nat /\ rows \in [Path -> Stamp] /\ later \subseteq Path
MonitorTypes ==
  /\ up \in BOOLEAN /\ monitored \in BOOLEAN /\ watching \in BOOLEAN /\ lost \in BOOLEAN
  /\ pending \in [Path -> Stamp]
PassTypes ==
  /\ step \in Steps /\ batch \in [Path -> Stamp] /\ handled \subseteq Path
  /\ discover \in BOOLEAN /\ targets \subseteq Source
CompareTypes ==
  /\ detector \in [Source -> [revision : Nat, known : Nat, loaded : BOOLEAN]]
  /\ seen \in [Source -> Nat]
ScanTypes ==
  /\ scanner \in [Source -> Caller \cup {Idle}]
  /\ given \in [Source -> [Caller -> {"none", "here", "old", "since"}]]
  /\ phase \in [Source -> {"begin", "read", "verify", "commit", "failed"}]
  /\ read \in [Source -> Nat] /\ expected \in [Source -> Nat]
ChangesTypeOK ==
  /\ DiskTypes /\ SourceTypes /\ RowTypes /\ MonitorTypes /\ PassTypes /\ CompareTypes
  /\ ScanTypes /\ overlooked \subseteq Source /\ misled \subseteq Source
  /\ used \in 0..MaxEvents

NoPath == [p \in Path |-> 0]
NoCaller == [who \in Caller |-> "none"]

ChangesInit ==
  /\ content = [s \in Source |-> 0] /\ files = 0 /\ found = 0
  /\ reconcile = [s \in Source |-> "IN_SYNC"] /\ available = [s \in Source |-> TRUE]
  /\ known = [s \in Source |-> 0] /\ revision = [s \in Source |-> 1]
  /\ rows = NoPath /\ later = {}
  /\ up = TRUE /\ monitored = TRUE /\ watching = TRUE /\ pending = NoPath /\ lost = FALSE
  /\ step = "idle" /\ batch = NoPath /\ handled = {} /\ discover = FALSE /\ targets = {}
  /\ detector = [s \in Source |-> Unread] /\ seen = [s \in Source |-> 0]
  /\ given = [s \in Source |-> NoCaller]
  /\ scanner = [s \in Source |-> Idle] /\ phase = [s \in Source |-> "begin"]
  /\ read = [s \in Source |-> 0] /\ expected = [s \in Source |-> 0]
  /\ overlooked = {} /\ misled = {} /\ edits = 0 /\ used = 0

(* A disturbance of the named kind happens. *)
Disturb(kind) ==
  /\ kind \in Events /\ used < MaxEvents
  /\ used' = used + 1

(* The time, as a stamp of a path that is later than those it has. *)
Now(p) ==
  CHOOSE t \in {pending[p] + 1, rows[p] + 1, batch[p] + 1} :
    t > pending[p] /\ t > rows[p] /\ t > batch[p]

-----------------------------------------------------------------------------
(* The monitor. *)

(* A path joins those that are collected; a full collection becomes the root. *)
Collect(p) ==
  LET waiting == {q \in Path : pending[q] # 0} IN
  IF Cardinality(waiting) >= MaxPending
  THEN pending' = [NoPath EXCEPT ![Root] = Now(Root)]
  ELSE pending' = [pending EXCEPT ![p] = Now(p)]

(* The file event of a change, or the loss of it in a full kernel queue. *)
Observe(p) ==
  /\ edits < MaxEdits /\ edits' = edits + 1
  /\ \/ ~watching /\ UNCHANGED <<pending, lost, used>>
     \/ watching /\ Collect(p) /\ UNCHANGED <<lost, used>>
     \/ watching /\ Disturb("lost") /\ lost' = TRUE /\ UNCHANGED pending
  /\ UNCHANGED <<monitored, watching>>

(* A file of a source changes, or one is added to it or taken away. *)
Edit(s) ==
  /\ content' = [content EXCEPT ![s] = @ + 1]
  /\ Observe(s)
  /\ UNCHANGED <<files, sources, durable, up, pass, scan, history>>

(* Files of a gallery that is not known yet appear. *)
AddUnbound ==
  /\ files' = files + 1
  /\ Observe(Unbound)
  /\ UNCHANGED <<content, sources, durable, up, pass, scan, history>>

(* The watcher reports that it has lost events: the root is collected. *)
WatcherFailed ==
  /\ up /\ watching /\ lost
  /\ lost' = FALSE
  /\ pending' = [pending EXCEPT ![Root] = Now(Root)]
  /\ UNCHANGED <<disk, sources, durable, up, monitored, watching, pass, scan, history, used>>

(* refresh, woken by the setting or at the start: everything collected is    *)
(* forgotten, and what may have happened without a watcher is made up for by *)
(* the root.                                                                 *)
Refresh ==
  /\ up /\ watching # monitored
  /\ watching' = monitored /\ lost' = FALSE
  /\ pending' = IF monitored THEN [NoPath EXCEPT ![Root] = Now(Root)] ELSE NoPath
  /\ UNCHANGED <<disk, sources, durable, up, monitored, pass, scan, history, used>>

(* The row that a stamp makes of a path's: the later one, but what happens   *)
(* now does not wait for a retry in an hour.                                 *)
QueueLibraryPathChange(p, stamp, inAnHour) ==
  IF p \in later /\ ~inAnHour
  THEN /\ rows' = [rows EXCEPT ![p] = stamp]
       /\ later' = later \ {p}
  ELSE /\ rows' = [rows EXCEPT ![p] = IF @ > stamp THEN @ ELSE stamp]
       /\ later' = IF inAnHour THEN later \cup {p} ELSE later

(* A path has been quiet: its change is stored.  An error keeps it. *)
Flush(p) ==
  /\ up /\ watching /\ pending[p] # 0
  /\ QueueLibraryPathChange(p, pending[p], FALSE)
  /\ pending' = [pending EXCEPT ![p] = 0]
  /\ UNCHANGED <<disk, sources, found, up, monitored, watching, lost, pass, scan,
                 history, used>>

(* The hour of a change whose discovery failed is over. *)
RetryDue(p) ==
  /\ p \in later /\ step = "idle"
  /\ later' = later \ {p}
  /\ UNCHANGED <<disk, sources, found, rows, up, monitor, pass, scan, history, used>>

-----------------------------------------------------------------------------
(* A pass of the background scheduler. *)

\* Faulty variant: archives are forgotten.
ChangedDirectoryTargets ==
  {s \in Directories : available[s] /\ reconcile[s] = "NEEDS_RESCAN"}
ChangedSourceTargets == {s \in Source : available[s] /\ reconcile[s] = "NEEDS_RESCAN"}
PendingLibraryPathChanges ==
  [p \in Path |-> IF monitored /\ p \notin later THEN rows[p] ELSE 0]

(* A pass begins with the rows; one that finds no work is left out. *)
StartPass ==
  /\ up /\ step = "idle"
  /\ PendingLibraryPathChanges # NoPath \/ ChangedSourceTargets # {}
  /\ batch' = PendingLibraryPathChanges /\ handled' = {} /\ discover' = FALSE
  /\ step' = "mark"
  /\ UNCHANGED <<disk, sources, durable, up, monitor, comparison, targets, scan,
                 history, used>>

(* The sources of a changed path that the pass marks. *)
Concerned(p) == IF p = Root THEN Source ELSE {p} \cap Source
Marked(ids) == [s \in Source |->
  IF s \in ids /\ reconcile[s] # "SCANNING" THEN "NEEDS_RESCAN" ELSE reconcile[s]]

(* ChangedPathSourceIDs for one row; the order of the rows is left open. *)
MarkChange(p) ==
  LET ids == Concerned(p) IN
  /\ up /\ step = "mark" /\ batch[p] # 0 /\ p \notin handled
  /\ reconcile' = Marked(ids)
  /\ overlooked' = (overlooked \ ids) \cup {s \in ids : reconcile[s] = "SCANNING"}
  /\ handled' = handled \cup {p}
  /\ discover' = (discover \/ ids = {} \/ p = Root)
  /\ UNCHANGED <<disk, available, known, revision, durable, up, monitor, step, batch,
                 comparison, targets, scan, misled, used>>

AllMarked ==
  /\ up /\ step = "mark" /\ \A p \in Path : batch[p] # 0 => p \in handled
  /\ step' = IF discover THEN "discover" ELSE "complete"
  /\ UNCHANGED <<disk, sources, durable, up, monitor, batch, handled, discover, comparison,
                 targets, scan, history, used>>

Load(set) == [s \in Source |-> IF s \in set /\ reconcile[s] = "IN_SYNC"
  THEN [revision |-> revision[s], known |-> known[s], loaded |-> TRUE]
  ELSE detector[s]]

(* DiscoverFilesystem loads what is stored of the directories in sync. *)
LoadDirectories ==
  /\ up /\ step = "discover"
  /\ detector' = Load(Directories)
  /\ step' = "walk"
  /\ UNCHANGED <<disk, sources, durable, up, monitor, batch, handled, discover, seen,
                 targets, scan, history, used>>

(* It walks the library, stores the candidates, and loads the evidence of    *)
(* the archives.                                                             *)
Walk ==
  /\ up /\ step = "walk"
  /\ seen' = [s \in Source |-> IF s \in Directories THEN content[s] ELSE seen[s]]
  /\ found' = files
  /\ detector' = Load(Archives)
  /\ step' = "compare"
  /\ UNCHANGED <<disk, sources, rows, later, up, monitor, batch, handled, discover,
                 targets, scan, history, used>>

(* The archives are looked at. *)
StatArchives ==
  /\ up /\ step = "compare"
  /\ seen' = [s \in Source |-> IF s \in Archives THEN content[s] ELSE seen[s]]
  /\ step' = "suspect"
  /\ UNCHANGED <<disk, sources, durable, up, monitor, batch, handled, discover, detector,
                 targets, scan, history, used>>

\* Faulty variant: what was loaded of a source is taken for what is stored.
InSync(s) == reconcile[s] = "IN_SYNC"

(* What was loaded is still what is stored: a directory's by its revision,   *)
(* an archive's by its evidence.                                             *)
Current(s) ==
  /\ reconcile[s] = "IN_SYNC"
  /\ IF s \in Directories THEN revision[s] = detector[s].revision
                          ELSE known[s] = detector[s].known

(* A source that differs from what was loaded of it is marked. *)
CompareSource(s) ==
  /\ up /\ step = "suspect" /\ detector[s].loaded
  /\ reconcile' = IF seen[s] # detector[s].known /\ Current(s)
                  THEN [reconcile EXCEPT ![s] = "NEEDS_RESCAN"] ELSE reconcile
  /\ detector' = [detector EXCEPT ![s] = Unread]
  /\ UNCHANGED <<disk, available, known, revision, durable, up, monitor, step, batch, handled,
                 discover, seen, targets, scan, history, used>>

AllCompared ==
  /\ up /\ step = "suspect" /\ \A s \in Source : ~detector[s].loaded
  /\ step' = "complete"
  /\ seen' = [s \in Source |-> 0]
  /\ UNCHANGED <<disk, sources, durable, up, monitor, batch, handled, discover, detector,
                 targets, scan, history, used>>

(* An error of the disk or of the database ends the discovery. *)
BreaksOff ==
  /\ up /\ step \in {"discover", "walk", "compare", "suspect"} /\ Disturb("discovery")
  /\ detector' = [s \in Source |-> Unread] /\ seen' = [s \in Source |-> 0]
  /\ step' = "complete"
  /\ UNCHANGED <<disk, sources, found, up, monitor, batch, handled, discover, targets, scan,
                 history>>

\* Faulty variant: the rows of a failed discovery are completed like others.
DiscoveryGivesUp == BreaksOff /\ UNCHANGED <<rows, later>>

(* The discovery fails: the rows it was for are queued for a retry in an hour. *)
DiscoveryFails ==
  /\ BreaksOff
  /\ rows' = [p \in Path |-> IF batch[p] # 0 THEN Now(p) ELSE rows[p]]
  /\ later' = later \cup {p \in Path : batch[p] # 0}

\* Faulty variant: the rows of the paths go, whatever has come to them since.
CompletePaths ==
  /\ up /\ step = "complete"
  /\ rows' = [p \in Path |-> IF batch[p] # 0 THEN 0 ELSE rows[p]]
  /\ later' = {p \in later : batch[p] = 0}
  /\ batch' = NoPath /\ handled' = {} /\ discover' = FALSE
  /\ targets' = ChangedSourceTargets
  /\ step' = "scan"
  /\ UNCHANGED <<disk, sources, found, up, monitor, comparison, scan, history, used>>

(* CompleteLibraryPathChange deletes the rows that are still those read; the *)
(* scans of the marked sources follow.                                       *)
CompleteChanges ==
  /\ up /\ step = "complete"
  /\ LET done == {p \in Path : batch[p] # 0 /\ rows[p] = batch[p]} IN
       /\ rows' = [p \in Path |-> IF p \in done THEN 0 ELSE rows[p]]
       /\ later' = later \ done
  /\ batch' = NoPath /\ handled' = {} /\ discover' = FALSE
  /\ targets' = ChangedSourceTargets
  /\ step' = "scan"
  /\ UNCHANGED <<disk, sources, found, up, monitor, comparison, scan, history, used>>

EndPass ==
  /\ up /\ step = "scan" /\ targets = {} /\ \A s \in Source : given[s][Worker] = "none"
  /\ step' = "idle"
  /\ UNCHANGED <<disk, sources, durable, up, monitor, batch, handled, discover, comparison,
                 targets, scan, history, used>>

-----------------------------------------------------------------------------
(* Scans: RunWithOptions. *)

(* findSource gives a caller the path of the source.  It is "here" as long as *)
(* the source is not rebound; then it is "old", or, if the scan has read the  *)
(* revision before, was given up "since".  A source has at most one caller of *)
(* each kind.                                                                 *)
LookUp(s, who) ==
  /\ given[s][who] = "none"
  /\ given' = [given EXCEPT ![s][who] = "here"]
  /\ UNCHANGED <<scanner, phase, read, expected>>

(* The scheduler scans its next target when it is done with the last. *)
WorkerScan(s) ==
  /\ up /\ step = "scan" /\ s \in targets /\ \A t \in Source : given[t][Worker] = "none"
  /\ LookUp(s, Worker)
  /\ targets' = targets \ {s}
  /\ UNCHANGED <<disk, sources, durable, up, monitor, step, batch, handled, discover, comparison,
                 history, used>>

OwnerScan(s) ==
  /\ up /\ Disturb("owner") /\ LookUp(s, Owner)
  /\ UNCHANGED <<disk, sources, durable, up, monitor, pass, history>>

(* activePhysicalScans admits one scan of a source, which reads the revision  *)
(* it will expect; another caller gets ErrSourceScanInProgress.               *)
Enter(s, who) ==
  /\ up /\ given[s][who] # "none" /\ scanner[s] # who
  /\ IF scanner[s] = Idle
     THEN /\ scanner' = [scanner EXCEPT ![s] = who]
          /\ expected' = [expected EXCEPT ![s] = revision[s]]
          /\ UNCHANGED given
     ELSE /\ given' = [given EXCEPT ![s][who] = "none"]
          /\ UNCHANGED <<scanner, expected>>
  /\ UNCHANGED <<disk, sources, durable, up, monitor, pass, phase, read, history, used>>

(* Begin: whatever the state of the source, it is now being scanned. *)
BeginScan(s) ==
  /\ up /\ scanner[s] # Idle /\ phase[s] = "begin"
  /\ phase' = [phase EXCEPT ![s] = "read"]
  /\ reconcile' = [reconcile EXCEPT ![s] = "SCANNING"]
  /\ UNCHANGED <<disk, available, known, revision, durable, up, monitor, pass, given, scanner,
                 read, expected, history, used>>

(* The scan leaves activePhysicalScans. *)
End(s) ==
  /\ given' = [given EXCEPT ![s][scanner[s]] = "none"]
  /\ scanner' = [scanner EXCEPT ![s] = Idle] /\ phase' = [phase EXCEPT ![s] = "begin"]
  /\ read' = [read EXCEPT ![s] = 0] /\ expected' = [expected EXCEPT ![s] = 0]

(* The source has been rebound since the scan was given its path, where other *)
(* files than the source's are now.                                           *)
Astray(s) == given[s][scanner[s]] \in {"old", "since"}

(* The members are enumerated and read. *)
ScanRead(s) ==
  /\ up /\ scanner[s] # Idle /\ phase[s] = "read"
  /\ \E c \in 0..content[s] :
       /\ c = content[s] <=> ~Astray(s)
       /\ read' = [read EXCEPT ![s] = c]
  /\ phase' = [phase EXCEPT ![s] = "verify"]
  /\ UNCHANGED <<disk, sources, durable, up, monitor, pass, given, scanner, expected, history,
                 used>>

(* The files that were read are looked at again.  A change of one of them is *)
(* noticed; a file added to a directory that was already walked is not.      *)
ScanVerify(s) ==
  /\ up /\ scanner[s] # Idle /\ phase[s] = "verify"
  /\ read[s] = content[s] \/ s \in Directories \/ Astray(s)
  /\ phase' = [phase EXCEPT ![s] = "commit"]
  /\ UNCHANGED <<disk, sources, durable, up, monitor, pass, given, scanner, read, expected,
                 history, used>>

(* Abort: the source is in error, unless its state has been set meanwhile. *)
Abort(s) ==
  reconcile' = [reconcile EXCEPT ![s] = IF @ = "SCANNING" THEN "ERROR" ELSE @]

(* A file changed while it was read, or is gone with the path that was given: *)
(* the run is aborted, ...                                                    *)
ScanChanged(s) ==
  /\ up /\ scanner[s] # Idle /\ phase[s] = "verify"
  /\ read[s] # content[s]
  /\ Abort(s)
  /\ phase' = [phase EXCEPT ![s] = "failed"]
  /\ UNCHANGED <<disk, available, known, revision, durable, up, monitor, pass, given, scanner,
                 read, expected, history, used>>

(* ... and then the source is recorded as unreadable. *)
RecordUnreadable(s) ==
  /\ up /\ scanner[s] # Idle /\ phase[s] = "failed"
  /\ available' = [available EXCEPT ![s] = FALSE]
  /\ reconcile' = [reconcile EXCEPT ![s] = "ERROR"]
  /\ revision' = [revision EXCEPT ![s] = @ + 1]
  /\ End(s)
  /\ UNCHANGED <<disk, known, durable, up, monitor, pass, history, used>>

(* The scan is not safe to commit, or exceeds the limit of members. *)
ScanRefused(s) ==
  /\ up /\ scanner[s] # Idle /\ phase[s] = "commit" /\ Disturb("refused")
  /\ reconcile' = [reconcile EXCEPT ![s] = "ERROR"]
  /\ revision' = [revision EXCEPT ![s] = @ + 1]
  /\ End(s)
  /\ UNCHANGED <<disk, available, known, durable, up, monitor, pass, history>>

(* commit: what was read becomes what is known, if nothing has come between. *)
ScanCommit(s) ==
  /\ up /\ scanner[s] # Idle /\ phase[s] = "commit"
  /\ IF revision[s] = expected[s]
     THEN /\ known' = [known EXCEPT ![s] = read[s]]
          /\ reconcile' = [reconcile EXCEPT ![s] = "IN_SYNC"]
          /\ available' = [available EXCEPT ![s] = TRUE]
          /\ revision' = [revision EXCEPT ![s] = @ + 1]
          /\ misled' = IF given[s][scanner[s]] = "old" THEN misled \cup {s} ELSE misled \ {s}
     ELSE Abort(s) /\ UNCHANGED <<available, known, revision, misled>>
  /\ End(s)
  /\ UNCHANGED <<disk, durable, up, monitor, pass, overlooked, used>>

(* The client of an owner's scan hangs up: its context is cancelled, and the *)
(* abort, which needs it too, fails.                                         *)
OwnerHangsUp(s) ==
  /\ up /\ scanner[s] = Owner
  /\ End(s)
  /\ Disturb("hangup")
  /\ UNCHANGED <<disk, sources, durable, up, monitor, pass, history>>

(* The owner confirms that a source is now elsewhere, with other files. *)
ConfirmRebind(s) ==
  /\ up /\ Disturb("rebind")
  /\ content' = [content EXCEPT ![s] = @ + 1]
  /\ reconcile' = [reconcile EXCEPT ![s] = "NEEDS_RESCAN"]
  /\ available' = [available EXCEPT ![s] = TRUE]
  /\ revision' = [revision EXCEPT ![s] = @ + 1]
  /\ given' = [given EXCEPT ![s] = [who \in Caller |->
       IF given[s][who] = "none" THEN "none" ELSE IF scanner[s] = who THEN "since" ELSE "old"]]
  /\ UNCHANGED <<files, edits, known, durable, up, monitor, pass, scanner, phase, read, expected,
                 history>>

-----------------------------------------------------------------------------
(* The process and its settings. *)

SwitchMonitor ==
  /\ up /\ Disturb("switch")
  /\ monitored' = ~monitored
  /\ UNCHANGED <<disk, sources, durable, up, watching, pending, lost, pass, scan, history>>

(* The process ends: what is only in memory is gone. *)
Crash ==
  /\ up /\ Disturb("crash")
  /\ up' = FALSE
  /\ watching' = FALSE /\ pending' = NoPath /\ lost' = FALSE
  /\ step' = "idle" /\ batch' = NoPath /\ handled' = {} /\ discover' = FALSE /\ targets' = {}
  /\ detector' = [s \in Source |-> Unread] /\ seen' = [s \in Source |-> 0]
  /\ given' = [s \in Source |-> NoCaller]
  /\ scanner' = [s \in Source |-> Idle] /\ phase' = [s \in Source |-> "begin"]
  /\ read' = [s \in Source |-> 0] /\ expected' = [s \in Source |-> 0]
  /\ UNCHANGED <<disk, sources, durable, monitored, history>>

Start ==
  /\ ~up /\ up' = TRUE
  /\ UNCHANGED <<disk, sources, durable, monitor, pass, scan, history, used>>

MonitorStep == WatcherFailed \/ Refresh \/ \E p \in Path : Flush(p)

PassStep ==
  \/ StartPass \/ AllMarked \/ LoadDirectories \/ Walk \/ StatArchives \/ AllCompared
  \/ CompleteChanges \/ EndPass
  \/ \E p \in Path : MarkChange(p)
  \/ \E s \in Source : CompareSource(s) \/ WorkerScan(s) \/ Enter(s, Worker)

ScanStep(s) ==
  \/ Enter(s, Owner) \/ BeginScan(s) \/ ScanRead(s) \/ ScanVerify(s) \/ ScanChanged(s)
  \/ RecordUnreadable(s) \/ ScanCommit(s)

ChangesNext ==
  \/ MonitorStep \/ PassStep \/ DiscoveryFails \/ \E p \in Path : RetryDue(p)
  \/ \E s \in Source : Edit(s) \/ OwnerScan(s) \/ ScanStep(s) \/ ScanRefused(s)
       \/ OwnerHangsUp(s) \/ ConfirmRebind(s)
  \/ AddUnbound \/ SwitchMonitor \/ Crash \/ Start

ChangesSpec == ChangesInit /\ [][ChangesNext]_vars

(* The goroutines go on, a crashed process is started again, an hour passes. *)
ChangesFairness ==
  /\ WF_vars(PassStep) /\ WF_vars(MonitorStep) /\ WF_vars(Start)
  /\ \A s \in Source : WF_vars(ScanStep(s))
  /\ WF_vars(\E p \in Path : RetryDue(p))
ChangesFairSpec == ChangesSpec /\ ChangesFairness

-----------------------------------------------------------------------------
(* Properties. *)

\* A change of the path is collected, or stored in a row that a pass has not
\* acted on yet.
Unhandled(p) == \/ pending[p] # 0
                \/ rows[p] # 0 /\ ~(p \in handled /\ batch[p] = rows[p])
Announced(s) == lost \/ Unhandled(s) \/ Unhandled(Root)
Abandoned(s) == reconcile[s] = "SCANNING" /\ scanner[s] = Idle

\* A source that passes for IN_SYNC while its files differ from what was
\* scanned has a file event on its way to it: through the collection, its
\* overflow, the rows, their deletion and the passes, also after crashes
\* and switches of the monitor.  (library_monitor.go, library_path_changes.go;
\* the exceptions are sources for which a row was used up during a scan, and
\* those scanned under a path that was given up before RunWithOptions read the
\* revision.  A source rebound later does not pass for IN_SYNC: commit compares.)
ChangesTracked ==
  watching => \A s \in Source :
    reconcile[s] = "IN_SYNC" /\ known[s] # content[s] /\ s \notin overlooked \cup misled
      => Announced(s)

\* A discovery never sends a source to a new scan for having files that a
\* scan, since the discovery began, has already stored: what it loaded is
\* compared with what is stored when it marks.
NoOutdatedMark ==
  [][\A s \in Source :
       step = "suspect" /\ content' = content
       /\ reconcile[s] = "IN_SYNC" /\ reconcile'[s] = "NEEDS_RESCAN"
       => known[s] # seen[s]]_vars

\* While the monitor is on, a change is scanned in the end, or its source
\* shows an error, is unreadable, was left by a scan that did not end, or
\* is one of the exceptions of ChangesTracked.
ChangesAreScanned ==
  \A s \in Source :
    known[s] # content[s] ~> \/ known[s] = content[s] \/ ~monitored
                            \/ reconcile[s] = "ERROR" \/ ~available[s]
                            \/ Abandoned(s) \/ s \in overlooked \cup misled

\* While the monitor is on, files of unknown galleries become candidates in
\* the end, though discoveries may fail, events be lost and processes die.
FilesAreDiscovered == found # files ~> found = files \/ ~monitored
=============================================================================

-------------------------- MODULE LibraryAutomation --------------------------
(***************************************************************************)
(* The automation of libraries: runs are queued by the owner, the          *)
(* scheduler or a portable import, claimed by one worker, processed        *)
(* gallery by gallery in batches (ProcessClaimedRunBatch), and end as      *)
(* COMPLETED, FAILED or CANCELLED.  A full run discovers the library,      *)
(* scans its drafts and makes them ACTIVE if its policy says so; a retry   *)
(* run does so for the drafts it was queued with, without a scan.          *)
(*                                                                         *)
(* A database transaction is one action.  Galleries are their ids.         *)
(* metadata_revision is abstracted to whether the gallery is still as the  *)
(* worker has read it, what blocks an activation to whether anything does. *)
(* What a run holds in memory differs from its row by one gallery at most: *)
(* its outcome (verdict) is counted when the progress is saved.            *)
(***************************************************************************)
EXTENDS Naturals, FiniteSets

CONSTANTS
  Library,     \* media_libraries
  GalleryId,   \* ids of galleries, in the order of their creation
  LibraryOf,   \* the library of a gallery
  Run,         \* bound: ids of runs, in the order they are queued
  NoRun, NoGallery, \* the worker has none
  BatchSize,   \* galleries in a batch (25)
  Accidents,   \* kinds of disturbances: see Accident
  MaxAccidents \* bound: disturbances in a behaviour

ASSUME AutomationAssumption ==
  /\ GalleryId \subseteq Nat \ {0} /\ Run \subseteq Nat \ {0}
  /\ IsFiniteSet(GalleryId) /\ IsFiniteSet(Run) /\ Library # {}
  /\ LibraryOf \in [GalleryId -> Library]
  /\ NoRun \notin Run /\ NoGallery \notin GalleryId
  /\ BatchSize \in Nat \ {0} /\ MaxAccidents \in Nat

VARIABLES
  stateOf,     \* galleries.state, or "none"
  synced,      \* galleries whose source is IN_SYNC
  preparing,   \* galleries with unfinished processing jobs
  blocked,     \* galleries with activation blockers
  run,         \* library_automation_runs
  retried,     \* library_draft_retry_targets: a run's outcome for a gallery
  turn, mine,  \* the worker: where it is, the run it has claimed,
  listed,      \* the targets of its batch that are left,
  unsynced,    \* those that were not in sync when it listed them,
  current, verdict, \* the gallery it works on and what has come of it,
  fresh,       \* and that it is still as it was read
  undecided,   \* history: drafts of a run that have been drafts ever since
  asked,       \* history: runs whose cancellation was asked for
  made, late,  \* history: activations by a run, and those after it was asked for
  broken,      \* history: batches of a run that were broken off
  accidents    \* disturbances so far

galleries == <<stateOf, synced, preparing, blocked>>
worker == <<turn, mine, listed, unsynced, current, verdict, fresh>>
runHistory == <<undecided, asked, made, late, broken>>
autoVars == <<galleries, run, retried, worker, runHistory, accidents>>

GalleryStates == {"none", "DRAFT", "ACTIVE", "ARCHIVED"}
Underway == {"QUEUED", "RUNNING"}
Ended == {"COMPLETED", "FAILED", "CANCELLED"}
RetryOutcomes == {"none", "PENDING", "ACTIVATED", "NEEDS_REVIEW", "SKIPPED"}
AtGallery == {"scan", "policy", "media", "find", "activate", "outcome", "save"}
Turns == AtGallery \cup {"idle", "begin", "discover", "discovered", "list", "next", "skip"}
Rows == [status : Underway \cup Ended \cup {"none"}, library : Library, retry : BOOLEAN,
         discovered : BOOLEAN, cursor : Nat, activated : Nat,
         cancelling : BOOLEAN, expired : BOOLEAN]

GalleryTypes ==
  /\ stateOf \in [GalleryId -> GalleryStates]
  /\ synced \subseteq GalleryId /\ preparing \subseteq GalleryId /\ blocked \subseteq GalleryId
RunTypes == run \in [Run -> Rows] /\ retried \in [Run -> [GalleryId -> RetryOutcomes]]
WorkerTypes ==
  /\ turn \in Turns /\ mine \in Run \cup {NoRun}
  /\ listed \subseteq GalleryId /\ unsynced \subseteq GalleryId
  /\ current \in GalleryId \cup {NoGallery} /\ verdict \in {"open", "activated", "review"}
  /\ fresh \in BOOLEAN
HistoryTypes ==
  /\ undecided \in [Run -> SUBSET GalleryId] /\ asked \subseteq Run
  /\ made \in [Run -> Nat] /\ late \in [Run -> Nat] /\ broken \in [Run -> Nat]
  /\ accidents \in 0..MaxAccidents
\* The worker has a run, which nobody else takes from it, and a gallery.
WorkerHasRun ==
  /\ turn # "idle" => mine \in Run
  /\ turn \notin {"idle", "skip"} => run[mine].status = "RUNNING"
  /\ turn \in AtGallery => current \in GalleryId
AutomationTypeOK ==
  GalleryTypes /\ RunTypes /\ WorkerTypes /\ HistoryTypes /\ WorkerHasRun

NoRow == [status |-> "none", library |-> CHOOSE l \in Library : TRUE, retry |-> FALSE,
          discovered |-> FALSE, cursor |-> 0, activated |-> 0,
          cancelling |-> FALSE, expired |-> FALSE]

(* Drafts, in sync or never scanned, without the metadata that an activation *)
(* needs; the galleries of later discoveries are not there yet.              *)
AutomationInit ==
  /\ stateOf \in [GalleryId -> {"none", "DRAFT"}]
  /\ \A g, h \in GalleryId : g < h /\ stateOf[g] = "none" => stateOf[h] = "none"
  /\ synced \in {{}, GalleryId} /\ preparing = {} /\ blocked = GalleryId
  /\ run = [r \in Run |-> NoRow]
  /\ retried = [r \in Run |-> [g \in GalleryId |-> "none"]]
  /\ turn = "idle" /\ mine = NoRun /\ listed = {} /\ unsynced = {}
  /\ current = NoGallery /\ verdict = "open" /\ fresh = TRUE
  /\ undecided = [r \in Run |-> {}] /\ asked = {}
  /\ made = [r \in Run |-> 0] /\ late = [r \in Run |-> 0] /\ broken = [r \in Run |-> 0]
  /\ accidents = 0

Accident(kind) ==
  /\ kind \in Accidents /\ accidents < MaxAccidents
  /\ accidents' = accidents + 1

DraftsOf(l) == {g \in GalleryId : LibraryOf[g] = l /\ stateOf[g] = "DRAFT"}

\* Faulty variant: the gallery at the cursor comes again.
RemainingFromCursor(r) ==
  {g \in DraftsOf(run[r].library) :
     g >= run[r].cursor /\ (run[r].retry => retried[r][g] # "none")}

(* automationDraftTargets, automationDraftsRemain: drafts after the cursor.  *)
Remaining(r) ==
  {g \in DraftsOf(run[r].library) :
     g > run[r].cursor /\ (run[r].retry => retried[r][g] # "none")}
FirstOf(S, n) == {g \in S : Cardinality({h \in S : h < g}) < n}

-----------------------------------------------------------------------------
(* Galleries. *)

(* Who leaves the drafts is no longer awaited by any run. *)
LeavesDrafts(g) == undecided' = [r \in Run |-> undecided[r] \ {g}]

(* GalleryStore.SetState, past its check of the revision.  An activation     *)
(* that is blocked makes a draft of an archived gallery.                     *)
StateAfter(g, target) ==
  IF target # "ACTIVE" \/ g \notin blocked THEN target
  ELSE IF stateOf[g] = "ARCHIVED" THEN "DRAFT" ELSE stateOf[g]

OwnerSetsState(g, target) ==
  /\ Accident("owner") /\ stateOf[g] # "none"
  /\ StateAfter(g, target) # stateOf[g]
  /\ stateOf' = [stateOf EXCEPT ![g] = StateAfter(g, target)]
  /\ fresh' = (fresh /\ current # g)
  /\ IF target = "DRAFT" THEN UNCHANGED undecided ELSE LeavesDrafts(g)
  /\ UNCHANGED <<synced, preparing, blocked, run, retried, turn, mine, listed, unsynced,
                 current, verdict, asked, made, late, broken>>

(* The owner completes the metadata of a gallery, or takes from it. *)
OwnerEdits(g) ==
  /\ Accident("owner") /\ stateOf[g] # "none"
  /\ blocked' = IF g \in blocked THEN blocked \ {g} ELSE blocked \cup {g}
  /\ fresh' = (fresh /\ current # g)
  /\ UNCHANGED <<stateOf, synced, preparing, run, retried, turn, mine, listed, unsynced,
                 current, verdict, runHistory>>

(* A worker of the processing queue has settled the jobs of a gallery. *)
MediaPrepared(g) ==
  /\ g \in preparing
  /\ preparing' = preparing \ {g}
  /\ UNCHANGED <<stateOf, synced, blocked, run, retried, worker, runHistory, accidents>>

(* The owner asks for media again, or rescans the gallery. *)
MediaQueued(g) ==
  /\ Accident("owner") /\ stateOf[g] # "none" /\ g \notin preparing
  /\ preparing' = preparing \cup {g}
  /\ UNCHANGED <<stateOf, synced, blocked, run, retried, worker, runHistory>>

-----------------------------------------------------------------------------
(* Commands about runs. *)

(* enqueueRun: a library has one active run (unique index on the table); the *)
(* targets of a retry run, all drafts or those selected, are fixed.          *)
QueueRun(r, l, retry, drafts) ==
  /\ \A q \in Run : (q < r <=> run[q].status # "none")
  /\ \A q \in Run : run[q].library = l => run[q].status \notin Underway
  /\ run' = [run EXCEPT ![r] =
       [@ EXCEPT !.status = "QUEUED", !.library = l, !.retry = retry,
                 !.discovered = retry]]
  /\ retried' = [retried EXCEPT ![r] =
       [g \in GalleryId |-> IF g \in drafts THEN "PENDING" ELSE "none"]]
  /\ undecided' = [undecided EXCEPT ![r] = IF retry THEN drafts ELSE DraftsOf(l)]
  /\ UNCHANGED <<galleries, worker, asked, made, late, broken, accidents>>

EnqueueRun(r, l) == QueueRun(r, l, FALSE, {})
EnqueueDraftRetry(r, l, drafts) ==
  /\ drafts \subseteq DraftsOf(l)
  /\ drafts = {} => DraftsOf(l) = {}
  /\ QueueRun(r, l, TRUE, drafts)

RequestCancel(r) ==
  /\ Accident("cancel") /\ run[r].status \in Underway /\ ~run[r].cancelling
  /\ run' = [run EXCEPT ![r] = IF @.status = "QUEUED" THEN [@ EXCEPT !.status = "CANCELLED"]
                                                     ELSE [@ EXCEPT !.cancelling = TRUE]]
  /\ asked' = asked \cup {r}
  /\ UNCHANGED <<galleries, retried, worker, undecided, made, late, broken>>

-----------------------------------------------------------------------------
(* The worker. *)

GoesFrom(from, to) == turn = from /\ turn' = to
Rests == mine' = NoRun /\ listed' = {} /\ unsynced' = {} /\ current' = NoGallery
         /\ verdict' = "open" /\ fresh' = TRUE
KeepsBatch == UNCHANGED <<mine, listed, unsynced, current, verdict, fresh>>

\* Faulty variant: the cancellation is forgotten with the claim.
LeavesAnew(status) ==
  run' = [run EXCEPT ![mine].status = status, ![mine].expired = FALSE, ![mine].cancelling = FALSE]

(* CompleteRun, RequeueRun and ReleaseRun: the run leaves the worker. *)
Leaves(status) ==
  run' = [run EXCEPT ![mine].status = status, ![mine].expired = FALSE]

\* Faulty variant: expired leases are not recovered.
RecoveredNever(r) == run[r].status

(* ClaimNextRun: runs with an expired lease are queued again, and the oldest *)
(* of those queued is taken.                                                 *)
Recovered(r) == IF run[r].status = "RUNNING" /\ run[r].expired THEN "QUEUED" ELSE run[r].status
ClaimNextRun(r) ==
  /\ GoesFrom("idle", "begin")
  /\ Recovered(r) = "QUEUED"
  /\ \A q \in Run : q < r => Recovered(q) # "QUEUED"
  /\ run' = [q \in Run |-> [run[q] EXCEPT !.status = IF q = r THEN "RUNNING" ELSE Recovered(q),
                                         !.expired = @ /\ Recovered(q) = "RUNNING"]]
  /\ mine' = r
  /\ UNCHANGED <<galleries, retried, listed, unsynced, current, verdict, fresh, runHistory,
                 accidents>>

(* ProcessClaimedRunBatch looks at its run. *)
BeginBatch ==
  /\ turn = "begin" /\ ~run[mine].cancelling
  /\ turn' = IF run[mine].discovered THEN "list" ELSE "discover"
  /\ UNCHANGED <<galleries, run, retried, runHistory, accidents>> /\ KeepsBatch

(* The cancellation is seen at the start of a batch or before a gallery. *)
CompleteCancelled ==
  /\ turn \in {"begin", "next"} /\ run[mine].cancelling
  /\ turn = "next" => listed # {}
  /\ Leaves("CANCELLED")
  /\ turn' = "idle" /\ Rests
  /\ UNCHANGED <<galleries, retried, runHistory, accidents>>

(* The discovery makes drafts of galleries that are new; its end is saved on *)
(* its own.                                                                  *)
Newer(g) == \A h \in GalleryId : stateOf[h] # "none" => h < g
Discover(new) ==
  /\ turn = "discover"
  /\ \A g \in new : LibraryOf[g] = run[mine].library /\ Newer(g)
  /\ stateOf' = [g \in GalleryId |-> IF g \in new THEN "DRAFT" ELSE stateOf[g]]
  /\ undecided' = [undecided EXCEPT ![mine] = @ \cup new]
  /\ turn' = "discovered"
  /\ UNCHANGED <<synced, preparing, blocked, run, retried, asked, made, late, broken,
                 accidents>>
  /\ KeepsBatch

(* The targets of the batch, with whether they were in sync. *)
ListTargets ==
  /\ GoesFrom("list", "next")
  /\ listed' = FirstOf(Remaining(mine), BatchSize)
  /\ unsynced' = listed' \ synced
  /\ UNCHANGED <<galleries, run, retried, mine, current, verdict, fresh, runHistory, accidents>>

(* The decision about a gallery; a retry run records it with its targets.    *)
Decide(v) ==
  /\ verdict' = v
  /\ turn' = IF run[mine].retry THEN "outcome" ELSE "save"

NextTarget ==
  /\ turn = "next" /\ ~run[mine].cancelling
  /\ \E g \in FirstOf(listed, 1) :
       /\ current' = g /\ listed' = listed \ {g}
       /\ IF g \in unsynced /\ run[mine].retry THEN Decide("review")
          ELSE turn' = (IF g \in unsynced THEN "scan" ELSE "policy") /\ UNCHANGED verdict
  /\ UNCHANGED <<galleries, run, retried, mine, unsynced, fresh, runHistory, accidents>>

(* RunWithOptions of the source; a scan may leave jobs to be done, or fail. *)
Scan ==
  /\ turn = "scan"
  /\ \/ /\ synced' = synced \cup {current}
        /\ preparing' \in {preparing, preparing \cup {current}}
        /\ turn' = "policy" /\ UNCHANGED verdict
     \/ Decide("review") /\ UNCHANGED <<synced, preparing>>
  /\ UNCHANGED <<stateOf, blocked, run, retried, mine, listed, unsynced, current, fresh, runHistory,
                 accidents>>

(* applyAutomationPolicy fills in a draft and may fail; then, or if the      *)
(* policy leaves the activation to the owner, the gallery is to be reviewed. *)
ApplyPolicy ==
  /\ turn = "policy"
  /\ blocked' \in IF stateOf[current] = "DRAFT" THEN {blocked, blocked \ {current}} ELSE {blocked}
  /\ \/ turn' = "media" /\ UNCHANGED verdict
     \/ Decide("review")
  /\ UNCHANGED <<stateOf, synced, preparing, run, retried, mine, listed, unsynced, current, fresh,
                 runHistory, accidents>>

\* Faulty variant: the cursor passes the gallery that is waited for.
AwaitMediaBehind ==
  /\ turn = "media" /\ current \in preparing /\ ~run[mine].retry
  /\ run' = [run EXCEPT ![mine].status = "QUEUED", ![mine].cursor = current]
  /\ turn' = "idle" /\ Rests
  /\ UNCHANGED <<galleries, retried, runHistory, accidents>>

(* A gallery whose media are being prepared remains the current target of a  *)
(* full run, which is queued again; a retry run leaves it to the owner.      *)
AwaitMedia ==
  /\ turn = "media" /\ current \in preparing /\ ~run[mine].retry
  /\ Leaves("QUEUED")
  /\ turn' = "idle" /\ Rests
  /\ UNCHANGED <<galleries, retried, runHistory, accidents>>
CheckMedia ==
  /\ turn = "media" /\ (current \in preparing => run[mine].retry)
  /\ IF current \in preparing THEN Decide("review") ELSE turn' = "find" /\ UNCHANGED verdict
  /\ UNCHANGED <<galleries, run, retried, mine, listed, unsynced, current, fresh, runHistory,
                 accidents>>

\* Faulty variant: the state of the gallery is not looked at.
FindAnyGallery ==
  /\ GoesFrom("find", "activate") /\ fresh' = TRUE
  /\ UNCHANGED <<galleries, run, retried, mine, listed, unsynced, current, verdict, runHistory,
                 accidents>>

(* The gallery is read for its revision; a retry run wants a draft. *)
FindGallery ==
  /\ turn = "find"
  /\ IF run[mine].retry /\ stateOf[current] # "DRAFT" THEN Decide("review")
     ELSE turn' = "activate" /\ UNCHANGED verdict
  /\ fresh' = TRUE
  /\ UNCHANGED <<galleries, run, retried, mine, listed, unsynced, current, runHistory, accidents>>

(* SetState: refused if the gallery has changed since, or if it is blocked. *)
Activate ==
  /\ turn = "activate" /\ fresh /\ current \notin blocked
  /\ stateOf' = [stateOf EXCEPT ![current] = "ACTIVE"]
  /\ Decide("activated")
  /\ made' = [made EXCEPT ![mine] = @ + 1]
  /\ late' = [late EXCEPT ![mine] = IF mine \in asked THEN @ + 1 ELSE @]
  /\ LeavesDrafts(current)
  /\ UNCHANGED <<synced, preparing, blocked, run, retried, mine, listed, unsynced, current,
                 fresh, asked, broken, accidents>>
ActivationRefused ==
  /\ turn = "activate" /\ (~fresh \/ current \in blocked)
  /\ stateOf' = [stateOf EXCEPT ![current] = IF fresh THEN StateAfter(current, "ACTIVE") ELSE @]
  /\ Decide("review")
  /\ UNCHANGED <<synced, preparing, blocked, run, retried, mine, listed, unsynced, current,
                 fresh, runHistory, accidents>>

RecordOutcome ==
  /\ GoesFrom("outcome", "save")
  /\ retried' = [retried EXCEPT ![mine][current] =
       IF verdict = "activated" THEN "ACTIVATED" ELSE "NEEDS_REVIEW"]
  /\ UNCHANGED <<galleries, run, runHistory, accidents>> /\ KeepsBatch

\* Faulty variant: the gallery is counted after its progress is saved.
CountedLate(row) == row

(* The counts of a run with the verdict that is not saved yet. *)
Counted(row) == [row EXCEPT !.activated = IF verdict = "activated" THEN @ + 1 ELSE @]

(* SaveRunProgress after a gallery, and after the discovery. *)
SaveProgress ==
  /\ GoesFrom("save", "next")
  /\ run' = [run EXCEPT ![mine] = [Counted(@) EXCEPT !.cursor = current]]
  /\ undecided' = [undecided EXCEPT ![mine] = @ \ {current}]
  /\ current' = NoGallery /\ verdict' = "open" /\ fresh' = TRUE
  /\ UNCHANGED <<galleries, retried, mine, listed, unsynced, asked, made, late, broken,
                 accidents>>
SaveDiscovery ==
  /\ GoesFrom("discovered", "list")
  /\ run' = [run EXCEPT ![mine].discovered = TRUE]
  /\ UNCHANGED <<galleries, retried, runHistory, accidents>> /\ KeepsBatch

(* The batch is done: the run is queued again for what remains, or ends. *)
RequeueRun ==
  /\ turn = "next" /\ listed = {} /\ Remaining(mine) # {}
  /\ Leaves("QUEUED")
  /\ turn' = "idle" /\ Rests
  /\ UNCHANGED <<galleries, retried, runHistory, accidents>>
CompleteRun ==
  /\ turn = "next" /\ listed = {} /\ Remaining(mine) = {}
  /\ Leaves("COMPLETED")
  /\ IF run[mine].retry THEN turn' = "skip" /\ KeepsBatch ELSE turn' = "idle" /\ Rests
  /\ UNCHANGED <<galleries, retried, runHistory, accidents>>
(* The targets of a retry run that were no drafts when it came to them. *)
SkipTargets ==
  /\ GoesFrom("skip", "idle") /\ Rests
  /\ retried' = [retried EXCEPT ![mine] = [g \in GalleryId |->
       IF @[g] = "PENDING" /\ stateOf[g] # "DRAFT" THEN "SKIPPED" ELSE @[g]]]
  /\ UNCHANGED <<galleries, run, runHistory, accidents>>

-----------------------------------------------------------------------------
(* What goes wrong. *)

(* An error of the database or of the discovery, where it fails the run. *)
FailRun ==
  /\ \/ turn \in {"discover", "list", "media", "outcome"}
     \/ turn = "next" /\ listed = {}
  /\ Accident("error")
  /\ run' = [run EXCEPT ![mine] = [Counted(@) EXCEPT !.status = "FAILED", !.expired = FALSE]]
  /\ turn' = "idle" /\ Rests
  /\ UNCHANGED <<galleries, retried, runHistory>>

(* One that breaks the batch off, or the end of the server: RunAutomation-   *)
(* BatchOnce releases the run.                                               *)
ReleaseRun ==
  /\ turn \in {"begin", "next"} /\ Accident("release")
  /\ Leaves("QUEUED")
  /\ turn' = "idle" /\ Rests
  /\ UNCHANGED <<galleries, retried, runHistory>>

(* One while the progress is saved, which leaves nothing to release, or a    *)
(* crash and a new start: the run stays RUNNING until its lease expires.     *)
BatchBroken ==
  /\ mine' = NoRun /\ turn' = "idle" /\ Rests
  /\ broken' = [r \in Run |-> IF r = mine THEN broken[r] + 1 ELSE broken[r]]
  /\ UNCHANGED <<galleries, run, retried, undecided, asked, made, late>>
SaveFails == turn \in {"discovered", "save", "next"} /\ Accident("error") /\ BatchBroken
WorkerDies == turn # "idle" /\ Accident("crash") /\ BatchBroken

LeaseExpires(r) ==
  /\ run[r].status = "RUNNING" /\ ~run[r].expired /\ mine # r
  /\ run' = [run EXCEPT ![r].expired = TRUE]
  /\ UNCHANGED <<galleries, retried, worker, runHistory, accidents>>

-----------------------------------------------------------------------------
ProcessBatch ==
  \/ BeginBatch \/ CompleteCancelled \/ SaveDiscovery \/ ListTargets \/ NextTarget \/ Scan
  \/ ApplyPolicy \/ AwaitMedia \/ CheckMedia \/ FindGallery \/ Activate \/ ActivationRefused
  \/ RecordOutcome \/ SaveProgress \/ RequeueRun \/ CompleteRun \/ SkipTargets
  \/ \E new \in SUBSET GalleryId : Discover(new)
  \/ \E r \in Run : ClaimNextRun(r)

AutomationNext ==
  \/ ProcessBatch \/ FailRun \/ ReleaseRun \/ SaveFails \/ WorkerDies
  \/ \E r \in Run : RequestCancel(r) \/ LeaseExpires(r)
  \/ \E r \in Run, l \in Library :
       \/ EnqueueRun(r, l)
       \/ \E drafts \in SUBSET GalleryId : EnqueueDraftRetry(r, l, drafts)
  \/ \E g \in GalleryId : \/ OwnerEdits(g) \/ MediaQueued(g) \/ MediaPrepared(g)
                        \/ \E target \in GalleryStates \ {"none"} : OwnerSetsState(g, target)

AutomationSpec == AutomationInit /\ [][AutomationNext]_autoVars

(* The loop goes on, a lease that nobody renews expires, jobs are settled. *)
AutomationFairness ==
  /\ WF_autoVars(ProcessBatch)
  /\ \A r \in Run : WF_autoVars(LeaseExpires(r))
  /\ \A g \in GalleryId : WF_autoVars(MediaPrepared(g))
AutomationFairSpec == AutomationSpec /\ AutomationFairness

-----------------------------------------------------------------------------
(* Properties. *)

\* A run that is completed has dealt with every draft it was queued for or
\* has discovered and that has been a draft ever since, however often it was
\* requeued, interrupted and taken up again (cursor_gallery_id,
\* automationDraftTargets).
NoDraftPassedOver ==
  \A r \in Run : run[r].status = "COMPLETED" => undecided[r] = {}

\* A retry run changes drafts it was queued with, and nothing the owner has
\* archived or activated meanwhile, even between its look at a gallery and
\* the activation (GALLERY_STATE_CHANGED, the revision of SetState).
RetryOpensItsDrafts ==
  [][turn = "activate" /\ turn' # turn /\ run[mine].retry =>
       \A g \in GalleryId : stateOf'[g] # stateOf[g] =>
         stateOf[g] = "DRAFT" /\ retried[mine][g] # "none"]_autoVars

\* "Progress is committed after every Gallery, so a process restart repeats
\* at most one idempotent target": a run never counts an activation that it
\* has not made, and misses at most one for each time it was broken off.
ProgressIsExact ==
  \A r \in Run : /\ run[r].activated <= made[r]
                 /\ made[r] <= run[r].activated + broken[r]
                             + (IF mine = r /\ verdict = "activated" THEN 1 ELSE 0)

\* Once its cancellation is asked for a run activates at most the gallery it
\* is at, also across requeueing, release and recovery.
CancelStopsActivation == \A r \in Run : late[r] <= 1

\* Every run ends, though it waits for media, behind other runs, and for the
\* lease of a worker that is gone.
EveryRunEnds ==
  \A r \in Run : run[r].status \in Underway ~> run[r].status \in Ended
=============================================================================

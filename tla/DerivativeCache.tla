--------------------------- MODULE DerivativeCache ---------------------------
(***************************************************************************)
(* The generated files of one media item and the records that serve them:  *)
(* the worker that generates and publishes a derivative, the outbox of     *)
(* files to delete, and the cleaners (the cache loop, the owner's reviewed *)
(* cleanup) that retire records and unlink files.                          *)
(*                                                                         *)
(* Two media that fail apart are related here.  A database transaction is  *)
(* one action; a cleaner's second transaction stays open while it unlinks, *)
(* so while it does no other transaction runs.  File operations are        *)
(* actions of their own, and they need no transaction.                     *)
(*                                                                         *)
(* A path stands for (variant, content revision, processing profile): the  *)
(* cache path, the key of a record and the key of a job are functions of   *)
(* the three.  Times are abstract: a lease may run out, a file may turn a  *)
(* day old, a delayed retry may be due.                                    *)
(***************************************************************************)
EXTENDS Integers, FiniteSets

CONSTANTS
  Path,         \* cache_relative_path of the item's derivatives
  VariantOf,    \* the variant of a path
  RevisionOf,   \* the content revision of a path
  Base,         \* paths of the BASE tier; the others are ENHANCED
  Fenced,       \* paths whose Publish checks the lease (CARD_DISPLAY_*)
  Recognised,   \* paths of ParseGeneratedCachePath's pattern (not CARD_DISPLAY_*)
  Worker,       \* lease owners
  Cleaner,      \* the cache loop and the owner's cleanup
  Nobody,       \* NULL in lease_owner; no path
  FileId,       \* identities of files (device, inode, size, time)
  MaxRevision,  \* bound: content revisions of the item
  Events,       \* the kinds of disturbance that happen
  MaxEvents     \* bound: disturbances in a behaviour

Kinds == {"retry", "withdraw", "stall", "refuse", "ioerror", "crash"}

ASSUME CacheAssumption ==
  /\ RevisionOf \in [Path -> 1..MaxRevision] /\ MaxRevision \in Nat \ {0}
  /\ Base \subseteq Path /\ Fenced \subseteq Path /\ Recognised \subseteq Path
  /\ Nobody \notin Worker /\ Nobody \notin Path
  /\ FileId \subseteq Nat \ {0}
  /\ Events \subseteq Kinds /\ MaxEvents \in Nat

VARIABLES
  item,      \* "included", "excluded" or "forgotten"
  revision,  \* content_revision of the item
  row,       \* state of the media_derivatives record of a path, or "none"
  current,   \* paths whose record has is_current = 1
  outbox,    \* paths in cache_cleanup_outbox
  job,       \* status of the job of a path
  owner,     \* its lease_owner
  expired,   \* paths whose running job has outlived its lease
  file,      \* the file at a path, or 0
  aside,     \* the file the cleaner has set aside as .gc-<name>, or 0
  old,       \* files older than CacheOrphanGrace
  phase, target,      \* where a worker is, and the path it works on
  step, entry, reason, \* where a cleaner is, the path and the reason of its entry
  seen,      \* the file the cleaner has inspected
  used       \* disturbances so far

records == <<item, revision, row, current, outbox, job, owner, expired>>
files == <<file, aside, old>>
workers == <<phase, target>>
cleaners == <<step, entry, reason, seen>>
vars == <<records, files, workers, cleaners, used>>

Waiting == {"PENDING"}                      \* PENDING, RETRY_WAIT and PAUSED
Running == {"RUNNING"}
Closed == {"COMPLETED", "FAILED", "CANCELLED", "SUSPENDED"} \* SUSPENDED: ITEM_EXCLUDED
RowState == {"none", "READY", "STALE", "HARD_INVALID"}
InTransaction == {"locked", "opened", "moved", "unlinked", "failed"}
StepName == {"idle", "selected", "inspected"} \cup InTransaction
PhaseName == {"idle", "claimed", "working", "written", "unpublished", "failing", "rejected", "published"}
Reason == {"OBSOLETE", "LRU", "PENDING_DELETE", "ORPHAN", "LEFTOVER"}

TypeOK ==
  /\ item \in {"included", "excluded", "forgotten"} /\ revision \in 1..MaxRevision
  /\ row \in [Path -> RowState] /\ current \subseteq Path /\ outbox \subseteq Path
  /\ job \in [Path -> Waiting \cup Running \cup Closed \cup {"none"}]
  /\ owner \in [Path -> Worker \cup {Nobody}] /\ expired \subseteq Path
  /\ file \in [Path -> FileId \cup {0}] /\ aside \in [Path -> FileId \cup {0}]
  /\ old \subseteq FileId
  /\ phase \in [Worker -> PhaseName] /\ target \in [Worker -> Path \cup {Nobody}]
  /\ step \in [Cleaner -> StepName] /\ entry \in [Cleaner -> Path \cup {Nobody}]
  /\ reason \in [Cleaner -> Reason] /\ seen \in [Cleaner -> FileId \cup {0}]
  /\ used \in 0..MaxEvents
  \* whoever is at work has something to work on
  /\ \A w \in Worker : phase[w] # "idle" => target[w] \in Path
  /\ \A c \in Cleaner : step[c] # "idle" => entry[c] \in Path
  \* the CHECK of processing_jobs: a lease exactly while RUNNING
  /\ \A p \in Path : owner[p] # Nobody <=> job[p] = "RUNNING"
  /\ \A p \in expired : job[p] = "RUNNING"

Init ==
  /\ item = "included" /\ revision = 1
  /\ row = [p \in Path |-> "none"] /\ current = {} /\ outbox = {}
  /\ job = [p \in Path |-> IF p \in Base /\ RevisionOf[p] = 1 THEN "PENDING" ELSE "none"]
  /\ owner = [p \in Path |-> Nobody] /\ expired = {}
  /\ file = [p \in Path |-> 0] /\ aside = [p \in Path |-> 0] /\ old = {}
  /\ phase = [w \in Worker |-> "idle"] /\ target = [w \in Worker |-> Nobody]
  /\ step = [c \in Cleaner |-> "idle"] /\ entry = [c \in Cleaner |-> Nobody]
  /\ reason = [c \in Cleaner |-> "ORPHAN"] /\ seen = [c \in Cleaner |-> 0]
  /\ used = 0

Spend(k) == k \in Events /\ used < MaxEvents /\ used' = used + 1

\* The one connection is free: no cleaner holds its second transaction open.
DbFree == \A c \in Cleaner : step[c] \notin InTransaction

------------------------------------------------------------------------------
\* The owner, the scans and the resource endpoints.

\* A request or a backfill for what the item is now and does not serve enqueues the
\* job or reopens a finished one; a retry by the owner, or a request that read the
\* item before it changed, reopens a finished one whatever the item is by then.
Request(p) ==
  /\ DbFree
  /\ \/ /\ RevisionOf[p] = revision /\ item = "included" /\ p \notin current
        /\ job[p] \in Closed \cup {"none"} /\ UNCHANGED used
     \/ job[p] \in Closed /\ Spend("retry")
  /\ job' = [job EXCEPT ![p] = "PENDING"]
  /\ UNCHANGED <<item, revision, row, current, outbox, owner, expired, files, workers, cleaners>>

\* Faulty variant: the lease columns are left behind.
EndJobsKeepingLease(S, status) ==
  /\ job' = [p \in Path |-> IF p \in S THEN status ELSE job[p]]
  /\ UNCHANGED <<owner, expired>>
\* Jobs leave the active statuses, and their leases go with them.
EndJobs(S, status) ==
  /\ job' = [p \in Path |-> IF p \in S THEN status ELSE job[p]]
  /\ owner' = [p \in Path |-> IF p \in S THEN Nobody ELSE owner[p]]
  /\ expired' = expired \ S
ActiveJobs == {p \in Path : job[p] \in Waiting \cup Running}

Cancel(p) ==
  /\ DbFree /\ Spend("withdraw")
  /\ p \in ActiveJobs
  /\ EndJobs({p}, "CANCELLED")
  /\ UNCHANGED <<item, revision, row, current, outbox, files, workers, cleaners>>

Exclude ==
  /\ DbFree /\ Spend("withdraw")
  /\ item = "included" /\ item' = "excluded"
  /\ EndJobs(ActiveJobs, "SUSPENDED")
  /\ UNCHANGED <<revision, row, current, outbox, files, workers, cleaners>>

\* The jobs the exclusion cancelled come back; the base job is planned if missing
\* and not yet READY (a READY item is not PENDING in processing_state).
Restore ==
  /\ DbFree
  /\ item = "excluded" /\ item' = "included"
  /\ job' = [p \in Path |->
       IF RevisionOf[p] = revision /\ (job[p] = "SUSPENDED" \/ (job[p] = "none" /\ p \in Base))
         THEN "PENDING" ELSE job[p]]
  /\ UNCHANGED <<revision, row, current, outbox, owner, expired, files, workers, cleaners, used>>

\* A scan finds new bytes: nothing of the old revision is served any more, its
\* jobs are cancelled and the base job of the new revision is planned.
NewContent ==
  /\ DbFree
  /\ item # "forgotten" /\ revision < MaxRevision /\ revision' = revision + 1
  /\ row' = [p \in Path |-> IF row[p] # "none" THEN "HARD_INVALID" ELSE "none"]
  /\ current' = {}
  /\ job' = [p \in Path |->
       IF p \in ActiveJobs THEN "CANCELLED"
       ELSE IF job[p] = "none" /\ p \in Base /\ RevisionOf[p] = revision + 1 /\ item = "included"
         THEN "PENDING" ELSE job[p]]
  /\ owner' = [p \in Path |-> Nobody] /\ expired' = {}
  /\ UNCHANGED <<item, outbox, files, workers, cleaners, used>>

\* ForgetItem, only for an excluded item: its records and jobs are deleted with
\* it, and the trigger on the records puts their files into the outbox.
Forget ==
  /\ DbFree
  /\ item = "excluded" /\ item' = "forgotten"
  /\ outbox' = outbox \cup {p \in Path : row[p] # "none"}
  /\ row' = [p \in Path |-> "none"] /\ current' = {}
  /\ EndJobs(Path, "none")
  /\ UNCHANGED <<revision, files, workers, cleaners, used>>

------------------------------------------------------------------------------
\* The worker.

GoesTo(w, name) == phase' = [phase EXCEPT ![w] = name] /\ UNCHANGED target

\* ClaimNext, whose order does not matter here: expired leases are recovered.
Claim(w, p) ==
  /\ DbFree /\ phase[w] = "idle"
  /\ job[p] = "PENDING" \/ p \in expired
  /\ job' = [q \in Path |-> IF q = p THEN "RUNNING"
                            ELSE IF q \in expired THEN "PENDING" ELSE job[q]]
  /\ owner' = [q \in Path |-> IF q = p THEN w ELSE IF q \in expired THEN Nobody ELSE owner[q]]
  /\ expired' = {}
  /\ phase' = [phase EXCEPT ![w] = "claimed"] /\ target' = [target EXCEPT ![w] = p]
  /\ UNCHANGED <<item, revision, row, current, outbox, files, cleaners, used>>

\* FindProcessingItem: a stale revision or an excluded item is a structural failure.
ReadItem(w) ==
  /\ DbFree /\ phase[w] = "claimed"
  /\ IF RevisionOf[target[w]] = revision /\ item = "included"
       THEN GoesTo(w, "working") ELSE GoesTo(w, "rejected")
  /\ UNCHANGED <<records, files, cleaners, used>>

\* The worker's claim still stands; once it is lost, the heartbeat cancels the work.
Holds(w) == job[target[w]] = "RUNNING" /\ owner[target[w]] = w

GenerateFails(w) ==
  /\ phase[w] = "working"
  /\ (DbFree /\ ~Holds(w) /\ UNCHANGED used) \/ Spend("ioerror")
  /\ GoesTo(w, "failing")
  /\ UNCHANGED <<records, files, cleaners>>

InUse == {file[p] : p \in Path} \cup {aside[p] : p \in Path} \cup {seen[c] : c \in Cleaner}
Unused(id) == id \in FileId \ InUse /\ \A i \in FileId \ InUse : id <= i

\* writeAtomic: a finished temporary file is renamed onto the path.
WriteAtomic(w) ==
  /\ phase[w] = "working"
  /\ \E id \in FileId : Unused(id) /\ file' = [file EXCEPT ![target[w]] = id]
  /\ old' = old \ {file[target[w]]}
  /\ GoesTo(w, "written")
  /\ UNCHANGED <<records, aside, cleaners, used>>

\* Faulty variant: Publish relies on what the worker read when it began.
PublishableAlways(w) == item # "forgotten"
\* Faulty variant: the records that are replaced stay current.
NoSiblings(p) == {}

\* Publish: the revision still stands, and a fenced variant also asks that the
\* item is included and that the worker's own lease is unexpired.
Publishable(w) ==
  LET p == target[w] IN
  /\ item # "forgotten" /\ RevisionOf[p] = revision
  /\ p \in Fenced => /\ item = "included"
                     /\ Holds(w) /\ p \notin expired
Siblings(p) == {q \in current : VariantOf[q] = VariantOf[p] /\ q # p}
\* Faulty variant: the pending deletion is not cancelled.
PublishKeepingOutbox(w) ==
  LET p == target[w] IN
  /\ DbFree /\ phase[w] = "written"
  /\ Publishable(w)
  /\ row' = [row EXCEPT ![p] = "READY"] /\ current' = (current \ Siblings(p)) \cup {p}
  /\ GoesTo(w, "published")
  /\ UNCHANGED <<item, revision, outbox, job, owner, expired, files, cleaners, used>>
Publish(w) ==
  LET p == target[w] IN
  /\ DbFree /\ phase[w] = "written"
  /\ Publishable(w)
  /\ row' = [q \in Path |-> IF q = p THEN "READY"
                            ELSE IF q \in Siblings(p) /\ row[q] # "HARD_INVALID" THEN "STALE" ELSE row[q]]
  /\ current' = (current \ Siblings(p)) \cup {p}
  /\ outbox' = outbox \ {p}
  /\ GoesTo(w, "published")
  /\ UNCHANGED <<item, revision, job, owner, expired, files, cleaners, used>>

\* Publish fails: its own checks, the context cancelled with the lost claim, or the
\* cover has changed, the 1600 switch is off, the database returns an error.
PublishFails(w) ==
  /\ phase[w] = "written"
  /\ (DbFree /\ ~(Publishable(w) /\ Holds(w)) /\ UNCHANGED used) \/ Spend("refuse")
  /\ GoesTo(w, "unpublished")
  /\ UNCHANGED <<records, files, cleaners>>

\* RemoveUnpublished removes whatever is at the path.
RemoveUnpublished(w) ==
  /\ phase[w] = "unpublished"
  /\ file' = [file EXCEPT ![target[w]] = 0]
  /\ old' = old \ {file[target[w]]}
  /\ GoesTo(w, "failing")
  /\ UNCHANGED <<records, aside, cleaners, used>>

\* Complete and Fail, guarded by status and owner; refused, they change nothing.
\* A structural failure is final, another one is retried while attempts are left.
Outcomes == [published |-> {"COMPLETED"}, rejected |-> {"FAILED"}, failing |-> {"PENDING", "FAILED"}]
Record(w) ==
  LET p == target[w] IN
  /\ DbFree /\ phase[w] \in DOMAIN Outcomes
  /\ IF Holds(w) THEN \E status \in Outcomes[phase[w]] : EndJobs({p}, status)
     ELSE UNCHANGED <<job, owner, expired>>
  /\ phase' = [phase EXCEPT ![w] = "idle"] /\ target' = [target EXCEPT ![w] = Nobody]
  /\ UNCHANGED <<item, revision, row, current, outbox, files, cleaners, used>>

\* A lease runs out: after a crash, or while its worker is stalled.
Expire(p) ==
  /\ job[p] = "RUNNING" /\ p \notin expired
  /\ expired' = expired \cup {p}
  /\ IF \E w \in Worker : target[w] = p /\ owner[p] = w THEN Spend("stall") ELSE UNCHANGED used
  /\ UNCHANGED <<item, revision, row, current, outbox, job, owner, files, workers, cleaners>>

------------------------------------------------------------------------------
\* The cleaners.

\* Jobs are matched by item, revision and variant, whatever their profile.
Busy(p) == \E q \in ActiveJobs : VariantOf[q] = VariantOf[p] /\ RevisionOf[q] = RevisionOf[p]
BaseReady == \E q \in Base \cap current : RevisionOf[q] = revision /\ row[q] = "READY"
\* Faulty variant: every retirement waits for a replacement.
ObsoleteOnceReplaced(p) ==
  row[p] # "none" /\ ~Busy(p) /\ (p \notin current \/ row[p] = "HARD_INVALID") /\ BaseReady
\* A record of bytes that are gone is retired at once, any other only when the
\* item's base derivative can stand in for it.
Obsolete(p) ==
  /\ row[p] # "none" /\ ~Busy(p)
  /\ \/ row[p] = "HARD_INVALID" /\ RevisionOf[p] # revision
     \/ (p \notin current \/ row[p] = "HARD_INVALID") /\ BaseReady
Evictable(p) == row[p] # "none" /\ p \notin Base
\* Faulty variant: a job that is about to publish is not looked at.
ProtectedByRecord(p) == row[p] # "none"
Protected(p) == row[p] # "none" \/ Busy(p)
Here(p) == IF file[p] # 0 THEN file[p] ELSE aside[p]

\* The predicates by which an entry gets onto the list of a review. A file set
\* aside by an interrupted deletion is found by its own name.
Listed(p, why) ==
  CASE why = "OBSOLETE" -> Obsolete(p)
    [] why = "LRU" -> Evictable(p)
    [] why = "PENDING_DELETE" -> p \in outbox /\ ~Protected(p)
    [] why = "ORPHAN" -> file[p] \in old /\ p \notin outbox /\ ~Protected(p)
    [] why = "LEFTOVER" -> aside[p] \in old /\ ~Busy(p)

StepsTo(c, name) == step' = [step EXCEPT ![c] = name] /\ UNCHANGED entry
GoesIdle(c) ==
  /\ step' = [step EXCEPT ![c] = "idle"] /\ entry' = [entry EXCEPT ![c] = Nobody]
  /\ reason' = [reason EXCEPT ![c] = "ORPHAN"] /\ seen' = [seen EXCEPT ![c] = 0]

\* candidate and the walk refuse a path whose name they do not recognise: its
\* record is skipped, its outbox row only marked unsafe, its file ignored.
Candidate(p) == p \in Recognised

Select(c, p, why) ==
  /\ DbFree /\ step[c] = "idle"
  /\ Listed(p, why) /\ Candidate(p)
  /\ step' = [step EXCEPT ![c] = "selected"] /\ entry' = [entry EXCEPT ![c] = p]
  /\ reason' = [reason EXCEPT ![c] = why]
  /\ UNCHANGED <<records, files, workers, seen, used>>

\* InspectForCleanup: the identity of the file, which is checked before the unlink.
Inspect(c) ==
  /\ step[c] = "selected"
  /\ seen' = [seen EXCEPT ![c] = IF reason[c] = "LEFTOVER" THEN aside[entry[c]] ELSE Here(entry[c])]
  /\ StepsTo(c, "inspected")
  /\ UNCHANGED <<records, files, workers, reason, used>>

\* retireCacheEntry: the record goes first, by a transaction of its own, if it
\* is still to go; the trigger puts the file into the outbox.
Retirable(p, why) == (IF why = "LRU" THEN Evictable(p) ELSE Obsolete(p)) /\ ~Busy(p)
Retire(c) ==
  LET p == entry[c] IN
  /\ DbFree /\ step[c] = "inspected" /\ reason[c] \in {"OBSOLETE", "LRU"}
  /\ Retirable(p, reason[c])
  /\ row' = [row EXCEPT ![p] = "none"] /\ current' = current \ {p}
  /\ outbox' = outbox \cup {p}
  /\ reason' = [reason EXCEPT ![c] = "PENDING_DELETE"]
  /\ UNCHANGED <<item, revision, job, owner, expired, files, workers, step, entry, seen, used>>

\* The second transaction opens with its rechecks.
\* Faulty variant: the recheck is left to the review.
RemovableByReview(p, why) == why = "PENDING_DELETE" => p \in outbox
Removable(p, why) ==
  CASE why = "PENDING_DELETE" -> p \in outbox /\ ~Protected(p)
    [] why = "ORPHAN" -> p \notin outbox /\ ~Protected(p)
    [] why = "LEFTOVER" -> ~Busy(p)
    [] OTHER -> FALSE
Lock(c) ==
  /\ DbFree /\ step[c] = "inspected" /\ Removable(entry[c], reason[c])
  /\ StepsTo(c, "locked")
  /\ UNCHANGED <<records, files, workers, reason, seen, used>>

\* ErrCacheReviewStale, from either transaction.
Skip(c) ==
  /\ DbFree /\ step[c] = "inspected"
  /\ ~Removable(entry[c], reason[c])
  /\ reason[c] \in {"OBSOLETE", "LRU"} => ~Retirable(entry[c], reason[c])
  /\ GoesIdle(c)
  /\ UNCHANGED <<records, files, workers, used>>

\* RemoveReviewedGenerated, inside the transaction: nothing there is a success,
\* another file than the inspected one is an error.
Open(c) ==
  LET p == entry[c]
      there == IF reason[c] = "LEFTOVER" THEN aside[p] ELSE Here(p)
  IN /\ step[c] = "locked"
     /\ StepsTo(c, IF there = 0 THEN "unlinked"
                   ELSE IF there # seen[c] THEN "failed"
                   ELSE IF there = file[p] /\ reason[c] # "LEFTOVER" THEN "opened" ELSE "moved")
     /\ UNCHANGED <<records, files, workers, reason, seen, used>>

\* The file is set aside under a name that must be free (RENAME_NOREPLACE).
SetAside(c) ==
  LET p == entry[c] IN
  /\ step[c] = "opened"
  /\ IF file[p] # 0 /\ aside[p] = 0
       THEN /\ aside' = [aside EXCEPT ![p] = file[p]] /\ file' = [file EXCEPT ![p] = 0]
            /\ StepsTo(c, "moved")
       ELSE StepsTo(c, "failed") /\ UNCHANGED <<file, aside>>
  /\ UNCHANGED <<records, old, workers, reason, seen, used>>

\* What was set aside is unlinked if it is the inspected file, or goes back if
\* the path is still free.
Unlink(c) ==
  LET p == entry[c] IN
  /\ step[c] = "moved"
  /\ IF aside[p] = seen[c]
       THEN /\ aside' = [aside EXCEPT ![p] = 0] /\ old' = old \ {aside[p]}
            /\ StepsTo(c, "unlinked") /\ UNCHANGED file
       ELSE /\ StepsTo(c, "failed") /\ UNCHANGED old
            /\ IF file[p] = 0 THEN /\ file' = [file EXCEPT ![p] = aside[p]]
                                   /\ aside' = [aside EXCEPT ![p] = 0]
               ELSE UNCHANGED <<file, aside>>
  /\ UNCHANGED <<records, workers, reason, seen, used>>

\* The end of the transaction: the outbox forgets the file, or keeps it for a
\* retry. A leftover's entry would name the file that was set aside.
Commit(c) ==
  LET p == entry[c] IN
  /\ step[c] \in {"unlinked", "failed"}
  /\ outbox' = IF reason[c] = "LEFTOVER" THEN outbox
               ELSE IF step[c] = "unlinked" THEN outbox \ {p} ELSE outbox \cup {p}
  /\ GoesIdle(c)
  /\ UNCHANGED <<item, revision, row, current, job, owner, expired, files, workers, used>>

\* An error of the unlink, or of the commit after it.
RemoveFails(c) ==
  /\ step[c] \in {"opened", "moved"} /\ Spend("ioerror")
  /\ StepsTo(c, "failed")
  /\ UNCHANGED <<records, files, workers, reason, seen>>
CommitFails(c) ==
  /\ step[c] \in {"unlinked", "failed"} /\ Spend("ioerror")
  /\ GoesIdle(c)
  /\ UNCHANGED <<records, files, workers>>

------------------------------------------------------------------------------
\* The environment.

\* A day passes. Publishing takes less than CacheOrphanGrace.
Age ==
  /\ \A w \in Worker : phase[w] # "written"
  /\ old # InUse \ {0} /\ old' = InUse \ {0}
  /\ UNCHANGED <<records, file, aside, workers, cleaners, used>>

\* The process stops and starts again; an open transaction is rolled back.
Crash ==
  /\ Spend("crash")
  /\ phase' = [w \in Worker |-> "idle"] /\ target' = [w \in Worker |-> Nobody]
  /\ step' = [c \in Cleaner |-> "idle"] /\ entry' = [c \in Cleaner |-> Nobody]
  /\ reason' = [c \in Cleaner |-> "ORPHAN"] /\ seen' = [c \in Cleaner |-> 0]
  /\ UNCHANGED <<records, files>>

------------------------------------------------------------------------------
Owner == Exclude \/ Restore \/ NewContent \/ Forget \/ \E p \in Path : Request(p) \/ Cancel(p)
Generate(w) ==
  \/ \E p \in Path : Claim(w, p)
  \/ ReadItem(w) \/ WriteAtomic(w) \/ Publish(w) \/ PublishFails(w)
  \/ RemoveUnpublished(w) \/ Record(w)
Clean(c) ==
  \/ Inspect(c) \/ Retire(c) \/ Lock(c) \/ Skip(c) \/ Open(c) \/ SetAside(c) \/ Unlink(c) \/ Commit(c)
Next ==
  \/ Owner
  \/ \E w \in Worker : Generate(w) \/ GenerateFails(w)
  \/ \E c \in Cleaner :
       \/ Clean(c) \/ RemoveFails(c) \/ CommitFails(c)
       \/ \E p \in Path, why \in Reason : Select(c, p, why)
  \/ \E p \in Path : Expire(p)
  \/ Age \/ Crash
Spec == Init /\ [][Next]_vars

\* The two passes of the cache loop: known entries, and files found on disk.
KnownPass(c) == \E p \in Path, why \in {"OBSOLETE", "PENDING_DELETE"} : Select(c, p, why)
OrphanPass(c) == \E p \in Path, why \in {"ORPHAN", "LEFTOVER"} : Select(c, p, why)

\* Workers and cleaners go on, a lapsed lease lapses, files age, and each pass comes
\* to every entry that stays on its list. A removal that fails over and over starves
\* neither the orphan pass, which has a due time of its own, nor the workers, who
\* have the database to themselves for cacheRunSpacing between two passes.
CacheFairness ==
  /\ \A w \in Worker : SF_vars(Generate(w))
  /\ \A c \in Cleaner : WF_vars(Clean(c)) /\ WF_vars(KnownPass(c)) /\ SF_vars(OrphanPass(c))
  /\ WF_vars(\E p \in Path : Expire(p))
  /\ WF_vars(Age)
FairSpec == Spec /\ CacheFairness

------------------------------------------------------------------------------
\* Properties.

\* Whatever is served under is_current was made from the bytes the item has now,
\* and a variant has one such record.
ServedIsFresh ==
  /\ item = "forgotten" => current = {}
  /\ \A p \in current : RevisionOf[p] = revision
OneCurrent ==
  \A p, q \in current : VariantOf[p] = VariantOf[q] => p = q

\* A record never names a file that is in the outbox: a publication cancels the
\* pending deletion of its file in the same transaction.
RecordsAreNotDoomed == \A p \in outbox : row[p] = "none"

\* A cleaner never takes the file from under a record: whatever was retired,
\* requeued, published again or interrupted in between, a path that has a record
\* loses its file only to a worker that removes its unpublished file.
CleanersSpareRecords ==
  [][\A p \in Path : file[p] # 0 /\ file'[p] = 0 /\ row[p] # "none"
       => \E w \in Worker : phase[w] = "unpublished" /\ target[w] = p]_vars

\* A record that is served has its file.
ServedFileExists ==
  \A p \in current : row[p] = "READY" => file[p] # 0

\* No file whose name the cleaners recognise is leaked: what was made from bytes
\* that are gone, or for an item that is gone, is deleted in the end, whatever
\* crashed or failed on the way. (The others, CARD_DISPLAY_*, are never deleted:
\* candidate and WalkCleanupShard pass them over.)
Dead(p) == item = "forgotten" \/ RevisionOf[p] < revision
DeadFilesGo ==
  \A p \in Recognised : Dead(p) ~> (file[p] = 0 /\ aside[p] = 0 /\ row[p] = "none")
==============================================================================

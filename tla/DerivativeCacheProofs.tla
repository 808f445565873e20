------------------------ MODULE DerivativeCacheProofs ------------------------
(***************************************************************************)
(* Theorems about DerivativeCache, for any paths, workers, cleaners and    *)
(* numbers of disturbances.                                                *)
(***************************************************************************)
EXTENDS DerivativeCache, TLAPS

(* Types, and the lease columns of a job.                                   *)

LEMMA TypeInit == Init => TypeOK
BY CacheAssumption DEF Init, TypeOK, Waiting, Running, Closed, RowState, StepName, InTransaction, PhaseName,
      Reason

\* The owner, scans and resource endpoints keep the types.
LEMMA TypeOwner == TypeOK /\ Owner => TypeOK'
<1> SUFFICES ASSUME TypeOK, Owner PROVE TypeOK'
  OBVIOUS
<1> USE CacheAssumption DEF TypeOK, Waiting, Running, Closed, RowState, files, workers, cleaners, Spend, EndJobs
<1>1. CASE Exclude
  BY <1>1 DEF Exclude, ActiveJobs
<1>2. CASE Restore
  BY <1>2 DEF Restore
<1>3. CASE NewContent
  BY <1>3 DEF NewContent, ActiveJobs
<1>4. CASE Forget
  BY <1>4 DEF Forget
<1>5. ASSUME NEW p \in Path, Request(p) PROVE TypeOK'
  BY <1>5 DEF Request
<1>6. ASSUME NEW p \in Path, Cancel(p) PROVE TypeOK'
  BY <1>6 DEF Cancel, ActiveJobs
<1> QED BY <1>1, <1>2, <1>3, <1>4, <1>5, <1>6 DEF Owner

\* A worker keeps the types.
LEMMA TypeWorker ==
  ASSUME TypeOK, NEW w \in Worker, Generate(w) \/ GenerateFails(w)
  PROVE  TypeOK'
<1> USE CacheAssumption DEF TypeOK, Waiting, Running, Closed, RowState, PhaseName, records, files, workers,
      cleaners,
      Spend, EndJobs, GoesTo
<1>1. ASSUME NEW p \in Path, Claim(w, p) PROVE TypeOK'
  BY <1>1 DEF Claim
<1>2. CASE ReadItem(w)
  BY <1>2 DEF ReadItem
<1>3. CASE GenerateFails(w)
  BY <1>3 DEF GenerateFails
<1>4. CASE WriteAtomic(w)
  <2>1. PICK id \in FileId : file' = [file EXCEPT ![target[w]] = id]
    BY <1>4 DEF WriteAtomic
  <2>2. file' \in [Path -> FileId \cup {0}] /\ old' \subseteq FileId
    BY <1>4, <2>1 DEF WriteAtomic
  <2> QED BY <1>4, <2>2 DEF WriteAtomic
<1>5. CASE Publish(w)
  BY <1>5 DEF Publish, Siblings
<1>6. CASE PublishFails(w)
  BY <1>6 DEF PublishFails
<1>7. CASE RemoveUnpublished(w)
  BY <1>7 DEF RemoveUnpublished
<1>8. CASE Record(w)
  BY <1>8 DEF Record, Outcomes
<1> QED BY <1>1, <1>2, <1>3, <1>4, <1>5, <1>6, <1>7, <1>8 DEF Generate

\* A cleaner keeps the types.
LEMMA TypeCleaner ==
  ASSUME TypeOK, NEW c \in Cleaner,
         Clean(c) \/ RemoveFails(c) \/ CommitFails(c) \/ \E p \in Path, why \in Reason : Select(c, p, why)
  PROVE  TypeOK'
<1> USE CacheAssumption DEF TypeOK, Reason, StepName, InTransaction, records, files, workers, cleaners,
      Spend, StepsTo, GoesIdle
<1>1. CASE Inspect(c)
  BY <1>1 DEF Inspect, Here
<1>2. CASE Retire(c)
  BY <1>2 DEF Retire, RowState
<1>3. CASE Lock(c)
  BY <1>3 DEF Lock
<1>4. CASE Skip(c)
  BY <1>4 DEF Skip
<1>5. CASE Open(c)
  BY <1>5 DEF Open
<1>6. CASE SetAside(c)
  BY <1>6 DEF SetAside
<1>7. CASE Unlink(c)
  <2>1. file' \in [Path -> FileId \cup {0}] /\ aside' \in [Path -> FileId \cup {0}] /\ old' \subseteq FileId
    <3>1. entry[c] \in Path /\ aside[entry[c]] \in FileId \cup {0}
      BY <1>7 DEF Unlink
    <3>2. file' = file \/ file' = [file EXCEPT ![entry[c]] = aside[entry[c]]]
      BY <1>7 DEF Unlink
    <3>3. aside' = aside \/ aside' = [aside EXCEPT ![entry[c]] = 0]
      BY <1>7 DEF Unlink
    <3>4. old' \subseteq old
      BY <1>7 DEF Unlink
    <3> QED BY <3>1, <3>2, <3>3, <3>4
  <2>2. StepsTo(c, "unlinked") \/ StepsTo(c, "failed")
    BY <1>7 DEF Unlink
  <2>3. step[c] # "idle" /\ UNCHANGED <<records, workers, reason, seen, used>>
    BY <1>7 DEF Unlink
  <2> QED BY <2>1, <2>2, <2>3
<1>8. CASE Commit(c)
  BY <1>8 DEF Commit
<1>9. CASE RemoveFails(c)
  BY <1>9 DEF RemoveFails
<1>10. CASE CommitFails(c)
  BY <1>10 DEF CommitFails
<1>11. ASSUME NEW p \in Path, NEW why \in Reason, Select(c, p, why) PROVE TypeOK'
  BY <1>11 DEF Select
<1> QED BY <1>1, <1>2, <1>3, <1>4, <1>5, <1>6, <1>7, <1>8, <1>9, <1>10, <1>11 DEF Clean

\* So do time and crashes.
LEMMA TypeEnvironment ==
  ASSUME TypeOK, Age \/ Crash \/ (\E p \in Path : Expire(p)) \/ UNCHANGED vars
  PROVE  TypeOK'
<1> USE CacheAssumption DEF TypeOK, records, files, workers, cleaners, Spend
<1>1. CASE Age
  BY <1>1 DEF Age, InUse
<1>2. CASE Crash
  BY <1>2 DEF Crash, PhaseName, StepName, Reason
<1>3. ASSUME NEW p \in Path, Expire(p) PROVE TypeOK'
  BY <1>3 DEF Expire
<1>4. CASE UNCHANGED vars
  BY <1>4 DEF vars
<1> QED BY <1>1, <1>2, <1>3, <1>4

LEMMA TypeStep == TypeOK /\ [Next]_vars => TypeOK'
BY TypeOwner, TypeWorker, TypeCleaner, TypeEnvironment DEF Next

\* Every variable keeps its type, and a job has a lease exactly while it runs.
THEOREM TypeCorrect == Spec => []TypeOK
<1>1. Init => TypeOK
  BY TypeInit
<1>2. TypeOK /\ [Next]_vars => TypeOK'
  BY TypeStep
<1> QED BY <1>1, <1>2, PTL DEF Spec

------------------------------------------------------------------------------
(* What is served. Only Publish adds to current.                            *)

Served == TypeOK /\ ServedIsFresh /\ OneCurrent

LEMMA ServedStep == Served /\ [Next]_vars => Served'
<1> SUFFICES ASSUME Served, [Next]_vars PROVE ServedIsFresh' /\ OneCurrent'
  BY TypeStep DEF Served
<1> USE DEF Served, ServedIsFresh, OneCurrent
<1>1. ASSUME UNCHANGED <<item, revision, current>> PROVE ServedIsFresh' /\ OneCurrent'
  BY <1>1
<1>2. ASSUME UNCHANGED revision, item' # "forgotten", item # "forgotten", UNCHANGED current
      PROVE  ServedIsFresh' /\ OneCurrent'
  BY <1>2
<1>3. ASSUME current' = {} PROVE ServedIsFresh' /\ OneCurrent'
  BY <1>3
<1>4. CASE Owner
  <2>1. CASE Exclude
    BY <2>1, <1>2 DEF Exclude
  <2>2. CASE Restore
    BY <2>2, <1>2 DEF Restore
  <2>3. CASE NewContent \/ Forget
    BY <2>3, <1>3 DEF NewContent, Forget
  <2>4. CASE \E p \in Path : Request(p) \/ Cancel(p)
    BY <2>4, <1>1 DEF Request, Cancel
  <2> QED BY <1>4, <2>1, <2>2, <2>3, <2>4 DEF Owner
<1>5. ASSUME NEW w \in Worker, Generate(w) \/ GenerateFails(w) PROVE ServedIsFresh' /\ OneCurrent'
  <2>1. CASE Publish(w)
    <3>1. /\ item # "forgotten" /\ RevisionOf[target[w]] = revision
          /\ current' = (current \ Siblings(target[w])) \cup {target[w]}
          /\ UNCHANGED <<item, revision>>
      BY <2>1 DEF Publish, Publishable
    <3>2. ServedIsFresh'
      BY <3>1
    <3>3. OneCurrent'
      BY <3>1 DEF Siblings
    <3> QED BY <3>2, <3>3
  <2>2. CASE ~Publish(w)
    <3>1. UNCHANGED <<item, revision, current>>
      BY <1>5, <2>2 DEF Generate, GenerateFails, Claim, ReadItem, WriteAtomic, PublishFails,
                        RemoveUnpublished, Record, records
    <3> QED BY <3>1, <1>1
  <2> QED BY <2>1, <2>2
<1>6. ASSUME NEW c \in Cleaner, Clean(c) \/ RemoveFails(c) \/ CommitFails(c)
                                \/ \E p \in Path, why \in Reason : Select(c, p, why)
      PROVE  ServedIsFresh' /\ OneCurrent'
  <2>1. current' \subseteq current /\ UNCHANGED <<item, revision>>
    BY <1>6 DEF Clean, Inspect, Retire, Lock, Skip, Open, SetAside, Unlink, Commit,
                RemoveFails, CommitFails, Select, records
  <2> QED BY <2>1
<1>7. CASE Age \/ Crash \/ (\E p \in Path : Expire(p)) \/ UNCHANGED vars
  BY <1>7, <1>1 DEF Age, Crash, Expire, vars, records
<1> QED BY <1>4, <1>5, <1>6, <1>7 DEF Next

\* Whatever is served was made from the bytes the item has now: a publication
\* checks the revision, and a change of the bytes withdraws all of them.
THEOREM FreshAlways == Spec => []ServedIsFresh
<1>1. Init => Served
  BY TypeInit DEF Init, Served, ServedIsFresh, OneCurrent
<1>2. Served /\ [Next]_vars => Served'
  BY ServedStep
<1>3. Served => ServedIsFresh
  BY DEF Served
<1> QED BY <1>1, <1>2, <1>3, PTL DEF Spec

\* A variant is served by one record at most, whatever profiles are published.
THEOREM OneCurrentAlways == Spec => []OneCurrent
<1>1. Init => Served
  BY TypeInit DEF Init, Served, ServedIsFresh, OneCurrent
<1>2. Served /\ [Next]_vars => Served'
  BY ServedStep
<1>3. Served => OneCurrent
  BY DEF Served
<1> QED BY <1>1, <1>2, <1>3, PTL DEF Spec

------------------------------------------------------------------------------
(* What is deleted. The second transaction of a cleaner begins with the     *)
(* recheck that the record is gone, and while it is open nobody publishes.  *)

LockedIsBare ==
  \A c \in Cleaner : step[c] \in InTransaction /\ reason[c] # "LEFTOVER" => row[entry[c]] = "none"
OpenedByName == \A c \in Cleaner : step[c] = "opened" => reason[c] # "LEFTOVER"
CurrentIsRecorded == \A p \in current : row[p] # "none"
Spared == TypeOK /\ RecordsAreNotDoomed /\ LockedIsBare /\ OpenedByName /\ CurrentIsRecorded

LEMMA SparedOwner == Spared /\ Owner => Spared'
<1> SUFFICES ASSUME Spared, Owner
      PROVE RecordsAreNotDoomed' /\ LockedIsBare' /\ OpenedByName' /\ CurrentIsRecorded'
  BY TypeOwner DEF Spared
<1> USE DEF Spared, TypeOK, RecordsAreNotDoomed, LockedIsBare, OpenedByName, CurrentIsRecorded, StepName,
      InTransaction, cleaners, workers, files
<1>1. UNCHANGED <<step, reason, entry>>
  BY DEF Owner, Exclude, Restore, NewContent, Forget, Request, Cancel
<1>2. \A p \in Path : row[p] = "none" => row'[p] = "none"
  BY DEF Owner, Exclude, Restore, NewContent, Forget, Request, Cancel
<1>3. \A p \in outbox' : row'[p] = "none"
  <2>1. CASE Forget
    BY <2>1 DEF Forget
  <2>2. CASE ~Forget
    <3>1. UNCHANGED outbox
      BY <2>2 DEF Owner, Exclude, Restore, NewContent, Request, Cancel
    <3> QED BY <3>1, <1>2
  <2> QED BY <2>1, <2>2
<1>4. LockedIsBare'
  BY <1>1, <1>2
<1>5. CurrentIsRecorded'
  <2>1. current' = {} \/ UNCHANGED <<row, current>>
    BY DEF Owner, Exclude, Restore, NewContent, Forget, Request, Cancel
  <2> QED BY <2>1
<1> QED BY <1>1, <1>3, <1>4, <1>5

LEMMA SparedWorker ==
  ASSUME Spared, NEW w \in Worker, Generate(w) \/ GenerateFails(w)
  PROVE  Spared'
<1> SUFFICES RecordsAreNotDoomed' /\ LockedIsBare' /\ OpenedByName' /\ CurrentIsRecorded'
  BY TypeWorker DEF Spared
<1> USE DEF Spared, TypeOK, RecordsAreNotDoomed, LockedIsBare, OpenedByName, CurrentIsRecorded
<1>1. UNCHANGED <<step, reason, entry>>
  BY DEF Generate, GenerateFails, Claim, ReadItem, WriteAtomic, Publish, PublishFails,
         RemoveUnpublished, Record, cleaners
<1>2. CASE Publish(w)
  <2>1. \A p \in outbox' : row'[p] = "none"
    BY <1>2 DEF Publish, Siblings
  <2>2. LockedIsBare' /\ OpenedByName'
    BY <1>1, <1>2 DEF Publish, DbFree
  <2>3. CurrentIsRecorded'
    BY <1>2 DEF Publish, Siblings
  <2> QED BY <2>1, <2>2, <2>3
<1>3. CASE ~Publish(w)
  <2>1. UNCHANGED <<row, outbox, current>>
    BY <1>3 DEF Generate, GenerateFails, Claim, ReadItem, WriteAtomic, PublishFails,
                RemoveUnpublished, Record, records
  <2> QED BY <1>1, <2>1
<1> QED BY <1>2, <1>3

LEMMA SparedCleaner ==
  ASSUME Spared, NEW c \in Cleaner,
         Clean(c) \/ RemoveFails(c) \/ CommitFails(c) \/ \E p \in Path, why \in Reason : Select(c, p, why)
  PROVE  Spared'
<1> SUFFICES RecordsAreNotDoomed' /\ LockedIsBare' /\ OpenedByName' /\ CurrentIsRecorded'
  BY TypeCleaner DEF Spared
<1> USE DEF Spared, TypeOK, RecordsAreNotDoomed, LockedIsBare, OpenedByName, CurrentIsRecorded,
      InTransaction, records, StepsTo, GoesIdle
<1>1. CASE Inspect(c)
  BY <1>1 DEF Inspect
<1>2. CASE Retire(c)
  <2>1. /\ row' = [row EXCEPT ![entry[c]] = "none"] /\ current' = current \ {entry[c]}
        /\ outbox' = outbox \cup {entry[c]}
    BY <1>2 DEF Retire
  <2>2. UNCHANGED <<step, entry>> /\ step[c] = "inspected" /\ reason' = [reason EXCEPT ![c] = "PENDING_DELETE"]
    BY <1>2 DEF Retire
  <2>3. RecordsAreNotDoomed' /\ CurrentIsRecorded'
    <3>1. row \in [Path -> RowState] /\ outbox \subseteq Path /\ current \subseteq Path
      OBVIOUS
    <3>2. entry[c] \in Path
      BY <2>2
    <3>3. \A p \in outbox' : row'[p] = "none"
      BY <2>1, <3>1, <3>2
    <3>4. \A p \in current' : row'[p] # "none"
      BY <2>1, <3>1, <3>2
    <3> QED BY <3>3, <3>4
  <2>4. LockedIsBare' /\ OpenedByName'
    BY <2>1, <2>2
  <2> QED BY <2>3, <2>4
<1>3. CASE Lock(c)
  BY <1>3 DEF Lock, Removable, Protected, Reason
<1>4. CASE Skip(c)
  BY <1>4 DEF Skip
<1>5. CASE Open(c)
  BY <1>5 DEF Open
<1>6. CASE SetAside(c)
  BY <1>6 DEF SetAside
<1>7. CASE Unlink(c)
  BY <1>7 DEF Unlink
<1>8. CASE Commit(c)
  <2>1. reason[c] # "LEFTOVER" => row[entry[c]] = "none"
    BY <1>8 DEF Commit
  <2>2. outbox' \subseteq outbox \/ (reason[c] # "LEFTOVER" /\ outbox' = outbox \cup {entry[c]})
    BY <1>8 DEF Commit
  <2>4. UNCHANGED <<row, current>>
    BY <1>8 DEF Commit
  <2>3. LockedIsBare' /\ OpenedByName'
    BY <1>8 DEF Commit
  <2> QED BY <2>1, <2>2, <2>3, <2>4
<1>9. CASE RemoveFails(c)
  BY <1>9 DEF RemoveFails
<1>10. CASE CommitFails(c)
  BY <1>10 DEF CommitFails
<1>11. ASSUME NEW p \in Path, NEW why \in Reason, Select(c, p, why)
       PROVE  RecordsAreNotDoomed' /\ LockedIsBare' /\ OpenedByName' /\ CurrentIsRecorded'
  BY <1>11 DEF Select
<1> QED BY <1>1, <1>2, <1>3, <1>4, <1>5, <1>6, <1>7, <1>8, <1>9, <1>10, <1>11 DEF Clean

LEMMA SparedStep == Spared /\ [Next]_vars => Spared'
<1> SUFFICES ASSUME Spared, [Next]_vars PROVE Spared'
  OBVIOUS
<1>1. CASE Age \/ Crash \/ (\E p \in Path : Expire(p)) \/ UNCHANGED vars
  <2>1. TypeOK'
    BY <1>1, TypeEnvironment DEF Spared
  <2>2. UNCHANGED <<row, outbox, current>>
    BY <1>1 DEF Age, Crash, Expire, vars, records
  <2>3. UNCHANGED <<step, reason, entry>> \/ step' = [c \in Cleaner |-> "idle"]
    BY <1>1 DEF Age, Crash, Expire, vars, cleaners
  <2> QED BY <2>1, <2>2, <2>3 DEF Spared, RecordsAreNotDoomed, LockedIsBare, OpenedByName, CurrentIsRecorded,
        InTransaction
<1> QED BY <1>1, SparedOwner, SparedWorker, SparedCleaner DEF Next

LEMMA SparedAlways == Spec => []Spared
<1>1. Init => Spared
  BY TypeInit DEF Init, Spared, RecordsAreNotDoomed, LockedIsBare, OpenedByName, CurrentIsRecorded,
        InTransaction
<1> QED BY <1>1, SparedStep, PTL DEF Spec

\* A record never names a file that waits in the outbox to be deleted: what a
\* cleaner puts back there after a failed unlink has had no record all along.
THEOREM NotDoomedAlways == Spec => []RecordsAreNotDoomed
<1>1. Spared => RecordsAreNotDoomed
  BY DEF Spared
<1> QED BY <1>1, SparedAlways, PTL

\* A step that empties the path of a record is a worker removing its unpublished
\* file: a cleaner sets aside only files whose record it found gone under the lock.
THEOREM CleanersSpareAlways == Spec => CleanersSpareRecords
<1> DEFINE Spare == \A p \in Path : file[p] # 0 /\ file'[p] = 0 /\ row[p] # "none"
                      => \E w \in Worker : phase[w] = "unpublished" /\ target[w] = p
<1>1. Spared /\ [Next]_vars => [Spare]_vars
  <2> SUFFICES ASSUME Spared, Next PROVE Spare
    OBVIOUS
  <2> USE DEF Spared, TypeOK
  <2>1. CASE UNCHANGED file
    BY <2>1
  <2>2. ASSUME NEW w \in Worker, WriteAtomic(w) PROVE Spare
    <3>1. PICK id \in FileId : file' = [file EXCEPT ![target[w]] = id]
      BY <2>2 DEF WriteAtomic
    <3> QED BY <3>1, CacheAssumption
  <2>3. ASSUME NEW w \in Worker, RemoveUnpublished(w) PROVE Spare
    BY <2>3 DEF RemoveUnpublished
  <2>4. ASSUME NEW c \in Cleaner, SetAside(c) PROVE Spare
    BY <2>4 DEF SetAside, LockedIsBare, OpenedByName, InTransaction
  <2>5. ASSUME NEW c \in Cleaner, Unlink(c) PROVE Spare
    <3>1. file' = file \/ (file[entry[c]] = 0 /\ file' = [file EXCEPT ![entry[c]] = aside[entry[c]]])
      BY <2>5 DEF Unlink
    <3> QED BY <3>1
  <2>6. CASE Owner \/ Age \/ Crash \/ \E p \in Path : Expire(p)
    <3>1. UNCHANGED file
      BY <2>6 DEF Owner, Exclude, Restore, NewContent, Forget, Request, Cancel, Age, Crash, Expire, files
    <3> QED BY <3>1
  <2>7. ASSUME NEW w \in Worker, Generate(w) \/ GenerateFails(w), ~WriteAtomic(w), ~RemoveUnpublished(w)
        PROVE  UNCHANGED file
    BY <2>7 DEF Generate, GenerateFails, Claim, ReadItem, Publish, PublishFails, Record, files
  <2>8. ASSUME NEW c \in Cleaner, ~SetAside(c), ~Unlink(c),
               Clean(c) \/ RemoveFails(c) \/ CommitFails(c) \/ \E p \in Path, why \in Reason : Select(c, p, why)
        PROVE  UNCHANGED file
    BY <2>8 DEF Clean, Inspect, Retire, Lock, Skip, Open, Commit, RemoveFails, CommitFails, Select, files
  <2> QED BY <2>1, <2>2, <2>3, <2>4, <2>5, <2>6, <2>7, <2>8 DEF Next
<1>2. Spec => [][Spare]_vars
  BY <1>1, SparedAlways, PTL DEF Spec
<1> QED BY <1>2 DEF CleanersSpareRecords

------------------------------------------------------------------------------
(* The file of a served record, as long as a worker keeps its claim while   *)
(* the bytes stand: no job or item is withdrawn, no worker is stalled, and  *)
(* Publish is refused only for what it checks itself.                       *)

Undisturbed == Events \cap {"withdraw", "stall", "refuse"} = {}

\* Jobs and workers know no revision that is yet to come.
NoFuture ==
  /\ item = "included"
  /\ \A p \in Path : job[p] # "none" => RevisionOf[p] <= revision
  /\ \A w \in Worker : phase[w] # "idle" => RevisionOf[target[w]] <= revision
\* A worker loses its claim only to a change of the bytes.
Stale(w) == RevisionOf[target[w]] < revision
ClaimStands ==
  /\ \A w \in Worker : phase[w] \in {"claimed", "working", "written"} => Holds(w) \/ Stale(w)
  /\ \A w \in Worker : phase[w] = "unpublished" => Stale(w)
  /\ \A w \in Worker, p \in expired : target[w] = p => owner[p] # w
\* A cleaner's second transaction has found no job for the path, and none begins meanwhile.
LockedIsUnused == \A c \in Cleaner : step[c] \in InTransaction => ~Busy(entry[c])
\* What was renamed onto the path is there until it is published, and while it is served.
WrittenExists == \A w \in Worker : phase[w] = "written" /\ ~Stale(w) => file[target[w]] # 0
CurrentExists == \A p \in current : file[p] # 0

ExistsInv ==
  /\ Served /\ Spared
  /\ NoFuture /\ ClaimStands /\ LockedIsUnused /\ WrittenExists /\ CurrentExists

\* Nothing is withdrawn: of the owner's actions only requests and new bytes are left. They wait
\* for the cleaner's transaction, and new bytes take every claim and everything served.
LEMMA ExistsOwner ==
  ASSUME ExistsInv, Undisturbed, Owner
  PROVE  NoFuture' /\ ClaimStands' /\ LockedIsUnused' /\ WrittenExists' /\ CurrentExists'
<1> USE CacheAssumption DEF ExistsInv, Spared, TypeOK, NoFuture, ClaimStands, WrittenExists, CurrentExists,
      Stale, Holds, files, workers, cleaners
<1>1. LockedIsUnused'
  <2>1. DbFree /\ UNCHANGED step
    BY DEF Owner, Exclude, Restore, NewContent, Forget, Request, Cancel
  <2> QED BY <2>1 DEF DbFree, LockedIsUnused
<1>2. CASE NewContent
  <2>1. revision' = revision + 1 /\ current' = {} /\ expired' = {} /\ UNCHANGED <<item, phase, target, file>>
    BY <1>2 DEF NewContent
  <2>2. \A w \in Worker : phase[w] # "idle" => Stale(w)'
    BY <2>1
  <2>3. \A p \in Path : job'[p] # "none" => RevisionOf[p] <= revision'
    BY <1>2, <2>1 DEF NewContent, ActiveJobs, Waiting, Running
  <2>4. NoFuture'
    BY <2>1, <2>2, <2>3
  <2>5. ClaimStands' /\ WrittenExists' /\ CurrentExists'
    BY <2>1, <2>2
  <2> QED BY <1>1, <2>4, <2>5
<1>3. ASSUME NEW p \in Path, Request(p)
      PROVE  NoFuture' /\ ClaimStands' /\ WrittenExists' /\ CurrentExists'
  <2>1. /\ job[p] # "RUNNING" /\ (job[p] # "none" \/ RevisionOf[p] = revision)
        /\ job' = [job EXCEPT ![p] = "PENDING"]
        /\ UNCHANGED <<item, revision, current, owner, expired, phase, target, file>>
    BY <1>3 DEF Request, Closed
  <2>2. \A w \in Worker : phase[w] # "idle" => (Holds(w)' <=> Holds(w))
    BY <2>1
  <2>3. NoFuture'
    BY <2>1
  <2>4. ClaimStands'
    BY <2>1, <2>2
  <2>5. WrittenExists' /\ CurrentExists'
    BY <2>1
  <2> QED BY <2>3, <2>4, <2>5
<1>4. ~Exclude /\ ~Restore /\ ~Forget /\ \A p \in Path : ~Cancel(p)
  BY DEF Exclude, Restore, Forget, Cancel, Spend, Undisturbed
<1> QED BY <1>1, <1>2, <1>3, <1>4 DEF Owner

\* A worker takes no claim that another one holds, publishes what it has renamed, and removes
\* nothing whose bytes still stand.
LEMMA ExistsWorker ==
  ASSUME ExistsInv, Undisturbed, NEW w \in Worker, Generate(w) \/ GenerateFails(w)
  PROVE  NoFuture' /\ ClaimStands' /\ LockedIsUnused' /\ WrittenExists' /\ CurrentExists'
<1> USE CacheAssumption DEF ExistsInv, Spared, TypeOK, Stale, Holds, records, files, workers, cleaners
<1>1. LockedIsUnused'
  <2>1. UNCHANGED <<step, entry>> /\ (DbFree \/ UNCHANGED job)
    BY DEF Generate, GenerateFails, Claim, ReadItem, WriteAtomic, Publish, PublishFails, RemoveUnpublished,
          Record
  <2> QED BY <2>1 DEF DbFree, LockedIsUnused, Busy, ActiveJobs
<1> DEFINE Rest == NoFuture' /\ ClaimStands' /\ WrittenExists' /\ CurrentExists'
<1>2. ASSUME NEW p \in Path, Claim(w, p) PROVE Rest
  <2>1. /\ job[p] = "PENDING" \/ p \in expired
        /\ job' = [q \in Path |-> IF q = p THEN "RUNNING" ELSE IF q \in expired THEN "PENDING" ELSE job[q]]
        /\ owner' = [q \in Path |-> IF q = p THEN w ELSE IF q \in expired THEN Nobody ELSE owner[q]]
        /\ expired' = {} /\ phase[w] = "idle"
        /\ phase' = [phase EXCEPT ![w] = "claimed"] /\ target' = [target EXCEPT ![w] = p]
        /\ UNCHANGED <<item, revision, current, file>>
    BY <1>2 DEF Claim
  <2>2. \A v \in Worker : v # w /\ phase[v] # "idle" /\ Holds(v) => Holds(v)'
    BY <2>1 DEF ClaimStands
  <2>3. Holds(w)'
    BY <2>1
  <2>4. NoFuture'
    BY <2>1 DEF NoFuture
  <2>5. ClaimStands'
    BY <2>1, <2>2, <2>3 DEF ClaimStands
  <2>6. WrittenExists' /\ CurrentExists'
    BY <2>1 DEF WrittenExists, CurrentExists
  <2> QED BY <2>4, <2>5, <2>6
<1>3. CASE ReadItem(w) \/ GenerateFails(w)
  <2>1. /\ UNCHANGED <<item, revision, current, job, owner, expired, target, file>>
        /\ \/ phase[w] = "claimed" /\ phase' = [phase EXCEPT ![w] = "working"]
           \/ phase[w] # "idle" /\ phase' = [phase EXCEPT ![w] = "rejected"]
           \/ phase[w] # "idle" /\ phase' = [phase EXCEPT ![w] = "failing"]
    BY <1>3 DEF ReadItem, GenerateFails, GoesTo
  <2>2. NoFuture'
    BY <2>1 DEF NoFuture
  <2>3. ClaimStands'
    BY <2>1 DEF ClaimStands
  <2>4. WrittenExists'
    BY <2>1 DEF WrittenExists
  <2>5. CurrentExists'
    BY <2>1 DEF CurrentExists
  <2> QED BY <1>1, <2>2, <2>3, <2>4, <2>5
<1>4. CASE WriteAtomic(w)
  <2>1. PICK id \in FileId : file' = [file EXCEPT ![target[w]] = id]
    BY <1>4 DEF WriteAtomic
  <2>2. /\ phase[w] = "working" /\ phase' = [phase EXCEPT ![w] = "written"]
        /\ UNCHANGED <<item, revision, current, job, owner, expired, target>>
    BY <1>4 DEF WriteAtomic, GoesTo
  <2>3. \A q \in Path : file[q] # 0 => file'[q] # 0
    BY <2>1
  <2>4. file'[target[w]] # 0
    BY <2>1, <2>2
  <2>5. NoFuture'
    BY <2>2, <2>3, <2>4 DEF NoFuture
  <2>6. ClaimStands'
    BY <2>2, <2>3, <2>4 DEF ClaimStands
  <2>7. WrittenExists'
    BY <2>2, <2>3, <2>4 DEF WrittenExists
  <2>8. CurrentExists'
    BY <2>2, <2>3, <2>4 DEF CurrentExists
  <2> QED BY <1>1, <2>5, <2>6, <2>7, <2>8
<1>5. CASE Publish(w)
  <2>1. /\ phase[w] = "written" /\ RevisionOf[target[w]] = revision
        /\ current' \subseteq current \cup {target[w]}
        /\ phase' = [phase EXCEPT ![w] = "published"]
        /\ UNCHANGED <<item, revision, job, owner, expired, target, file>>
    BY <1>5 DEF Publish, Publishable, GoesTo
  <2>2. file[target[w]] # 0
    BY <2>1 DEF WrittenExists
  <2>3. NoFuture'
    BY <2>1, <2>2 DEF NoFuture
  <2>4. ClaimStands'
    BY <2>1, <2>2 DEF ClaimStands
  <2>5. WrittenExists'
    BY <2>1, <2>2 DEF WrittenExists
  <2>6. CurrentExists'
    BY <2>1, <2>2 DEF CurrentExists
  <2> QED BY <1>1, <2>3, <2>4, <2>5, <2>6
<1>6. CASE PublishFails(w)
  <2>1. /\ phase[w] = "written" /\ ~(Publishable(w) /\ Holds(w))
        /\ phase' = [phase EXCEPT ![w] = "unpublished"]
        /\ UNCHANGED <<item, revision, current, job, owner, expired, target, file>>
    BY <1>6 DEF PublishFails, GoesTo, Spend, Undisturbed
  <2>2. Stale(w)
    <3>1. target[w] \in Path /\ RevisionOf[target[w]] <= revision
      BY <2>1 DEF NoFuture
    <3>2. CASE Holds(w)
      <4>1. target[w] \notin expired
        BY <3>2 DEF ClaimStands
      <4>2. RevisionOf[target[w]] # revision
        BY <2>1, <3>2, <4>1 DEF Publishable, NoFuture
      <4> QED BY <3>1, <4>2
    <3> QED BY <2>1, <3>2 DEF ClaimStands
  <2>3. NoFuture'
    BY <2>1, <2>2 DEF NoFuture
  <2>4. ClaimStands'
    BY <2>1, <2>2 DEF ClaimStands
  <2>5. WrittenExists'
    BY <2>1, <2>2 DEF WrittenExists
  <2>6. CurrentExists'
    BY <2>1, <2>2 DEF CurrentExists
  <2> QED BY <1>1, <2>3, <2>4, <2>5, <2>6
<1>7. CASE RemoveUnpublished(w)
  <2>1. /\ Stale(w) /\ phase[w] # "idle" /\ file' = [file EXCEPT ![target[w]] = 0]
        /\ phase' = [phase EXCEPT ![w] = "failing"]
        /\ UNCHANGED <<item, revision, current, job, owner, expired, target>>
    BY <1>7 DEF RemoveUnpublished, GoesTo, ClaimStands
  <2>2. target[w] \notin current
    BY <2>1 DEF Served, ServedIsFresh
  <2>3. NoFuture' /\ ClaimStands'
    BY <2>1 DEF NoFuture, ClaimStands
  <2>4. WrittenExists'
    BY <2>1 DEF WrittenExists
  <2>5. CurrentExists'
    BY <2>1, <2>2 DEF CurrentExists
  <2> QED BY <1>1, <2>3, <2>4, <2>5
<1>8. CASE Record(w)
  <2>1. /\ phase[w] # "idle" /\ phase' = [phase EXCEPT ![w] = "idle"] /\ target' = [target EXCEPT ![w] = Nobody]
        /\ UNCHANGED <<item, revision, current, file>>
    BY <1>8 DEF Record, Outcomes
  <2>2. /\ \A q \in Path : job'[q] # "none" => job[q] # "none"
        /\ \A q \in Path : (owner'[q] = owner[q] /\ job'[q] = job[q]) \/ (q = target[w] /\ Holds(w) /\ q \notin expired')
        /\ expired' \subseteq expired
    BY <1>8 DEF Record, Outcomes, EndJobs
  <2>3. \A v \in Worker : v # w /\ phase[v] # "idle" /\ Holds(v) => Holds(v)'
    BY <2>1, <2>2
  <2>4. NoFuture'
    BY <2>1, <2>2 DEF NoFuture
  <2>5. ClaimStands'
    BY <2>1, <2>2, <2>3 DEF ClaimStands
  <2>6. WrittenExists' /\ CurrentExists'
    BY <2>1 DEF WrittenExists, CurrentExists
  <2> QED BY <1>1, <2>4, <2>5, <2>6
<1> QED BY <1>1, <1>2, <1>3, <1>4, <1>5, <1>6, <1>7, <1>8 DEF Generate

\* A cleaner sets no file aside that a worker is about to publish or that is served.
LEMMA ExistsCleaner ==
  ASSUME ExistsInv, NEW c \in Cleaner,
         Clean(c) \/ RemoveFails(c) \/ CommitFails(c) \/ \E p \in Path, why \in Reason : Select(c, p, why)
  PROVE  NoFuture' /\ ClaimStands' /\ LockedIsUnused' /\ WrittenExists' /\ CurrentExists'
<1> USE DEF ExistsInv, Spared, TypeOK, records, files, workers, cleaners
<1>1. UNCHANGED <<item, revision, job, owner, expired, phase, target>> /\ current' \subseteq current
  BY DEF Clean, Inspect, Retire, Lock, Skip, Open, SetAside, Unlink, Commit, RemoveFails, CommitFails, Select
<1>2. NoFuture' /\ ClaimStands'
  BY <1>1 DEF NoFuture, ClaimStands, Holds, Stale
<1>3. LockedIsUnused'
  <2>2. CASE Lock(c)
    <3>1. ~Busy(entry[c]) /\ UNCHANGED entry /\ \A d \in Cleaner : d # c => step'[d] = step[d]
      BY <2>2 DEF Lock, StepsTo, Removable, Protected, Reason
    <3> QED BY <1>1, <3>1 DEF LockedIsUnused, Busy, ActiveJobs
  <2>3. CASE ~Lock(c)
    <3>1. \A d \in Cleaner : step'[d] \in InTransaction => step[d] \in InTransaction /\ entry'[d] = entry[d]
      BY <2>3 DEF Clean, Inspect, Retire, Skip, Open, SetAside, Unlink, Commit, RemoveFails, CommitFails,
            Select,
         StepsTo, GoesIdle, InTransaction
    <3> QED BY <1>1, <3>1 DEF LockedIsUnused, Busy, ActiveJobs
  <2> QED BY <2>2, <2>3
<1>4. CASE SetAside(c)
  <2>1. /\ step[c] = "opened" /\ entry[c] \in Path
        /\ file' = file \/ file' = [file EXCEPT ![entry[c]] = 0]
    BY <1>4 DEF SetAside
  <2>2. entry[c] \notin current
    BY <2>1 DEF LockedIsBare, OpenedByName, CurrentIsRecorded, InTransaction
  <2>3. \A w \in Worker : phase[w] = "written" /\ ~Stale(w) => target[w] # entry[c]
    BY <2>1 DEF ClaimStands, Holds, LockedIsUnused, InTransaction, Busy, ActiveJobs, Waiting, Running
  <2>4. CurrentExists'
    BY <1>1, <2>1, <2>2 DEF CurrentExists
  <2>5. WrittenExists'
    BY <1>1, <2>1, <2>3 DEF WrittenExists, Stale
  <2> QED BY <1>2, <1>3, <2>4, <2>5
<1>5. CASE ~SetAside(c)
  <2>1. \A p \in Path : file[p] # 0 => file'[p] # 0
    <3>1. CASE Unlink(c)
      BY <3>1 DEF Unlink
    <3>2. CASE ~Unlink(c)
      BY <1>5, <3>2 DEF Clean, Inspect, Retire, Lock, Skip, Open, Commit, RemoveFails, CommitFails, Select
    <3> QED BY <3>1, <3>2
  <2>2. WrittenExists' /\ CurrentExists'
    BY <1>1, <2>1 DEF WrittenExists, CurrentExists, Stale
  <2> QED BY <1>2, <1>3, <2>2
<1> QED BY <1>4, <1>5

\* Time and crashes: a lease runs out once its worker is gone.
LEMMA ExistsEnvironment ==
  ASSUME ExistsInv, Undisturbed, Age \/ Crash \/ (\E p \in Path : Expire(p)) \/ UNCHANGED vars
  PROVE  NoFuture' /\ ClaimStands' /\ LockedIsUnused' /\ WrittenExists' /\ CurrentExists'
<1> USE CacheAssumption DEF ExistsInv, Spared, TypeOK, NoFuture, ClaimStands, LockedIsUnused, WrittenExists,
      CurrentExists, Stale, Holds, Busy, ActiveJobs, records, files, workers, cleaners
<1>1. CASE Age \/ UNCHANGED vars
  BY <1>1 DEF Age, vars
<1>2. CASE Crash
  BY <1>2 DEF Crash, InTransaction
<1>3. ASSUME NEW p \in Path, Expire(p)
      PROVE  NoFuture' /\ ClaimStands' /\ LockedIsUnused' /\ WrittenExists' /\ CurrentExists'
  <2>1. ~\E w \in Worker : target[w] = p /\ owner[p] = w
    BY <1>3 DEF Expire, Spend, Undisturbed
  <2> QED BY <1>3, <2>1 DEF Expire
<1> QED BY <1>1, <1>2, <1>3

\* What is served has its file, for any number of crashes, retries and failed disk operations:
\* no cleaner takes it between the rename and the publication, and no worker whose publication
\* failed takes the file that another one has published.
THEOREM FileExistsAlways ==
  ASSUME Undisturbed
  PROVE  Spec => []ServedFileExists
<1>1. Init => ExistsInv
  <2> SUFFICES ASSUME Init PROVE ExistsInv
    OBVIOUS
  <2>1. Served /\ Spared
    BY TypeInit DEF Init, Served, ServedIsFresh, OneCurrent,
       Spared, RecordsAreNotDoomed, LockedIsBare, OpenedByName, CurrentIsRecorded, InTransaction
  <2>2. NoFuture /\ ClaimStands /\ LockedIsUnused /\ WrittenExists /\ CurrentExists
    BY CacheAssumption DEF Init, NoFuture, ClaimStands, LockedIsUnused, WrittenExists, CurrentExists,
          InTransaction
  <2> QED BY <2>1, <2>2 DEF ExistsInv
<1>2. ExistsInv /\ [Next]_vars => ExistsInv'
  BY ServedStep, SparedStep, ExistsOwner, ExistsWorker, ExistsCleaner, ExistsEnvironment DEF ExistsInv, Next
<1>3. ExistsInv => ServedFileExists
  BY DEF ExistsInv, CurrentExists, ServedFileExists
<1> QED BY <1>1, <1>2, <1>3, PTL DEF Spec
==============================================================================

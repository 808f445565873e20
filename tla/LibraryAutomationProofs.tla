------------------------ MODULE LibraryAutomationProofs ------------------------
(***************************************************************************)
(* Theorems about LibraryAutomation, for any galleries, libraries, runs    *)
(* and numbers of disturbances.                                            *)
(***************************************************************************)
EXTENDS LibraryAutomation, FiniteSetTheorems, TLAPS

(* Rows of library_automation_runs. *)

\* A row with other fields is a row.
LEMMA RowFields ==
  ASSUME NEW row \in Rows, NEW s \in Underway \cup Ended, NEW l \in Library,
         NEW b \in BOOLEAN, NEW c \in BOOLEAN, NEW n \in Nat
  PROVE  /\ [row EXCEPT !.status = s, !.expired = b] \in Rows
         /\ [row EXCEPT !.status = s] \in Rows
         /\ [row EXCEPT !.expired = b] \in Rows
         /\ [row EXCEPT !.cancelling = b] \in Rows
         /\ [row EXCEPT !.discovered = b] \in Rows
         /\ [row EXCEPT !.cursor = n] \in Rows
         /\ [row EXCEPT !.status = s, !.library = l, !.retry = b, !.discovered = c] \in Rows
         /\ Counted(row) \in Rows
<1> USE DEF Rows
<1>1. /\ [row EXCEPT !.status = s, !.expired = b] \in Rows
      /\ [row EXCEPT !.status = s] \in Rows
      /\ [row EXCEPT !.expired = b] \in Rows
  OBVIOUS
<1>2. /\ [row EXCEPT !.cancelling = b] \in Rows
      /\ [row EXCEPT !.discovered = b] \in Rows
      /\ [row EXCEPT !.cursor = n] \in Rows
  OBVIOUS
<1>3. [row EXCEPT !.status = s, !.library = l, !.retry = b, !.discovered = c] \in Rows
  OBVIOUS
<1>4. Counted(row) \in Rows
  BY DEF Counted
<1> QED BY <1>1, <1>2, <1>3, <1>4

\* Changing one row leaves a table of rows.
LEMMA RowUpdate ==
  ASSUME NEW r \in Run, NEW row \in Rows, run \in [Run -> Rows], run' = [run EXCEPT ![r] = row]
  PROVE  run' \in [Run -> Rows]
OBVIOUS

\* So does a run that leaves the worker.
LEMMA LeavesTypes ==
  ASSUME NEW s \in Underway \cup Ended, run \in [Run -> Rows], mine \in Run, Leaves(s)
  PROVE  run' \in [Run -> Rows]
<1> DEFINE row == [run[mine] EXCEPT !.status = s, !.expired = FALSE]
<1>1. row \in Rows
  BY RowFields, AutomationAssumption
<1>2. run' = [run EXCEPT ![mine] = row]
  BY DEF Leaves
<1> HIDE DEF row
<1> QED BY <1>1, <1>2, RowUpdate

\* The steps that change a run.
LEMMA RunSteps ==
  ASSUME AutomationNext
  PROVE  \/ UNCHANGED run
         \/ \E r \in Run : RequestCancel(r) \/ LeaseExpires(r) \/ ClaimNextRun(r)
         \/ \E r \in Run, l \in Library, b \in BOOLEAN, drafts \in SUBSET GalleryId :
              QueueRun(r, l, b, drafts)
         \/ SaveDiscovery \/ SaveProgress \/ FailRun
         \/ CompleteCancelled \/ AwaitMedia \/ RequeueRun \/ CompleteRun \/ ReleaseRun
BY DEF AutomationNext, ProcessBatch, EnqueueRun, EnqueueDraftRetry, OwnerSetsState, OwnerEdits,
       MediaPrepared, MediaQueued, BeginBatch, Discover, ListTargets, NextTarget, Scan,
       ApplyPolicy, CheckMedia, FindGallery, Activate, ActivationRefused, RecordOutcome,
       SkipTargets, SaveFails, WorkerDies, BatchBroken

\* Every step leaves a table of rows.
LEMMA RowsStep ==
  ASSUME AutomationTypeOK, AutomationNext
  PROVE  run' \in [Run -> Rows]
<1> USE DEF AutomationTypeOK, RunTypes, WorkerHasRun, Underway, Ended
<1>1. ASSUME NEW r \in Run, RequestCancel(r) PROVE run' \in [Run -> Rows]
  <2> DEFINE row == IF run[r].status = "QUEUED" THEN [run[r] EXCEPT !.status = "CANCELLED"]
                                               ELSE [run[r] EXCEPT !.cancelling = TRUE]
  <2>1. row \in Rows
    BY RowFields, AutomationAssumption
  <2>2. run' = [run EXCEPT ![r] = row]
    BY <1>1 DEF RequestCancel
  <2> HIDE DEF row
  <2> QED BY <2>1, <2>2, RowUpdate
<1>2. ASSUME NEW r \in Run, LeaseExpires(r) PROVE run' \in [Run -> Rows]
  <2> DEFINE row == [run[r] EXCEPT !.expired = TRUE]
  <2>1. row \in Rows
    BY RowFields, AutomationAssumption
  <2>2. run' = [run EXCEPT ![r] = row]
    BY <1>2 DEF LeaseExpires
  <2> HIDE DEF row
  <2> QED BY <2>1, <2>2, RowUpdate
<1>3. ASSUME NEW r \in Run, NEW l \in Library, NEW b \in BOOLEAN, NEW drafts,
             QueueRun(r, l, b, drafts)
      PROVE  run' \in [Run -> Rows]
  <2> DEFINE row == [run[r] EXCEPT !.status = "QUEUED", !.library = l, !.retry = b,
                                   !.discovered = b]
  <2>1. row \in Rows
    BY RowFields
  <2>2. run' = [run EXCEPT ![r] = row]
    BY <1>3 DEF QueueRun
  <2> HIDE DEF row
  <2> QED BY <2>1, <2>2, RowUpdate
<1>4. ASSUME NEW r \in Run, ClaimNextRun(r) PROVE run' \in [Run -> Rows]
  <2> DEFINE row(q) == [run[q] EXCEPT !.status = IF q = r THEN "RUNNING" ELSE Recovered(q),
                                      !.expired = @ /\ Recovered(q) = "RUNNING"]
  <2>1. ASSUME NEW q \in Run PROVE row(q) \in Rows
    BY DEF Recovered, Rows
  <2>2. run' = [q \in Run |-> row(q)]
    BY <1>4 DEF ClaimNextRun
  <2> HIDE DEF row
  <2> QED BY <2>1, <2>2
<1>5. CASE SaveDiscovery
  <2> DEFINE row == [run[mine] EXCEPT !.discovered = TRUE]
  <2>1. mine \in Run
    BY <1>5 DEF SaveDiscovery, GoesFrom
  <2>2. row \in Rows
    BY <2>1, RowFields, AutomationAssumption
  <2>3. run' = [run EXCEPT ![mine] = row]
    BY <1>5 DEF SaveDiscovery
  <2> HIDE DEF row
  <2> QED BY <2>1, <2>2, <2>3, RowUpdate
<1>6. CASE SaveProgress
  <2> DEFINE row == [Counted(run[mine]) EXCEPT !.cursor = current]
  <2>1. mine \in Run /\ current \in Nat
    BY <1>6, AutomationAssumption DEF SaveProgress, GoesFrom, AtGallery
  <2>2. row \in Rows
    BY <2>1, RowFields, AutomationAssumption
  <2>3. run' = [run EXCEPT ![mine] = row]
    BY <1>6 DEF SaveProgress
  <2> HIDE DEF row
  <2> QED BY <2>1, <2>2, <2>3, RowUpdate
<1>7. CASE FailRun
  <2> DEFINE row == [Counted(run[mine]) EXCEPT !.status = "FAILED", !.expired = FALSE]
  <2>1. mine \in Run
    BY <1>7 DEF FailRun
  <2>2. row \in Rows
    BY <2>1, RowFields, AutomationAssumption
  <2>3. run' = [run EXCEPT ![mine] = row]
    BY <1>7 DEF FailRun
  <2> HIDE DEF row
  <2> QED BY <2>1, <2>2, <2>3, RowUpdate
<1>8. CASE CompleteCancelled \/ AwaitMedia \/ RequeueRun \/ CompleteRun \/ ReleaseRun
  <2>1. mine \in Run /\ \E s \in Underway \cup Ended : Leaves(s)
    BY <1>8 DEF CompleteCancelled, AwaitMedia, RequeueRun, CompleteRun, ReleaseRun
  <2> QED BY <2>1, LeavesTypes
<1>9. CASE UNCHANGED run
  BY <1>9
<1> QED BY <1>1, <1>2, <1>3, <1>4, <1>5, <1>6, <1>7, <1>8, <1>9, RunSteps

-------------------------------------------------------------------------------
(* Types. *)

LEMMA InitTypes == ASSUME AutomationInit PROVE AutomationTypeOK
<1> USE AutomationAssumption
<1>1. NoRow \in Rows
  BY DEF NoRow, Rows, Underway, Ended
<1>2. GalleryTypes
  BY DEF AutomationInit, GalleryTypes, GalleryStates
<1>3. RunTypes
  BY <1>1 DEF AutomationInit, RunTypes, RetryOutcomes
<1>4. WorkerTypes
  BY DEF AutomationInit, WorkerTypes, Turns
<1>5. HistoryTypes
  BY DEF AutomationInit, HistoryTypes
<1>6. WorkerHasRun
  BY DEF AutomationInit, WorkerHasRun, AtGallery
<1> QED BY <1>2, <1>3, <1>4, <1>5, <1>6 DEF AutomationTypeOK

\* Every step keeps the types, and nobody takes the worker's run from it.
LEMMA TypesStep ==
  ASSUME AutomationTypeOK, AutomationNext
  PROVE  AutomationTypeOK'
<1> USE AutomationAssumption, RowsStep
    DEF AutomationTypeOK, GalleryTypes, RunTypes, WorkerTypes, HistoryTypes, WorkerHasRun,
        AtGallery, Turns, Rows, Underway, Ended, GalleryStates, RetryOutcomes,
        galleries, worker, runHistory, Accident, StateAfter, LeavesDrafts, GoesFrom, Rests,
        KeepsBatch, Leaves, Decide, BatchBroken
<1>1. ASSUME NEW g \in GalleryId, NEW target \in GalleryStates \ {"none"}, OwnerSetsState(g, target)
      PROVE  AutomationTypeOK'
  BY <1>1 DEF OwnerSetsState
<1>2. ASSUME NEW g \in GalleryId, OwnerEdits(g)
      PROVE  AutomationTypeOK'
  BY <1>2 DEF OwnerEdits
<1>3. ASSUME NEW g \in GalleryId, MediaPrepared(g)
      PROVE  AutomationTypeOK'
  BY <1>3 DEF MediaPrepared
<1>4. ASSUME NEW g \in GalleryId, MediaQueued(g)
      PROVE  AutomationTypeOK'
  BY <1>4 DEF MediaQueued
<1>5. ASSUME NEW r \in Run, NEW l \in Library, EnqueueRun(r, l)
      PROVE  AutomationTypeOK'
  BY <1>5 DEF EnqueueRun, QueueRun, DraftsOf
<1>6. ASSUME NEW r \in Run, NEW l \in Library, NEW drafts \in SUBSET GalleryId,
             EnqueueDraftRetry(r, l, drafts)
      PROVE  AutomationTypeOK'
  BY <1>6 DEF EnqueueDraftRetry, QueueRun, DraftsOf
<1>7. ASSUME NEW r \in Run, RequestCancel(r)
      PROVE  AutomationTypeOK'
  BY <1>7 DEF RequestCancel
<1>8. ASSUME NEW r \in Run, ClaimNextRun(r)
      PROVE  AutomationTypeOK'
  <2>1. run'[r] = [run[r] EXCEPT !.status = "RUNNING", !.expired = @ /\ Recovered(r) = "RUNNING"]
    BY <1>8 DEF ClaimNextRun
  <2>2. run[r] \in Rows
    OBVIOUS
  <2>3. run'[r].status = "RUNNING"
    BY <2>1, <2>2
  <2> HIDE DEF Rows
  <2>4. GalleryTypes' /\ RunTypes'
    BY <1>8 DEF ClaimNextRun
  <2>5. WorkerTypes' /\ HistoryTypes'
    BY <1>8 DEF ClaimNextRun
  <2>6. WorkerHasRun'
    BY <1>8, <2>3 DEF ClaimNextRun
  <2> QED BY <2>4, <2>5, <2>6 DEF AutomationTypeOK
<1>9. CASE BeginBatch
  BY <1>9 DEF BeginBatch
<1>10. CASE CompleteCancelled
  BY <1>10 DEF CompleteCancelled
<1>11. ASSUME NEW new \in SUBSET GalleryId, Discover(new)
      PROVE  AutomationTypeOK'
  BY <1>11 DEF Discover
<1>12. CASE SaveDiscovery
  BY <1>12 DEF SaveDiscovery
<1>13. CASE ListTargets
  BY <1>13 DEF ListTargets, FirstOf, Remaining, DraftsOf
<1>14. CASE NextTarget
  BY <1>14 DEF NextTarget, FirstOf
<1>15. CASE Scan
  BY <1>15 DEF Scan
<1>16. CASE ApplyPolicy
  BY <1>16 DEF ApplyPolicy
<1>17. CASE AwaitMedia
  BY <1>17 DEF AwaitMedia
<1>18. CASE CheckMedia
  BY <1>18 DEF CheckMedia
<1>19. CASE FindGallery
  BY <1>19 DEF FindGallery
<1>20. CASE Activate
  BY <1>20 DEF Activate
<1>21. CASE ActivationRefused
  BY <1>21 DEF ActivationRefused
<1>22. CASE RecordOutcome
  BY <1>22 DEF RecordOutcome
<1>23. CASE SaveProgress
  BY <1>23 DEF SaveProgress, Counted
<1>24. CASE RequeueRun
  BY <1>24 DEF RequeueRun
<1>25. CASE CompleteRun
  BY <1>25 DEF CompleteRun
<1>26. CASE SkipTargets
  BY <1>26 DEF SkipTargets
<1>27. CASE FailRun
  BY <1>27 DEF FailRun
<1>28. CASE ReleaseRun
  BY <1>28 DEF ReleaseRun
<1>29. CASE SaveFails
  BY <1>29 DEF SaveFails
<1>30. CASE WorkerDies
  BY <1>30 DEF WorkerDies
<1>31. ASSUME NEW r \in Run, LeaseExpires(r)
      PROVE  AutomationTypeOK'
  BY <1>31 DEF LeaseExpires
<1> QED BY <1>1, <1>2, <1>3, <1>4, <1>5, <1>6, <1>7, <1>8, <1>9, <1>10, <1>11,
       <1>12, <1>13, <1>14, <1>15, <1>16, <1>17, <1>18, <1>19, <1>20, <1>21, <1>22, <1>23,
       <1>24, <1>25, <1>26, <1>27, <1>28, <1>29, <1>30, <1>31 DEF AutomationNext, ProcessBatch

\* A stutter keeps them.
LEMMA TypesStutter == ASSUME AutomationTypeOK, UNCHANGED autoVars PROVE AutomationTypeOK'
BY DEF autoVars, galleries, worker, runHistory, AutomationTypeOK, GalleryTypes,
       RunTypes, WorkerTypes, HistoryTypes, WorkerHasRun

\* AutomationTypeOK: every variable has its type; the worker's run is RUNNING
\* until the worker itself lets it go.
THEOREM AutomationTypes == AutomationSpec => []AutomationTypeOK
<1>1. AutomationInit => AutomationTypeOK
  BY InitTypes
<1>2. AutomationTypeOK /\ [AutomationNext]_autoVars => AutomationTypeOK'
  <2> SUFFICES ASSUME AutomationTypeOK, [AutomationNext]_autoVars PROVE AutomationTypeOK'
    OBVIOUS
  <2>1. CASE AutomationNext
    BY <2>1, TypesStep
  <2>2. CASE UNCHANGED autoVars
    BY <2>2, TypesStutter
  <2> QED BY <2>1, <2>2
<1> QED BY <1>1, <1>2, PTL DEF AutomationSpec

-------------------------------------------------------------------------------
(* What a step may change of a run. *)

SameRequest(r) ==
  /\ run'[r].library = run[r].library /\ run'[r].retry = run[r].retry
  /\ run[r].discovered => run'[r].discovered
  /\ run[r].status \in Underway => run'[r].status \in Underway \cup Ended
RunKept(r) ==
  /\ run[r].status # "none" => SameRequest(r)
  /\ run[r].status \in Ended => run'[r].status = run[r].status
  /\ run[r].status = "none" => run'[r].status \in {"none", "QUEUED"}
  /\ run[r].cancelling => run'[r].cancelling

\* A run keeps its request, its discovery, and once it has ended its status;
\* a cancellation that was asked for is not forgotten.
LEMMA RunFrame ==
  ASSUME AutomationTypeOK, AutomationNext, NEW q \in Run
  PROVE  RunKept(q)
<1> USE DEF AutomationTypeOK, RunTypes, WorkerHasRun, RunKept, SameRequest, Rows, Underway, Ended
<1>1. ASSUME NEW r \in Run, RequestCancel(r) PROVE RunKept(q)
  BY <1>1 DEF RequestCancel
<1>2. ASSUME NEW r \in Run, LeaseExpires(r) PROVE RunKept(q)
  BY <1>2 DEF LeaseExpires
<1>3. ASSUME NEW r \in Run, NEW l \in Library, NEW b \in BOOLEAN, NEW drafts,
             QueueRun(r, l, b, drafts)
      PROVE  RunKept(q)
  <2> DEFINE row == [run[r] EXCEPT !.status = "QUEUED", !.library = l, !.retry = b,
                                   !.discovered = b]
  <2>1. run[r].status = "none" /\ run' = [run EXCEPT ![r] = row]
    BY <1>3, AutomationAssumption DEF QueueRun
  <2>2. row.status = "QUEUED" /\ row.cancelling = run[r].cancelling
    OBVIOUS
  <2> HIDE DEF row
  <2> QED BY <2>1, <2>2
<1>4. ASSUME NEW r \in Run, ClaimNextRun(r) PROVE RunKept(q)
  <2> DEFINE row == [run[q] EXCEPT !.status = IF q = r THEN "RUNNING" ELSE Recovered(q),
                                   !.expired = @ /\ Recovered(q) = "RUNNING"]
  <2>1. run'[q] = row
    BY <1>4 DEF ClaimNextRun
  <2>2. row.status = IF q = r THEN "RUNNING" ELSE Recovered(q)
    OBVIOUS
  <2>3. /\ row.library = run[q].library /\ row.retry = run[q].retry
        /\ row.cancelling = run[q].cancelling /\ row.discovered = run[q].discovered
    OBVIOUS
  <2>4. Recovered(r) = "QUEUED"
    BY <1>4 DEF ClaimNextRun
  <2>5. run[q].status \notin Underway => Recovered(q) = run[q].status
    BY DEF Recovered
  <2> HIDE DEF row
  <2> QED BY <2>1, <2>2, <2>3, <2>4, <2>5 DEF Recovered
<1>5. CASE SaveDiscovery
  BY <1>5 DEF SaveDiscovery, GoesFrom
<1>6. CASE SaveProgress
  BY <1>6 DEF SaveProgress, GoesFrom, Counted
<1>7. CASE FailRun
  BY <1>7 DEF FailRun, Counted
<1>8. CASE CompleteCancelled \/ AwaitMedia \/ RequeueRun \/ CompleteRun \/ ReleaseRun
  <2>1. PICK s \in Underway \cup Ended : Leaves(s)
    BY <1>8 DEF CompleteCancelled, AwaitMedia, RequeueRun, CompleteRun, ReleaseRun
  <2> DEFINE row == [run[mine] EXCEPT !.status = s, !.expired = FALSE]
  <2>2. run' = [run EXCEPT ![mine] = row]
    BY <2>1 DEF Leaves
  <2>3. run[mine].status = "RUNNING" /\ mine \in Run
    BY <1>8 DEF CompleteCancelled, AwaitMedia, RequeueRun, CompleteRun, ReleaseRun
  <2>4. row.status = s
    OBVIOUS
  <2>5. /\ row.library = run[mine].library /\ row.retry = run[mine].retry
        /\ row.cancelling = run[mine].cancelling /\ row.discovered = run[mine].discovered
    OBVIOUS
  <2> HIDE DEF row
  <2> QED BY <2>2, <2>3, <2>4, <2>5
<1>9. CASE UNCHANGED run
  BY <1>9
<1> QED BY <1>1, <1>2, <1>3, <1>4, <1>5, <1>6, <1>7, <1>8, <1>9, RunSteps

\* Only the progress and the failure of a run change its counts.
CountsKept(r) == run'[r].activated = run[r].activated /\ run'[r].cursor = run[r].cursor

LEMMA CountsFrame ==
  ASSUME AutomationTypeOK, AutomationNext, ~SaveProgress, ~FailRun, NEW q \in Run
  PROVE  CountsKept(q)
<1> USE DEF AutomationTypeOK, RunTypes, WorkerHasRun, CountsKept, Rows, Underway, Ended
<1>1. ASSUME NEW r \in Run, RequestCancel(r) PROVE CountsKept(q)
  BY <1>1 DEF RequestCancel
<1>2. ASSUME NEW r \in Run, LeaseExpires(r) PROVE CountsKept(q)
  BY <1>2 DEF LeaseExpires
<1>3. ASSUME NEW r \in Run, NEW l \in Library, NEW b \in BOOLEAN, NEW drafts,
             QueueRun(r, l, b, drafts)
      PROVE  CountsKept(q)
  <2> DEFINE row == [run[r] EXCEPT !.status = "QUEUED", !.library = l, !.retry = b,
                                   !.discovered = b]
  <2>1. run' = [run EXCEPT ![r] = row]
    BY <1>3 DEF QueueRun
  <2>2. row.activated = run[r].activated /\ row.cursor = run[r].cursor
    OBVIOUS
  <2> HIDE DEF row
  <2> QED BY <2>1, <2>2
<1>4. ASSUME NEW r \in Run, ClaimNextRun(r) PROVE CountsKept(q)
  <2> DEFINE row == [run[q] EXCEPT !.status = IF q = r THEN "RUNNING" ELSE Recovered(q),
                                   !.expired = @ /\ Recovered(q) = "RUNNING"]
  <2>1. run'[q] = row
    BY <1>4 DEF ClaimNextRun
  <2>2. row.activated = run[q].activated /\ row.cursor = run[q].cursor
    OBVIOUS
  <2> HIDE DEF row
  <2> QED BY <2>1, <2>2
<1>5. CASE SaveDiscovery
  BY <1>5 DEF SaveDiscovery, GoesFrom
<1>6. CASE CompleteCancelled \/ AwaitMedia \/ RequeueRun \/ CompleteRun \/ ReleaseRun
  <2>1. PICK s \in Underway \cup Ended : Leaves(s)
    BY <1>6 DEF CompleteCancelled, AwaitMedia, RequeueRun, CompleteRun, ReleaseRun
  <2> DEFINE row == [run[mine] EXCEPT !.status = s, !.expired = FALSE]
  <2>2. run' = [run EXCEPT ![mine] = row]
    BY <2>1 DEF Leaves
  <2>3. row.activated = run[mine].activated /\ row.cursor = run[mine].cursor
    OBVIOUS
  <2> HIDE DEF row
  <2> QED BY <2>2, <2>3
<1>7. CASE UNCHANGED run
  BY <1>7
<1> QED BY <1>1, <1>2, <1>3, <1>4, <1>5, <1>6, <1>7, RunSteps

-------------------------------------------------------------------------------
(* Cancellation. *)

\* While the worker works on a gallery that it may activate, its run has made
\* no late activation; and a run whose cancellation was asked for shows it.
BeforeActivation == {"scan", "policy", "media", "find", "activate"}
CancelSeen == \A r \in asked : run[r].cancelling \/ run[r].status \in Ended
LateIsAsked == \A r \in Run : late[r] # 0 => r \in asked
NoneLateBefore == turn \in BeforeActivation => late[mine] = 0
CancelInv == CancelSeen /\ LateIsAsked /\ NoneLateBefore /\ CancelStopsActivation

\* What was asked for stays asked for, and is shown by the run.
LEMMA CancelSeenStep ==
  ASSUME AutomationTypeOK, CancelSeen, AutomationNext
  PROVE  CancelSeen'
<1> USE DEF AutomationTypeOK, HistoryTypes, CancelSeen
<1>1. ASSUME NEW q \in asked PROVE run'[q].cancelling \/ run'[q].status \in Ended
  BY RunFrame DEF RunKept
<1>2. ASSUME NEW r \in Run, RequestCancel(r)
      PROVE  asked' = asked \cup {r} /\ (run'[r].cancelling \/ run'[r].status \in Ended)
  BY <1>2 DEF RequestCancel, RunTypes, Rows, Underway, Ended
<1>3. asked' = asked \/ \E r \in Run : RequestCancel(r)
  BY DEF AutomationNext, ProcessBatch, QueueRun, EnqueueRun, EnqueueDraftRetry, OwnerSetsState,
         OwnerEdits, MediaPrepared, MediaQueued, BeginBatch, Discover, ListTargets, NextTarget,
         Scan, ApplyPolicy, CheckMedia, FindGallery, Activate, ActivationRefused, RecordOutcome,
         SkipTargets, SaveFails, WorkerDies, BatchBroken, LeaseExpires, ClaimNextRun,
         SaveDiscovery, SaveProgress, FailRun, CompleteCancelled, AwaitMedia, RequeueRun,
         CompleteRun, ReleaseRun, runHistory, LeavesDrafts
<1> QED BY <1>1, <1>2, <1>3

\* Only an activation is counted as late, and only once.
LEMMA LateStep ==
  ASSUME AutomationTypeOK, CancelInv, AutomationNext
  PROVE  LateIsAsked' /\ NoneLateBefore' /\ CancelStopsActivation'
<1> USE DEF AutomationTypeOK, HistoryTypes, WorkerHasRun, WorkerTypes, CancelInv, LateIsAsked,
            NoneLateBefore, CancelStopsActivation, BeforeActivation, runHistory, AtGallery
<1>1. CASE Activate
  <2>1. /\ mine \in Run /\ late[mine] = 0 /\ asked' = asked /\ mine' = mine
        /\ turn' \in {"outcome", "save"}
    BY <1>1 DEF Activate, Decide
  <2>2. late' = [late EXCEPT ![mine] = IF mine \in asked THEN @ + 1 ELSE @]
    BY <1>1 DEF Activate
  <2> QED BY <2>1, <2>2
<1>2. CASE NextTarget
  <2>1. mine \in Run /\ late[mine] = 0
    BY <1>2 DEF NextTarget, CancelSeen, Underway, Ended
  <2> QED BY <1>2, <2>1 DEF NextTarget
<1>3. ASSUME late' = late, asked \subseteq asked',
             turn' \in BeforeActivation => turn \in BeforeActivation /\ mine' = mine
      PROVE  LateIsAsked' /\ NoneLateBefore' /\ CancelStopsActivation'
  BY <1>3
<1>4. \/ Activate \/ NextTarget
      \/ /\ late' = late /\ asked \subseteq asked'
         /\ turn' \in BeforeActivation => turn \in BeforeActivation /\ mine' = mine
  BY DEF AutomationNext, ProcessBatch, QueueRun, EnqueueRun, EnqueueDraftRetry, OwnerSetsState,
         OwnerEdits, MediaPrepared, MediaQueued, BeginBatch, Discover, ListTargets,
         Scan, ApplyPolicy, CheckMedia, FindGallery, ActivationRefused, RecordOutcome,
         SkipTargets, SaveFails, WorkerDies, BatchBroken, LeaseExpires, ClaimNextRun,
         SaveDiscovery, SaveProgress, FailRun, CompleteCancelled, AwaitMedia, RequeueRun,
         CompleteRun, ReleaseRun, LeavesDrafts, worker, GoesFrom, Rests, Decide, KeepsBatch,
         RequestCancel
<1> QED BY <1>1, <1>2, <1>3, <1>4

\* CancelStopsActivation: of the activations of a run at most one is made
\* after its cancellation was asked for.
THEOREM CancelIsSeen == AutomationSpec => []CancelStopsActivation
<1> DEFINE IInv == AutomationTypeOK /\ CancelInv
<1>1. AutomationInit => IInv
  <2> SUFFICES ASSUME AutomationInit PROVE IInv
    OBVIOUS
  <2>1. AutomationTypeOK
    BY InitTypes
  <2>2. CancelInv
    BY DEF AutomationInit, CancelInv, CancelSeen, LateIsAsked, NoneLateBefore, BeforeActivation,
           CancelStopsActivation
  <2> QED BY <2>1, <2>2
<1>2. IInv /\ [AutomationNext]_autoVars => IInv'
  <2> SUFFICES ASSUME IInv, [AutomationNext]_autoVars PROVE IInv'
    OBVIOUS
  <2>1. CASE AutomationNext
    BY <2>1, TypesStep, CancelSeenStep, LateStep DEF CancelInv
  <2>2. CASE UNCHANGED autoVars
    <3>1. AutomationTypeOK'
      BY <2>2, TypesStutter
    <3>2. CancelInv'
      BY <2>2 DEF autoVars, worker, runHistory, CancelInv, CancelSeen, LateIsAsked,
                  NoneLateBefore, CancelStopsActivation
    <3> QED BY <3>1, <3>2
  <2> QED BY <2>1, <2>2
<1>3. IInv => CancelStopsActivation
  BY DEF CancelInv
<1> QED BY <1>1, <1>2, <1>3, PTL DEF AutomationSpec

-------------------------------------------------------------------------------
(* Counts. *)

\* A verdict exists from the decision until the progress is saved, and what a
\* run has counted and is about to count are activations that it has made.
Unsaved(r) == IF mine = r /\ verdict = "activated" THEN 1 ELSE 0
VerdictIsNew == turn \notin {"outcome", "save"} => verdict = "open"
CountsAgree ==
  \A r \in Run : /\ run[r].activated + Unsaved(r) <= made[r]
                 /\ made[r] <= run[r].activated + broken[r] + Unsaved(r)

LEMMA VerdictStep ==
  ASSUME AutomationTypeOK, VerdictIsNew, AutomationNext
  PROVE  VerdictIsNew'
BY DEF VerdictIsNew, AutomationNext, ProcessBatch, QueueRun, EnqueueRun, EnqueueDraftRetry,
       OwnerSetsState, OwnerEdits, MediaPrepared, MediaQueued, BeginBatch, Discover, ListTargets,
       NextTarget, Scan, ApplyPolicy, CheckMedia, FindGallery, Activate, ActivationRefused,
       RecordOutcome, SkipTargets, SaveFails, WorkerDies, BatchBroken, LeaseExpires, ClaimNextRun,
       SaveDiscovery, SaveProgress, FailRun, CompleteCancelled, AwaitMedia, RequeueRun,
       CompleteRun, ReleaseRun, RequestCancel, worker, GoesFrom, Rests, Decide, KeepsBatch

\* The steps that change a count, and what all others leave alone.
CountsMoved == SaveProgress \/ FailRun \/ SaveFails \/ WorkerDies \/ Activate
CountsUntouched ==
  /\ made' = made /\ broken' = broken
  /\ (mine' = mine /\ verdict' = verdict) \/ (verdict # "activated" /\ verdict' # "activated")

LEMMA QuietStep ==
  ASSUME VerdictIsNew, AutomationNext
  PROVE  CountsMoved \/ CountsUntouched
<1> USE DEF CountsUntouched, VerdictIsNew, GoesFrom, Rests, Decide, KeepsBatch, worker, runHistory
<1>1. CASE BeginBatch \/ SaveDiscovery \/ ListTargets \/ RecordOutcome
  BY <1>1 DEF BeginBatch, SaveDiscovery, ListTargets, RecordOutcome
<1>2. CASE CompleteCancelled \/ AwaitMedia \/ RequeueRun \/ SkipTargets \/ ReleaseRun
  <2>1. CASE CompleteCancelled
    BY <2>1 DEF CompleteCancelled
  <2>2. CASE AwaitMedia
    BY <2>2 DEF AwaitMedia
  <2>3. CASE RequeueRun
    BY <2>3 DEF RequeueRun
  <2>4. CASE SkipTargets
    BY <2>4 DEF SkipTargets
  <2>5. CASE ReleaseRun
    BY <2>5 DEF ReleaseRun
  <2> QED BY <1>2, <2>1, <2>2, <2>3, <2>4, <2>5
<1>3. CASE CompleteRun
  BY <1>3 DEF CompleteRun
<1>4. CASE NextTarget \/ Scan \/ ApplyPolicy
  BY <1>4 DEF NextTarget, Scan, ApplyPolicy
<1>5. CASE CheckMedia \/ FindGallery \/ ActivationRefused
  BY <1>5 DEF CheckMedia, FindGallery, ActivationRefused
<1>6. ASSUME NEW new \in SUBSET GalleryId, Discover(new) PROVE CountsUntouched
  BY <1>6 DEF Discover
<1>7. ASSUME NEW r \in Run, ClaimNextRun(r) PROVE CountsUntouched
  BY <1>7 DEF ClaimNextRun
<1>8. ASSUME NEW r \in Run, RequestCancel(r) \/ LeaseExpires(r) PROVE CountsUntouched
  <2>1. /\ UNCHANGED worker /\ made' = made /\ broken' = broken
    BY <1>8 DEF RequestCancel, LeaseExpires
  <2> QED BY <2>1
<1>9. ASSUME AutomationNext, ~ProcessBatch, ~CountsMoved, ~ReleaseRun,
             ~\E r \in Run : RequestCancel(r) \/ LeaseExpires(r)
      PROVE  CountsUntouched
  <2>1. mine' = mine /\ verdict' = verdict /\ made' = made /\ broken' = broken
    BY <1>9 DEF AutomationNext, CountsMoved, QueueRun, EnqueueRun, EnqueueDraftRetry,
       OwnerSetsState, OwnerEdits, MediaPrepared, MediaQueued, LeavesDrafts
  <2> QED BY <2>1
<1> HIDE DEF CountsUntouched
<1>10. ASSUME ProcessBatch, ~CountsMoved PROVE CountsUntouched
  BY <1>1, <1>2, <1>3, <1>4, <1>5, <1>6, <1>7, <1>10 DEF ProcessBatch, CountsMoved
<1> QED BY <1>2, <1>8, <1>9, <1>10

LEMMA CountsStep ==
  ASSUME AutomationTypeOK, VerdictIsNew, CountsAgree, AutomationNext
  PROVE  CountsAgree'
<1> USE DEF AutomationTypeOK, RunTypes, WorkerTypes, HistoryTypes, WorkerHasRun, AtGallery, Rows
<1>1. CASE SaveProgress
  <2>1. /\ mine \in Run /\ mine' = mine /\ verdict' = "open" /\ made' = made /\ broken' = broken
    BY <1>1 DEF SaveProgress, GoesFrom
  <2>2. /\ run'[mine].activated = run[mine].activated + Unsaved(mine)
        /\ \A r \in Run \ {mine} : run'[r] = run[r]
    BY <1>1, <2>1 DEF SaveProgress, Counted, Unsaved
  <2> QED BY <2>1, <2>2 DEF CountsAgree, Unsaved
<1>2. CASE FailRun
  <2>1. /\ mine \in Run /\ mine' = NoRun /\ made' = made /\ broken' = broken
    BY <1>2 DEF FailRun, Rests, runHistory
  <2>2. /\ run'[mine].activated = run[mine].activated + Unsaved(mine)
        /\ \A r \in Run \ {mine} : run'[r] = run[r]
    BY <1>2, <2>1 DEF FailRun, Counted, Unsaved
  <2> QED BY <2>1, <2>2, AutomationAssumption DEF CountsAgree, Unsaved
<1>3. CASE SaveFails \/ WorkerDies
  <2>1. /\ mine \in Run /\ mine' = NoRun /\ made' = made /\ run' = run
        /\ broken' = [r \in Run |-> IF r = mine THEN broken[r] + 1 ELSE broken[r]]
    BY <1>3 DEF SaveFails, WorkerDies, BatchBroken
  <2> QED BY <2>1, AutomationAssumption DEF CountsAgree, Unsaved
<1>4. CASE Activate
  <2>1. /\ mine \in Run /\ mine' = mine /\ verdict = "open" /\ verdict' = "activated"
        /\ made' = [made EXCEPT ![mine] = @ + 1] /\ broken' = broken /\ run' = run
    BY <1>4 DEF Activate, VerdictIsNew, Decide
  <2> QED BY <2>1 DEF CountsAgree, Unsaved
<1>5. ASSUME ~SaveProgress, ~FailRun, made' = made, broken' = broken,
             \/ mine' = mine /\ verdict' = verdict
             \/ verdict # "activated" /\ verdict' # "activated"
      PROVE  CountsAgree'
  <2>1. \A r \in Run : CountsKept(r)
    BY <1>5, CountsFrame
  <2> QED BY <1>5, <2>1 DEF CountsAgree, CountsKept, Unsaved
<1>6. CountsMoved \/ CountsUntouched
  BY QuietStep
<1> QED BY <1>1, <1>2, <1>3, <1>4, <1>5, <1>6 DEF CountsMoved, CountsUntouched

\* ProgressIsExact: an activation is counted once, or lost with a batch that
\* was broken off.
THEOREM ProgressIsCounted == AutomationSpec => []ProgressIsExact
<1> DEFINE IInv == AutomationTypeOK /\ VerdictIsNew /\ CountsAgree
<1>1. AutomationInit => IInv
  <2> SUFFICES ASSUME AutomationInit PROVE IInv
    OBVIOUS
  <2>1. AutomationTypeOK
    BY InitTypes
  <2>2. \A r \in Run : run[r].activated = 0 /\ made[r] = 0 /\ broken[r] = 0 /\ Unsaved(r) = 0
    BY DEF AutomationInit, NoRow, Unsaved
  <2>3. VerdictIsNew /\ CountsAgree
    BY <2>2 DEF AutomationInit, VerdictIsNew, CountsAgree
  <2> QED BY <2>1, <2>3
<1>2. IInv /\ [AutomationNext]_autoVars => IInv'
  <2> SUFFICES ASSUME IInv, [AutomationNext]_autoVars PROVE IInv'
    OBVIOUS
  <2>1. CASE AutomationNext
    BY <2>1, TypesStep, VerdictStep, CountsStep
  <2>2. CASE UNCHANGED autoVars
    <3>1. VerdictIsNew' /\ CountsAgree'
      BY <2>2 DEF autoVars, worker, runHistory, VerdictIsNew, CountsAgree, Unsaved
    <3> QED BY <2>2, <3>1, TypesStutter
  <2> QED BY <2>1, <2>2
<1>3. IInv => ProgressIsExact
  <2> SUFFICES ASSUME IInv, NEW r \in Run
      PROVE  /\ run[r].activated <= made[r]
             /\ made[r] <= run[r].activated + broken[r]
                         + (IF mine = r /\ verdict = "activated" THEN 1 ELSE 0)
    BY DEF ProgressIsExact
  <2>1. run[r].activated \in Nat /\ made[r] \in Nat /\ broken[r] \in Nat /\ Unsaved(r) \in Nat
    BY DEF AutomationTypeOK, RunTypes, HistoryTypes, Rows, Unsaved
  <2> QED BY <2>1 DEF CountsAgree, Unsaved
<1> QED BY <1>1, <1>2, <1>3, PTL DEF AutomationSpec

-------------------------------------------------------------------------------
(* The targets of a batch. *)

InBatch == AtGallery \cup {"next"}

\* Once listed, the targets of a batch are taken one after the other.
BatchKept ==
  /\ turn \in InBatch /\ mine' = mine /\ listed' = listed
  /\ turn' \in AtGallery => turn \in AtGallery /\ current' = current

LEMMA BatchFrame ==
  ASSUME AutomationNext, turn' \in InBatch
  PROVE  ListTargets \/ NextTarget \/ BatchKept
<1> USE DEF InBatch, AtGallery, GoesFrom, Rests, Decide, KeepsBatch, worker
<1>1. CASE BeginBatch \/ SaveDiscovery \/ RecordOutcome
  BY <1>1 DEF BeginBatch, SaveDiscovery, RecordOutcome, BatchKept
<1>2. CASE CompleteCancelled \/ AwaitMedia \/ RequeueRun \/ SkipTargets
  BY <1>2 DEF CompleteCancelled, AwaitMedia, RequeueRun, SkipTargets
<1>3. CASE CompleteRun
  BY <1>3 DEF CompleteRun
<1>4. CASE Scan \/ ApplyPolicy
  BY <1>4 DEF Scan, ApplyPolicy, BatchKept
<1>5. CASE CheckMedia \/ FindGallery
  BY <1>5 DEF CheckMedia, FindGallery, BatchKept
<1>6. CASE Activate \/ ActivationRefused
  BY <1>6 DEF Activate, ActivationRefused, BatchKept
<1>7. CASE SaveProgress
  BY <1>7 DEF SaveProgress, BatchKept
<1>8. ASSUME NEW new \in SUBSET GalleryId, Discover(new) PROVE BatchKept
  BY <1>8 DEF Discover
<1>9. ASSUME NEW r \in Run, ClaimNextRun(r) PROVE BatchKept
  BY <1>9 DEF ClaimNextRun
<1>10. CASE FailRun \/ ReleaseRun \/ SaveFails \/ WorkerDies
  BY <1>10 DEF FailRun, ReleaseRun, SaveFails, WorkerDies, BatchBroken
<1>11. ASSUME AutomationNext, ~ProcessBatch, ~FailRun, ~ReleaseRun, ~SaveFails, ~WorkerDies
       PROVE  BatchKept
  <2>1. UNCHANGED <<turn, mine, listed, current>>
    BY <1>11 DEF AutomationNext, QueueRun, EnqueueRun, EnqueueDraftRetry, RequestCancel,
       LeaseExpires, OwnerSetsState, OwnerEdits, MediaPrepared, MediaQueued
  <2> QED BY <2>1 DEF BatchKept
<1>12. CASE ProcessBatch
  BY <1>1, <1>2, <1>3, <1>4, <1>5, <1>6, <1>7, <1>8, <1>9, <1>12 DEF ProcessBatch
<1> QED BY <1>10, <1>11, <1>12

Targeted(r, g) == retried[r][g] # "none"

\* A target of a retry run stays one, whatever comes of it.
LEMMA TargetedFrame ==
  ASSUME AutomationTypeOK, AutomationNext, NEW q \in Run, run[q].status # "none",
         NEW g \in GalleryId, Targeted(q, g)
  PROVE  retried'[q][g] # "none"
<1> USE DEF Targeted, AutomationTypeOK, RunTypes
<1>1. ASSUME NEW r \in Run, NEW l \in Library, NEW b \in BOOLEAN, NEW drafts,
             QueueRun(r, l, b, drafts)
      PROVE  retried'[q][g] # "none"
  <2>1. r # q
    BY <1>1, AutomationAssumption DEF QueueRun
  <2> QED BY <1>1, <2>1 DEF QueueRun
<1>2. CASE RecordOutcome
  BY <1>2 DEF RecordOutcome, GoesFrom, WorkerHasRun, WorkerTypes, AtGallery
<1>3. CASE SkipTargets
  <2>1. retried'[q][g] \in {retried[q][g], "SKIPPED"}
    BY <1>3 DEF SkipTargets, GoesFrom, WorkerHasRun, WorkerTypes
  <2> QED BY <2>1
<1>4. UNCHANGED retried \/ RecordOutcome \/ SkipTargets
      \/ \E r \in Run, l \in Library, b \in BOOLEAN, drafts \in SUBSET GalleryId :
           QueueRun(r, l, b, drafts)
  BY DEF AutomationNext, ProcessBatch, EnqueueRun, EnqueueDraftRetry, OwnerSetsState, OwnerEdits,
         MediaPrepared, MediaQueued, BeginBatch, Discover, ListTargets, NextTarget, Scan,
         ApplyPolicy, CheckMedia, FindGallery, Activate, ActivationRefused, SaveFails,
         WorkerDies, BatchBroken, LeaseExpires, ClaimNextRun, SaveDiscovery, SaveProgress,
         FailRun, CompleteCancelled, AwaitMedia, RequeueRun, CompleteRun, ReleaseRun,
         RequestCancel
<1> QED BY <1>1, <1>2, <1>3, <1>4

\* A retry run looks at its own targets only, and what it is about to
\* activate was a draft and still is if nobody has changed it.
BatchTargeted ==
  turn \in InBatch /\ run[mine].retry =>
    /\ \A g \in listed : Targeted(mine, g)
    /\ turn \in AtGallery => Targeted(mine, current)
FreshIsDraft == turn = "activate" /\ run[mine].retry /\ fresh => stateOf[current] = "DRAFT"

LEMMA BatchTargetedStep ==
  ASSUME AutomationTypeOK, BatchTargeted, AutomationNext
  PROVE  BatchTargeted'
<1> SUFFICES ASSUME turn' \in InBatch, run'[mine'].retry
    PROVE  /\ \A g \in listed' : retried'[mine'][g] # "none"
           /\ turn' \in AtGallery => retried'[mine'][current'] # "none"
  BY DEF BatchTargeted, Targeted
<1> USE DEF AutomationTypeOK, WorkerTypes, WorkerHasRun, InBatch, AtGallery
<1>1. CASE ListTargets
  <2>1. /\ mine' = mine /\ mine \in Run /\ run' = run /\ retried' = retried
        /\ turn' = "next" /\ listed' \subseteq Remaining(mine)
    BY <1>1 DEF ListTargets, GoesFrom, FirstOf
  <2> QED BY <2>1 DEF Remaining, Targeted
<1>2. CASE NextTarget
  <2>1. /\ mine' = mine /\ mine \in Run /\ run' = run /\ retried' = retried /\ turn = "next"
        /\ listed' \subseteq listed /\ current' \in listed
    BY <1>2 DEF NextTarget, FirstOf
  <2> QED BY <2>1 DEF BatchTargeted, Targeted
<1>3. CASE BatchKept
  <2>1. mine \in Run /\ run[mine].status = "RUNNING" /\ mine' = mine
    BY <1>3 DEF BatchKept
  <2>2. run[mine].retry
    BY <2>1, RunFrame DEF RunKept, SameRequest
  <2>3. \A g \in listed : retried'[mine][g] # "none"
    BY <1>3, <2>1, <2>2, TargetedFrame DEF BatchTargeted, BatchKept
  <2>4. turn' \in AtGallery => retried'[mine][current] # "none"
    BY <1>3, <2>1, <2>2, TargetedFrame DEF BatchTargeted, BatchKept
  <2> QED BY <1>3, <2>1, <2>3, <2>4 DEF BatchKept
<1> QED BY <1>1, <1>2, <1>3, BatchFrame

LEMMA FreshIsDraftStep ==
  ASSUME AutomationTypeOK, FreshIsDraft, AutomationNext
  PROVE  FreshIsDraft'
<1> SUFFICES ASSUME turn' = "activate", run'[mine'].retry, fresh'
    PROVE  stateOf'[current'] = "DRAFT"
  BY DEF FreshIsDraft
<1> USE DEF AutomationTypeOK, WorkerTypes, WorkerHasRun, AtGallery, GalleryTypes
<1>1. CASE FindGallery
  BY <1>1 DEF FindGallery, Decide, galleries
<1>2. ASSUME NEW g \in GalleryId, NEW target \in GalleryStates \ {"none"}, OwnerSetsState(g, target)
      PROVE  stateOf'[current'] = "DRAFT"
  <2>1. /\ turn = "activate" /\ mine' = mine /\ run' = run /\ current' = current
        /\ fresh /\ current # g /\ stateOf' = [stateOf EXCEPT ![g] = StateAfter(g, target)]
    BY <1>2 DEF OwnerSetsState
  <2> QED BY <2>1 DEF FreshIsDraft
<1>3. CASE turn = "activate" /\ UNCHANGED <<stateOf, mine, current>> /\ fresh
  <2>1. run[mine].retry
    BY <1>3, RunFrame DEF RunKept, SameRequest
  <2> QED BY <1>3, <2>1 DEF FreshIsDraft
<1>4. \/ FindGallery
      \/ \E g \in GalleryId, target \in GalleryStates \ {"none"} : OwnerSetsState(g, target)
      \/ turn = "activate" /\ UNCHANGED <<stateOf, mine, current>> /\ fresh
  <2>1. CASE ProcessBatch
    BY <2>1 DEF ProcessBatch, BeginBatch, Discover, ListTargets, NextTarget, Scan,
         ApplyPolicy, CheckMedia, Activate, ActivationRefused, RecordOutcome, SkipTargets,
         ClaimNextRun, SaveDiscovery, SaveProgress, CompleteCancelled, AwaitMedia,
         RequeueRun, CompleteRun, GoesFrom, Rests, Decide, KeepsBatch
  <2>2. CASE FailRun \/ ReleaseRun \/ SaveFails \/ WorkerDies
    BY <2>2 DEF FailRun, ReleaseRun, SaveFails, WorkerDies, BatchBroken
  <2>3. ASSUME AutomationNext, ~ProcessBatch, ~FailRun, ~ReleaseRun, ~SaveFails, ~WorkerDies,
               ~\E g \in GalleryId, target \in GalleryStates \ {"none"} : OwnerSetsState(g, target)
        PROVE  turn = "activate" /\ UNCHANGED <<stateOf, mine, current>> /\ fresh
    BY <2>3 DEF AutomationNext, QueueRun, EnqueueRun, EnqueueDraftRetry, RequestCancel,
       LeaseExpires, OwnerEdits, MediaPrepared, MediaQueued, worker, galleries
  <2> QED BY <2>1, <2>2, <2>3
<1> QED BY <1>1, <1>2, <1>3, <1>4

\* RetryOpensItsDrafts: whatever others do meanwhile, a retry run makes
\* active, or a draft again, nothing but drafts that it was queued with.
THEOREM RetryOpensOnlyItsDrafts == AutomationSpec => RetryOpensItsDrafts
<1> DEFINE IInv == AutomationTypeOK /\ BatchTargeted /\ FreshIsDraft
           Opens == turn = "activate" /\ turn' # turn /\ run[mine].retry =>
                      \A g \in GalleryId : stateOf'[g] # stateOf[g] =>
                        stateOf[g] = "DRAFT" /\ retried[mine][g] # "none"
<1>1. AutomationInit => IInv
  BY InitTypes DEF AutomationInit, BatchTargeted, FreshIsDraft, InBatch, AtGallery
<1>2. IInv /\ [AutomationNext]_autoVars => IInv'
  <2> SUFFICES ASSUME IInv, [AutomationNext]_autoVars PROVE IInv'
    OBVIOUS
  <2>1. CASE AutomationNext
    BY <2>1, TypesStep, BatchTargetedStep, FreshIsDraftStep
  <2>2. CASE UNCHANGED autoVars
    <3>1. BatchTargeted' /\ FreshIsDraft'
      BY <2>2 DEF autoVars, galleries, worker, BatchTargeted, FreshIsDraft, Targeted
    <3> QED BY <2>2, <3>1, TypesStutter
  <2> QED BY <2>1, <2>2
<1>3. IInv /\ [AutomationNext]_autoVars => [Opens]_autoVars
  <2> SUFFICES ASSUME IInv, AutomationNext, turn = "activate", turn' # turn, run[mine].retry,
                      NEW g \in GalleryId, stateOf'[g] # stateOf[g]
      PROVE  stateOf[g] = "DRAFT" /\ retried[mine][g] # "none"
    OBVIOUS
  <2>1. Targeted(mine, current) /\ current \in GalleryId
    BY DEF BatchTargeted, InBatch, AtGallery, AutomationTypeOK, WorkerHasRun
  <2>2. CASE Activate \/ ActivationRefused
    <3>1. g = current /\ fresh
      BY <2>2 DEF Activate, ActivationRefused, AutomationTypeOK, GalleryTypes
    <3> QED BY <2>1, <3>1 DEF FreshIsDraft, Targeted
  <2>3. Activate \/ ActivationRefused
    <3>1. CASE ProcessBatch
      BY <3>1 DEF ProcessBatch, BeginBatch, CompleteCancelled, SaveDiscovery, ListTargets,
           NextTarget, Scan, ApplyPolicy, AwaitMedia, CheckMedia, FindGallery, RecordOutcome,
           SaveProgress, RequeueRun, CompleteRun, SkipTargets, Discover, ClaimNextRun, GoesFrom
    <3>2. CASE ~ProcessBatch
      BY <3>2 DEF AutomationNext, FailRun, ReleaseRun, SaveFails, WorkerDies, BatchBroken,
           RequestCancel, LeaseExpires, EnqueueRun, EnqueueDraftRetry, QueueRun, OwnerEdits,
           MediaQueued, MediaPrepared, OwnerSetsState, galleries, worker
    <3> QED BY <3>1, <3>2
  <2> QED BY <2>2, <2>3
<1> QED BY <1>1, <1>2, <1>3, PTL DEF AutomationSpec, RetryOpensItsDrafts

-------------------------------------------------------------------------------
(* Drafts that a run is to deal with. *)

\* A row that appears is that of a run which has just been queued.
LEMMA NewRun ==
  ASSUME AutomationTypeOK, AutomationNext, NEW q \in Run,
         run[q].status = "none", run'[q].status # "none"
  PROVE  \E l \in Library, b \in BOOLEAN, drafts \in SUBSET GalleryId :
           QueueRun(q, l, b, drafts) /\ (b => drafts \subseteq DraftsOf(l))
<1> USE DEF AutomationTypeOK, RunTypes, WorkerHasRun, Rows
<1>1. ASSUME NEW r \in Run, NEW l \in Library, NEW b \in BOOLEAN, NEW drafts,
             QueueRun(r, l, b, drafts)
      PROVE  r = q
  BY <1>1 DEF QueueRun
<1>2. ASSUME NEW r \in Run, RequestCancel(r) PROVE FALSE
  BY <1>2 DEF RequestCancel, Underway
<1>3. ASSUME NEW r \in Run, LeaseExpires(r) PROVE FALSE
  BY <1>3 DEF LeaseExpires
<1>4. ASSUME NEW r \in Run, ClaimNextRun(r) PROVE FALSE
  <2>1. Recovered(r) = "QUEUED" /\ Recovered(q) = "none"
    BY <1>4 DEF ClaimNextRun, Recovered
  <2>2. run'[q] = [run[q] EXCEPT !.status = IF q = r THEN "RUNNING" ELSE Recovered(q),
                                 !.expired = @ /\ Recovered(q) = "RUNNING"]
    BY <1>4 DEF ClaimNextRun
  <2> DEFINE old == run[q]
  <2>3. old.status = "none" /\ old \in Rows
    OBVIOUS
  <2>4. run'[q] = [old EXCEPT !.status = "none", !.expired = @ /\ Recovered(q) = "RUNNING"]
    BY <2>1, <2>2
  <2> HIDE DEF old
  <2> QED BY <2>3, <2>4
<1>5. ASSUME turn \notin {"idle", "skip"}, \A r \in Run \ {mine} : run'[r] = run[r] PROVE FALSE
  BY <1>5
<1>6. CASE SaveDiscovery \/ SaveProgress \/ FailRun
  BY <1>5, <1>6 DEF SaveDiscovery, SaveProgress, FailRun, GoesFrom
<1>7. CASE CompleteCancelled \/ AwaitMedia \/ RequeueRun \/ CompleteRun \/ ReleaseRun
  BY <1>5, <1>7
     DEF CompleteCancelled, AwaitMedia, RequeueRun, CompleteRun, ReleaseRun, Leaves
<1>8. ASSUME NEW r \in Run, NEW l \in Library, EnqueueRun(r, l)
      PROVE  QueueRun(q, l, FALSE, {})
  BY <1>1, <1>8 DEF EnqueueRun
<1>9. ASSUME NEW r \in Run, NEW l \in Library, NEW drafts \in SUBSET GalleryId,
             EnqueueDraftRetry(r, l, drafts)
      PROVE  QueueRun(q, l, TRUE, drafts) /\ drafts \subseteq DraftsOf(l)
  BY <1>1, <1>9 DEF EnqueueDraftRetry
<1>10. ASSUME AutomationNext, UNCHANGED run PROVE FALSE
  BY <1>10
<1>11. \/ UNCHANGED run
       \/ \E r \in Run : RequestCancel(r) \/ LeaseExpires(r) \/ ClaimNextRun(r)
       \/ SaveDiscovery \/ SaveProgress \/ FailRun
       \/ CompleteCancelled \/ AwaitMedia \/ RequeueRun \/ CompleteRun \/ ReleaseRun
       \/ \E r \in Run, l \in Library : EnqueueRun(r, l)
       \/ \E r \in Run, l \in Library, drafts \in SUBSET GalleryId : EnqueueDraftRetry(r, l, drafts)
  BY DEF AutomationNext, ProcessBatch, OwnerSetsState, OwnerEdits,
         MediaPrepared, MediaQueued, BeginBatch, Discover, ListTargets, NextTarget, Scan,
         ApplyPolicy, CheckMedia, FindGallery, Activate, ActivationRefused, RecordOutcome,
         SkipTargets, SaveFails, WorkerDies, BatchBroken
<1>12. CASE \E r \in Run, l \in Library : EnqueueRun(r, l)
  <2>1. PICK l \in Library : QueueRun(q, l, FALSE, {})
    BY <1>8, <1>12
  <2>2. {} \in SUBSET GalleryId
    OBVIOUS
  <2> WITNESS l \in Library, FALSE \in BOOLEAN, {} \in SUBSET GalleryId
  <2> QED BY <2>1
<1>13. CASE \E r \in Run, l \in Library, drafts \in SUBSET GalleryId :
              EnqueueDraftRetry(r, l, drafts)
  BY <1>9, <1>13
<1> QED BY <1>2, <1>3, <1>4, <1>6, <1>7, <1>10, <1>11, <1>12, <1>13

\* A draft that somebody awaits is one until nobody does; what is there is
\* never forgotten.
LEMMA StateFrame ==
  ASSUME AutomationTypeOK, AutomationNext, NEW g \in GalleryId
  PROVE  /\ stateOf[g] # "none" => stateOf'[g] # "none"
         /\ stateOf[g] = "DRAFT" /\ (\E r \in Run : g \in undecided'[r]) => stateOf'[g] = "DRAFT"
<1> USE DEF AutomationTypeOK, GalleryTypes, HistoryTypes, GalleryStates
<1> DEFINE Goal == /\ stateOf[g] # "none" => stateOf'[g] # "none"
                   /\ stateOf[g] = "DRAFT" /\ (\E r \in Run : g \in undecided'[r])
                        => stateOf'[g] = "DRAFT"
<1>1. ASSUME NEW h \in GalleryId, NEW target \in GalleryStates \ {"none"}, OwnerSetsState(h, target)
      PROVE  Goal
  BY <1>1 DEF OwnerSetsState, StateAfter, LeavesDrafts
<1>2. ASSUME NEW new \in SUBSET GalleryId, Discover(new) PROVE Goal
  BY <1>2 DEF Discover
<1>3. CASE Activate
  BY <1>3 DEF Activate, LeavesDrafts
<1>4. CASE ActivationRefused
  BY <1>4 DEF ActivationRefused, StateAfter
<1>5. CASE UNCHANGED stateOf
  BY <1>5
<1>6. \/ UNCHANGED stateOf \/ Activate \/ ActivationRefused
      \/ \E new \in SUBSET GalleryId : Discover(new)
      \/ \E h \in GalleryId, target \in GalleryStates \ {"none"} : OwnerSetsState(h, target)
  BY DEF AutomationNext, ProcessBatch, QueueRun, EnqueueRun, EnqueueDraftRetry,
         OwnerEdits, MediaPrepared, MediaQueued, BeginBatch, ListTargets, NextTarget, Scan,
         ApplyPolicy, CheckMedia, FindGallery, RecordOutcome, SkipTargets, SaveFails,
         WorkerDies, BatchBroken, LeaseExpires, ClaimNextRun, SaveDiscovery, SaveProgress,
         FailRun, CompleteCancelled, AwaitMedia, RequeueRun, CompleteRun, ReleaseRun,
         RequestCancel, galleries
<1> QED BY <1>1, <1>2, <1>3, <1>4, <1>5, <1>6

\* What a run that is there awaits grows by its discovery only.
LEMMA UndecidedFrame ==
  ASSUME AutomationTypeOK, AutomationNext, NEW q \in Run, run[q].status # "none",
         ~\E new \in SUBSET GalleryId : Discover(new) /\ q = mine
  PROVE  /\ undecided'[q] \subseteq undecided[q]
         /\ SaveProgress /\ q = mine => current \notin undecided'[q]
<1> USE DEF AutomationTypeOK, HistoryTypes
<1>1. ASSUME NEW r \in Run, NEW l \in Library, NEW b \in BOOLEAN, NEW drafts,
             QueueRun(r, l, b, drafts)
      PROVE  undecided'[q] \subseteq undecided[q]
  <2>1. r # q
    BY <1>1, AutomationAssumption DEF QueueRun
  <2> QED BY <1>1, <2>1 DEF QueueRun
<1>2. CASE SaveProgress
  BY <1>2 DEF SaveProgress
<1>3. ASSUME NEW new \in SUBSET GalleryId, Discover(new) PROVE undecided'[q] \subseteq undecided[q]
  BY <1>3 DEF Discover
<1>4. ASSUME NEW g \in GalleryId, LeavesDrafts(g) PROVE undecided'[q] \subseteq undecided[q]
  BY <1>4 DEF LeavesDrafts
<1>5. ASSUME UNCHANGED undecided PROVE undecided'[q] \subseteq undecided[q]
  BY <1>5
<1>6. \/ UNCHANGED undecided \/ SaveProgress
      \/ \E new \in SUBSET GalleryId : Discover(new)
      \/ \E g \in GalleryId : LeavesDrafts(g)
      \/ \E r \in Run, l \in Library, b \in BOOLEAN, drafts \in SUBSET GalleryId :
           QueueRun(r, l, b, drafts)
  BY DEF AutomationNext, ProcessBatch, EnqueueRun, EnqueueDraftRetry, OwnerSetsState,
         OwnerEdits, MediaPrepared, MediaQueued, BeginBatch, ListTargets, NextTarget, Scan,
         ApplyPolicy, CheckMedia, FindGallery, Activate, ActivationRefused, RecordOutcome,
         SkipTargets, SaveFails, WorkerDies, BatchBroken, LeaseExpires, ClaimNextRun,
         SaveDiscovery, FailRun, CompleteCancelled, AwaitMedia, RequeueRun, CompleteRun,
         ReleaseRun, RequestCancel, runHistory, WorkerHasRun, AtGallery
<1>7. undecided'[q] \subseteq undecided[q]
  BY <1>1, <1>2, <1>3, <1>4, <1>5, <1>6
<1> QED BY <1>2, <1>7 DEF SaveProgress

-------------------------------------------------------------------------------
(* The first of a finite set of numbers. *)

\* What is not among the first n comes after all of them.
LEMMA FirstOfOrder ==
  ASSUME NEW S, S \subseteq GalleryId, NEW n \in Nat, NEW g \in S, g \notin FirstOf(S, n),
         NEW h \in FirstOf(S, n)
  PROVE  h < g
<1> DEFINE Below(k) == {x \in S : x < k}
<1>1. g \in Nat /\ h \in Nat /\ S \subseteq Nat /\ h \in S
  BY AutomationAssumption DEF FirstOf
<1>2. \A k : IsFiniteSet(Below(k))
  BY AutomationAssumption, FS_Subset
<1>3. ~(Cardinality(Below(g)) < n) /\ Cardinality(Below(h)) < n
  BY DEF FirstOf
<1>4. SUFFICES ASSUME ~(h < g) PROVE FALSE
  OBVIOUS
<1>5. Below(g) \subseteq Below(h)
  <2> SUFFICES ASSUME NEW x \in S, x < g PROVE x < h
    OBVIOUS
  <2> x \in Nat
    BY <1>1
  <2> QED BY <1>1, <1>4
<1>6. /\ Cardinality(Below(g)) \in Nat /\ Cardinality(Below(h)) \in Nat
      /\ Cardinality(Below(g)) <= Cardinality(Below(h))
  BY <1>2, <1>5, FS_Subset, FS_CardinalityType
<1> HIDE DEF Below
<1> QED BY <1>3, <1>6

\* The first of a set is one element.
LEMMA FirstIsOne ==
  ASSUME NEW S, S \subseteq GalleryId, NEW g \in FirstOf(S, 1), NEW h \in FirstOf(S, 1)
  PROVE  g = h
<1> DEFINE Below(k) == {x \in S : x < k}
<1>1. g \in Nat /\ h \in Nat /\ g \in S /\ h \in S
  BY AutomationAssumption DEF FirstOf
<1>2. \A k : IsFiniteSet(Below(k))
  BY AutomationAssumption, FS_Subset
<1>3. Cardinality(Below(g)) < 1 /\ Cardinality(Below(h)) < 1
  BY DEF FirstOf
<1>4. Cardinality(Below(g)) = 0 /\ Cardinality(Below(h)) = 0
  <2>1. Cardinality(Below(g)) \in Nat /\ Cardinality(Below(h)) \in Nat
    BY <1>2, FS_CardinalityType
  <2> HIDE DEF Below
  <2> QED BY <1>3, <2>1
<1>5. Below(g) = {} /\ Below(h) = {}
  BY <1>2, <1>4, FS_EmptySet
<1> QED BY <1>1, <1>5

-------------------------------------------------------------------------------
(* No draft is passed over. *)

\* A run starts at the beginning, its cursor is at a gallery that is there,
\* and a retry run makes no discovery.
CursorExists ==
  \A r \in Run : /\ run[r].status = "none" => run[r].cursor = 0
                 /\ run[r].cursor # 0 => run[r].cursor \in GalleryId
                                         /\ stateOf[run[r].cursor] # "none"
RetryIsDiscovered ==
  /\ \A r \in Run : run[r].status # "none" /\ run[r].retry => run[r].discovered
  /\ turn = "discover" => ~run[mine].retry

\* The galleries of a batch are there.
BatchExists ==
  /\ turn \in InBatch => \A g \in listed : stateOf[g] # "none"
  /\ turn \in AtGallery => stateOf[current] # "none"

\* What a run awaits remains to be done, and it is not behind what the
\* worker has listed and takes up.
AwaitedRemains ==
  \A r \in Run : run[r].status \in Underway => undecided[r] \subseteq Remaining(r)
Ahead(g) == g \in listed \/ \A h \in listed : h < g
BatchOrder ==
  /\ turn = "next" => \A g \in undecided[mine] : Ahead(g)
  /\ turn \in AtGallery =>
       \A g \in undecided[mine] : g = current \/ (current < g /\ Ahead(g))
NoneSkipped ==
  CursorExists /\ RetryIsDiscovered /\ BatchExists /\ AwaitedRemains /\ BatchOrder
  /\ NoDraftPassedOver

\* The cursor is where the progress was saved.
LEMMA CursorFrame ==
  ASSUME AutomationTypeOK, AutomationNext, NEW q \in Run
  PROVE  \/ run'[q].cursor = run[q].cursor
         \/ SaveProgress /\ q = mine /\ run'[q].cursor = current
<1> USE DEF AutomationTypeOK, RunTypes, WorkerHasRun, Rows, AtGallery
<1>1. CASE SaveProgress
  <2>1. mine \in Run /\ run' = [run EXCEPT ![mine] = [Counted(@) EXCEPT !.cursor = current]]
    BY <1>1 DEF SaveProgress, GoesFrom
  <2> QED BY <1>1, <2>1 DEF Counted
<1>2. CASE FailRun
  BY <1>2 DEF FailRun, Counted
<1>3. CASE ~SaveProgress /\ ~FailRun
  BY <1>3, CountsFrame DEF CountsKept
<1> QED BY <1>1, <1>2, <1>3

\* Where the worker may come from.
LEMMA BackToNext ==
  ASSUME AutomationNext, turn \in AtGallery, turn' = "next"
  PROVE  SaveProgress
<1> USE DEF AtGallery, GoesFrom, Decide, KeepsBatch, worker
<1>1. CASE ProcessBatch
  BY <1>1 DEF ProcessBatch, BeginBatch, CompleteCancelled, SaveDiscovery, ListTargets,
       NextTarget, Scan, ApplyPolicy, AwaitMedia, CheckMedia, FindGallery, Activate,
       ActivationRefused, RecordOutcome, RequeueRun, CompleteRun, SkipTargets, Discover,
       ClaimNextRun
<1>2. CASE ~ProcessBatch
  BY <1>2 DEF AutomationNext, FailRun, ReleaseRun, SaveFails, WorkerDies, BatchBroken,
       RequestCancel, LeaseExpires, EnqueueRun, EnqueueDraftRetry, QueueRun, OwnerEdits,
       MediaQueued, MediaPrepared, OwnerSetsState
<1> QED BY <1>1, <1>2

LEMMA StaysAtDiscovery ==
  ASSUME AutomationNext, turn' = "discover"
  PROVE  BeginBatch \/ (turn = "discover" /\ mine' = mine)
<1> USE DEF GoesFrom, Decide, KeepsBatch, worker
<1>1. CASE ProcessBatch
  BY <1>1 DEF ProcessBatch, CompleteCancelled, SaveDiscovery, ListTargets,
       NextTarget, Scan, ApplyPolicy, AwaitMedia, CheckMedia, FindGallery, Activate,
       ActivationRefused, RecordOutcome, SaveProgress, RequeueRun, CompleteRun, SkipTargets,
       Discover, ClaimNextRun
<1>2. CASE ~ProcessBatch
  BY <1>2 DEF AutomationNext, FailRun, ReleaseRun, SaveFails, WorkerDies, BatchBroken,
       RequestCancel, LeaseExpires, EnqueueRun, EnqueueDraftRetry, QueueRun, OwnerEdits,
       MediaQueued, MediaPrepared, OwnerSetsState
<1> QED BY <1>1, <1>2

LEMMA CursorStep ==
  ASSUME AutomationTypeOK, CursorExists, BatchExists, AutomationNext
  PROVE  CursorExists'
<1> SUFFICES ASSUME NEW q \in Run
    PROVE  /\ run'[q].status = "none" => run'[q].cursor = 0
           /\ run'[q].cursor # 0 => run'[q].cursor \in GalleryId
                                    /\ stateOf'[run'[q].cursor] # "none"
  BY DEF CursorExists
<1>1. CASE run'[q].cursor = run[q].cursor
  <2>1. run'[q].status = "none" => run[q].status = "none"
    BY RunFrame DEF RunKept, SameRequest, AutomationTypeOK, RunTypes, Rows, Underway, Ended
  <2> QED BY <1>1, <2>1, StateFrame DEF CursorExists
<1>2. CASE SaveProgress /\ q = mine /\ run'[q].cursor = current
  <2>1. current \in GalleryId /\ stateOf[current] # "none" /\ run[q].status = "RUNNING"
    BY <1>2 DEF SaveProgress, GoesFrom, BatchExists, AtGallery, AutomationTypeOK, WorkerHasRun
  <2>2. run'[q].status # "none"
    BY <2>1, RunFrame DEF RunKept, SameRequest, Underway, Ended
  <2> QED BY <1>2, <2>1, <2>2, StateFrame
<1> QED BY <1>1, <1>2, CursorFrame

LEMMA RetryStep ==
  ASSUME AutomationTypeOK, RetryIsDiscovered, AutomationNext
  PROVE  RetryIsDiscovered'
<1>1. ASSUME NEW q \in Run, run'[q].status # "none", run'[q].retry PROVE run'[q].discovered
  <2>1. CASE run[q].status # "none"
    BY <1>1, <2>1, RunFrame DEF RunKept, SameRequest, RetryIsDiscovered
  <2>2. CASE run[q].status = "none"
    <3>1. PICK l \in Library, b \in BOOLEAN, drafts \in SUBSET GalleryId : QueueRun(q, l, b, drafts)
      BY <1>1, <2>2, NewRun
    <3> DEFINE row == [run[q] EXCEPT !.status = "QUEUED", !.library = l, !.retry = b,
                                     !.discovered = b]
    <3>2. run'[q] = row
      BY <3>1 DEF QueueRun, AutomationTypeOK, RunTypes
    <3>3. row.retry = b /\ row.discovered = b
      BY DEF AutomationTypeOK, RunTypes, Rows
    <3> QED BY <1>1, <3>2, <3>3
  <2> QED BY <2>1, <2>2
<1>2. ASSUME turn' = "discover" PROVE ~run'[mine'].retry
  <2>1. CASE BeginBatch
    BY <1>2, <2>1 DEF BeginBatch, KeepsBatch, RetryIsDiscovered, AutomationTypeOK, WorkerTypes,
                      WorkerHasRun
  <2>2. CASE turn = "discover" /\ mine' = mine
    <3>1. mine \in Run /\ run[mine].status # "none"
      BY <2>2 DEF AutomationTypeOK, WorkerHasRun
    <3> QED BY <2>2, <3>1, RunFrame DEF RunKept, SameRequest, RetryIsDiscovered
  <2>3. BeginBatch \/ (turn = "discover" /\ mine' = mine)
    BY <1>2, StaysAtDiscovery
  <2> QED BY <2>1, <2>2, <2>3
<1> QED BY <1>1, <1>2 DEF RetryIsDiscovered

LEMMA BatchExistsStep ==
  ASSUME AutomationTypeOK, BatchExists, AutomationNext
  PROVE  BatchExists'
<1> SUFFICES ASSUME turn' \in InBatch
    PROVE  /\ \A g \in listed' : stateOf'[g] # "none"
           /\ turn' \in AtGallery => stateOf'[current'] # "none"
  BY DEF BatchExists, InBatch
<1> USE DEF AutomationTypeOK, WorkerTypes, WorkerHasRun, InBatch, AtGallery
<1>1. CASE ListTargets
  <2>1. stateOf' = stateOf /\ turn' = "next" /\ listed' \subseteq Remaining(mine)
    BY <1>1 DEF ListTargets, GoesFrom, FirstOf, galleries
  <2> QED BY <2>1 DEF Remaining, DraftsOf
<1>2. CASE NextTarget
  <2>1. stateOf' = stateOf /\ turn = "next" /\ listed' \subseteq listed /\ current' \in listed
    BY <1>2 DEF NextTarget, FirstOf, galleries
  <2> QED BY <2>1 DEF BatchExists
<1>3. CASE BatchKept
  <2>1. \A g \in listed : stateOf'[g] # "none"
    BY <1>3, StateFrame DEF BatchKept, BatchExists
  <2>2. turn' \in AtGallery => stateOf'[current] # "none"
    BY <1>3, StateFrame DEF BatchKept, BatchExists
  <2> QED BY <1>3, <2>1, <2>2 DEF BatchKept
<1> QED BY <1>1, <1>2, <1>3, BatchFrame

LEMMA AwaitedStep ==
  ASSUME AutomationTypeOK, NoneSkipped, AutomationNext
  PROVE  AwaitedRemains'
<1> USE DEF AutomationTypeOK, GalleryTypes, HistoryTypes
<1> SUFFICES ASSUME NEW q \in Run, run'[q].status \in Underway, NEW g \in undecided'[q]
    PROVE  /\ g \in GalleryId /\ LibraryOf[g] = run'[q].library /\ stateOf'[g] = "DRAFT"
           /\ g > run'[q].cursor /\ (run'[q].retry => retried'[q][g] # "none")
  BY DEF AwaitedRemains, Remaining, DraftsOf
<1>1. g \in GalleryId
  <2>1. undecided' \in [Run -> SUBSET GalleryId]
    BY TypesStep
  <2> QED BY <2>1
<1>2. CASE run[q].status = "none"
  <2>1. PICK l \in Library, b \in BOOLEAN, drafts \in SUBSET GalleryId :
          QueueRun(q, l, b, drafts) /\ (b => drafts \subseteq DraftsOf(l))
    BY <1>2, NewRun DEF Underway
  <2> DEFINE row == [run[q] EXCEPT !.status = "QUEUED", !.library = l, !.retry = b,
                                   !.discovered = b]
  <2>2. run'[q] = row /\ stateOf' = stateOf
    BY <2>1 DEF QueueRun, RunTypes, galleries
  <2>3. row.library = l /\ row.retry = b /\ row.cursor = run[q].cursor
    BY DEF RunTypes, Rows
  <2>4. g \in (IF b THEN drafts ELSE DraftsOf(l))
    BY <2>1 DEF QueueRun
  <2>5. b => retried'[q][g] # "none"
    BY <1>1, <2>1, <2>4 DEF QueueRun, RunTypes
  <2>6. g \in DraftsOf(l)
    BY <2>1, <2>4
  <2>7. g > run[q].cursor
    BY <1>1, <1>2, AutomationAssumption DEF NoneSkipped, CursorExists
  <2> HIDE DEF row
  <2> QED BY <1>1, <2>2, <2>3, <2>5, <2>6, <2>7 DEF DraftsOf
<1>3. CASE run[q].status # "none"
  <2>1. /\ run[q].status \in Underway
        /\ run'[q].library = run[q].library /\ run'[q].retry = run[q].retry
    BY <1>3, RunFrame DEF RunKept, SameRequest, RunTypes, Rows, Underway, Ended
  <2>2. CASE g \in undecided[q]
    <3>1. g \in Remaining(q)
      BY <2>1, <2>2 DEF NoneSkipped, AwaitedRemains
    <3>2. stateOf'[g] = "DRAFT"
      BY <1>1, <3>1, StateFrame DEF Remaining, DraftsOf
    <3>3. run'[q].retry => retried'[q][g] # "none"
      BY <1>1, <1>3, <2>1, <3>1, TargetedFrame DEF Remaining, Targeted
    <3>4. CASE run'[q].cursor = run[q].cursor
      BY <1>1, <2>1, <3>1, <3>2, <3>3, <3>4 DEF Remaining, DraftsOf
    <3>5. CASE SaveProgress /\ q = mine /\ run'[q].cursor = current
      <4>1. turn = "save" /\ g # current
        BY <1>3, <3>5, UndecidedFrame DEF SaveProgress, Discover, GoesFrom
      <4>2. current < g
        BY <2>2, <3>5, <4>1 DEF NoneSkipped, BatchOrder, AtGallery
      <4> QED BY <1>1, <2>1, <3>1, <3>2, <3>3, <3>5, <4>2, AutomationAssumption
              DEF Remaining, DraftsOf, AtGallery, WorkerHasRun
    <3> QED BY <3>4, <3>5, CursorFrame
  <2>3. ASSUME NEW new \in SUBSET GalleryId, Discover(new), q = mine, g \notin undecided[q]
        PROVE  /\ LibraryOf[g] = run'[q].library /\ stateOf'[g] = "DRAFT"
               /\ g > run'[q].cursor /\ ~run'[q].retry
    <3>1. /\ g \in new /\ turn = "discover" /\ run' = run /\ LibraryOf[g] = run[mine].library
          /\ Newer(g) /\ stateOf'[g] = "DRAFT"
      BY <1>1, <2>3 DEF Discover
    <3>2. ~run[q].retry
      BY <2>3, <3>1 DEF NoneSkipped, RetryIsDiscovered
    <3>3. run[q].cursor # 0 => run[q].cursor < g
      BY <3>1 DEF NoneSkipped, CursorExists, Newer
    <3>4. g > run[q].cursor
      BY <1>1, <3>3, AutomationAssumption DEF RunTypes, Rows
    <3> QED BY <2>3, <3>1, <3>2, <3>4
  <2> QED BY <1>1, <1>3, <2>2, <2>3, UndecidedFrame
<1> QED BY <1>2, <1>3

LEMMA BatchOrderStep ==
  ASSUME AutomationTypeOK, NoneSkipped, AutomationNext
  PROVE  BatchOrder'
<1> USE DEF AutomationTypeOK, WorkerTypes, WorkerHasRun, InBatch, AtGallery
<1> SUFFICES ASSUME turn' \in InBatch, NEW g \in undecided'[mine']
    PROVE  /\ turn' = "next" => Ahead(g)'
           /\ turn' \in AtGallery => g = current' \/ (current' < g /\ Ahead(g)')
  BY DEF BatchOrder
<1>1. CASE ListTargets
  <2>1. /\ turn' = "next" /\ mine' = mine /\ undecided' = undecided /\ mine \in Run
        /\ run[mine].status = "RUNNING" /\ listed' = FirstOf(Remaining(mine), BatchSize)
    BY <1>1 DEF ListTargets, GoesFrom, runHistory
  <2>2. g \in Remaining(mine) /\ Remaining(mine) \subseteq GalleryId
    BY <2>1 DEF NoneSkipped, AwaitedRemains, Underway, Remaining, DraftsOf
  <2>3. \A h \in listed' : g \notin listed' => h < g
    BY <2>1, <2>2, FirstOfOrder, AutomationAssumption
  <2> QED BY <2>1, <2>3 DEF Ahead
<1>2. CASE NextTarget
  <2>1. PICK c \in FirstOf(listed, 1) :
          /\ current' = c /\ listed' = listed \ {c}
          /\ turn = "next" /\ turn' # "next" /\ mine' = mine /\ undecided' = undecided
    BY <1>2 DEF NextTarget, Decide, runHistory
  <2>2. c \in listed /\ listed \subseteq GalleryId /\ GalleryId \subseteq Nat
    BY AutomationAssumption DEF FirstOf
  <2>3. Ahead(g)
    BY <2>1 DEF NoneSkipped, BatchOrder
  <2>4. g \in listed /\ g # c => c < g
    <3>1. SUFFICES ASSUME g \in listed, g # c PROVE c < g
      OBVIOUS
    <3>2. CASE g \in FirstOf(listed, 1)
      BY <2>2, <3>1, <3>2, FirstIsOne
    <3>3. CASE g \notin FirstOf(listed, 1)
      BY <2>1, <2>2, <3>1, <3>3, FirstOfOrder
    <3> QED BY <3>2, <3>3
  <2> QED BY <2>1, <2>2, <2>3, <2>4 DEF Ahead
<1>3. CASE BatchKept
  <2>1. /\ mine' = mine /\ mine \in Run /\ turn \in InBatch /\ listed' = listed
        /\ run[mine].status = "RUNNING"
    BY <1>3 DEF BatchKept
  <2>2. g \in undecided[mine] /\ (SaveProgress => g # current)
    BY <2>1, UndecidedFrame DEF Discover
  <2>3. CASE turn' \in AtGallery
    BY <1>3, <2>1, <2>2, <2>3 DEF BatchKept, NoneSkipped, BatchOrder, Ahead
  <2>4. CASE turn' = "next" /\ turn = "next"
    BY <2>1, <2>2, <2>4 DEF NoneSkipped, BatchOrder, Ahead
  <2>5. CASE turn' = "next" /\ turn \in AtGallery
    <3>1. SaveProgress
      BY <2>5, BackToNext
    <3> QED BY <2>1, <2>2, <2>5, <3>1 DEF NoneSkipped, BatchOrder, Ahead
  <2> QED BY <2>1, <2>3, <2>4, <2>5
<1> QED BY <1>1, <1>2, <1>3, BatchFrame

\* A run is completed by its worker.
LEMMA EndsComplete ==
  ASSUME AutomationTypeOK, AutomationNext, NEW q \in Run,
         run[q].status # "COMPLETED", run'[q].status = "COMPLETED"
  PROVE  CompleteRun /\ q = mine
<1> USE DEF AutomationTypeOK, RunTypes, WorkerHasRun, Rows, AtGallery
<1>1. ASSUME NEW r \in Run, RequestCancel(r) PROVE FALSE
  BY <1>1 DEF RequestCancel
<1>2. ASSUME NEW r \in Run, LeaseExpires(r) PROVE FALSE
  BY <1>2 DEF LeaseExpires
<1>3. ASSUME NEW r \in Run, NEW l \in Library, NEW b \in BOOLEAN, NEW drafts,
             QueueRun(r, l, b, drafts)
      PROVE  FALSE
  BY <1>3 DEF QueueRun
<1>4. ASSUME NEW r \in Run, ClaimNextRun(r) PROVE FALSE
  <2> DEFINE row == [run[q] EXCEPT !.status = IF q = r THEN "RUNNING" ELSE Recovered(q),
                                   !.expired = @ /\ Recovered(q) = "RUNNING"]
  <2>1. run'[q] = row
    BY <1>4 DEF ClaimNextRun
  <2>2. row.status = IF q = r THEN "RUNNING" ELSE Recovered(q)
    OBVIOUS
  <2>3. Recovered(q) \in {"QUEUED", run[q].status}
    BY DEF Recovered
  <2> HIDE DEF row
  <2> QED BY <2>1, <2>2, <2>3
<1>5. CASE SaveDiscovery \/ SaveProgress \/ FailRun
  BY <1>5 DEF SaveDiscovery, SaveProgress, FailRun, Counted, GoesFrom
<1>6. CASE CompleteCancelled \/ AwaitMedia \/ RequeueRun \/ ReleaseRun
  BY <1>6 DEF CompleteCancelled, AwaitMedia, RequeueRun, ReleaseRun, Leaves
<1>7. CASE CompleteRun
  BY <1>7 DEF CompleteRun, Leaves
<1>8. CASE UNCHANGED run
  BY <1>8
<1> QED BY <1>1, <1>2, <1>3, <1>4, <1>5, <1>6, <1>7, <1>8, RunSteps

LEMMA PassedOverStep ==
  ASSUME AutomationTypeOK, NoneSkipped, AutomationNext
  PROVE  NoDraftPassedOver'
<1> SUFFICES ASSUME NEW q \in Run, run'[q].status = "COMPLETED" PROVE undecided'[q] = {}
  BY DEF NoDraftPassedOver
<1>1. run[q].status # "none"
  BY RunFrame DEF RunKept
<1>2. CASE run[q].status = "COMPLETED"
  <2>1. undecided[q] = {}
    BY <1>2 DEF NoneSkipped, NoDraftPassedOver
  <2>2. ~\E new \in SUBSET GalleryId : Discover(new) /\ q = mine
    BY <1>2 DEF Discover, AutomationTypeOK, WorkerHasRun
  <2> QED BY <1>1, <2>1, <2>2, UndecidedFrame
<1>3. CASE run[q].status # "COMPLETED"
  <2>1. CompleteRun /\ q = mine
    BY <1>3, EndsComplete
  <2>2. undecided' = undecided /\ Remaining(mine) = {} /\ run[mine].status = "RUNNING"
    BY <2>1 DEF CompleteRun, runHistory, AutomationTypeOK, WorkerHasRun
  <2> QED BY <2>1, <2>2 DEF NoneSkipped, AwaitedRemains, Underway
<1> QED BY <1>2, <1>3

\* NoDraftPassedOver: whatever interrupts it, a run that is completed has
\* dealt with every draft that it was to deal with.
THEOREM NoDraftIsPassedOver == AutomationSpec => []NoDraftPassedOver
<1> DEFINE IInv == AutomationTypeOK /\ NoneSkipped
<1>1. AutomationInit => IInv
  <2> SUFFICES ASSUME AutomationInit PROVE IInv
    OBVIOUS
  <2>1. AutomationTypeOK
    BY InitTypes
  <2>2. \A r \in Run : run[r].status = "none" /\ run[r].cursor = 0 /\ run[r].retry = FALSE
    BY DEF AutomationInit, NoRow
  <2>3. NoneSkipped
    BY <2>2 DEF AutomationInit, NoneSkipped, CursorExists, RetryIsDiscovered, BatchExists,
         AwaitedRemains, BatchOrder, NoDraftPassedOver, InBatch, AtGallery, Underway
  <2> QED BY <2>1, <2>3
<1>2. IInv /\ [AutomationNext]_autoVars => IInv'
  <2> SUFFICES ASSUME IInv, [AutomationNext]_autoVars PROVE IInv'
    OBVIOUS
  <2>1. CASE AutomationNext
    BY <2>1, TypesStep, CursorStep, RetryStep, BatchExistsStep, AwaitedStep, BatchOrderStep,
       PassedOverStep DEF NoneSkipped
  <2>2. CASE UNCHANGED autoVars
    <3>1. CursorExists' /\ RetryIsDiscovered' /\ BatchExists'
      BY <2>2 DEF autoVars, galleries, worker, NoneSkipped, CursorExists, RetryIsDiscovered,
           BatchExists
    <3>2. AwaitedRemains' /\ BatchOrder' /\ NoDraftPassedOver'
      BY <2>2 DEF autoVars, galleries, worker, runHistory, NoneSkipped, AwaitedRemains,
           Remaining, DraftsOf, BatchOrder, Ahead, NoDraftPassedOver
    <3> QED BY <2>2, <3>1, <3>2, TypesStutter DEF NoneSkipped
  <2> QED BY <2>1, <2>2
<1>3. IInv => NoDraftPassedOver
  BY DEF NoneSkipped
<1> QED BY <1>1, <1>2, <1>3, PTL DEF AutomationSpec

===============================================================================

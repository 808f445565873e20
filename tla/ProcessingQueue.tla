--------------------------- MODULE ProcessingQueue ---------------------------
(***************************************************************************)
(* The durable media processing queue of CGM: the processing_jobs table    *)
(* with its claim, heartbeat, complete, fail, cancel and requeue           *)
(* transactions, the worker loops that run the jobs, the wake-up signal    *)
(* between the two, and the runtime switches that disable some jobs.       *)
(*                                                                         *)
(* The database has one connection and every transaction takes the write   *)
(* lock when it starts, so a transaction is one action.  What interleaves  *)
(* is everything between two transactions.                                 *)
(*                                                                         *)
(* Time is relative: leaseLeft[j] and notBefore[j] are lease_expires_at    *)
(* and not_before minus the clock, in ticks.  A worker reads the clock     *)
(* before it waits for the connection, so a transaction may compare with   *)
(* a clock that lags by 0..MaxLag ticks; below -MaxLag no comparison can   *)
(* tell two ages apart.                                                    *)
(***************************************************************************)
EXTENDS Integers, FiniteSets

CONSTANTS
  Job,          \* ids of processing_jobs rows; the id is the age
  Worker,       \* lease owners: one per worker loop
  Nobody,       \* NULL in lease_owner; no job in a worker
  ItemOf,       \* the item a job processes
  GalleryOf,    \* the gallery an item belongs to
  Gated,        \* jobs a runtime switch can disable (CARD_1600, MEDIA_TIMES)
  FollowUp,     \* the job a successful probe enqueues, or Nobody
  Priorities,   \* priorities the enqueuing and requeuing callers use
  ScanPriority, \* the one a scan or a restored item uses
  ManualFloor,  \* ManualGalleryPriorityFloor
  MaxPriority,  \* the limit of PrioritizeManualGalleryScan
  MaxAttempts,  \* max_attempts
  Backoff,      \* ticks of retry delay after the n-th attempt
  Lease,        \* ticks of a lease
  MaxLag,       \* bound of a transaction's wait for the connection
  Recovery,     \* ticks of backgroundRecoveryInterval
  MinWait,      \* ticks of the shortest wait for a deadline (500 ms)
  QueryErrorWait, \* ticks of the wait when the next deadline cannot be read (1 min)
  ClaimErrorWait, \* ticks of the wait after a claim with an error (1 s)
  MaxCommands,  \* bound: commands of the owner in a behaviour
  MaxFaults     \* bound: restarts, stalls and errors of the database in a behaviour

Item == {ItemOf[j] : j \in Job}
Gallery == {GalleryOf[i] : i \in Item}

ASSUME ConstantsAssumption ==
  /\ Job \subseteq Nat /\ IsFiniteSet(Job) /\ Job # {}
  /\ Nobody \notin Worker /\ Nobody \notin Job
  /\ ItemOf \in [Job -> Item] /\ GalleryOf \in [Item -> Gallery]
  /\ Gated \subseteq Job
  /\ FollowUp \in [Job -> Job \cup {Nobody}]
  /\ Priorities \subseteq Nat /\ ScanPriority \in Priorities
  /\ ManualFloor \in Nat /\ MaxPriority \in Nat
  /\ \A p \in Priorities : p < ManualFloor /\ p <= MaxPriority
  /\ MaxAttempts \in Nat \ {0}
  /\ Backoff \in [0..MaxAttempts -> Nat]
  /\ Lease \in Nat /\ MaxLag \in Nat /\ MaxLag < Lease
  /\ Recovery \in Nat \ {0}
  /\ MinWait \in Nat /\ QueryErrorWait \in Nat /\ ClaimErrorWait \in Nat
  /\ MaxCommands \in Nat /\ MaxFaults \in Nat

\* A follow-up works on the item of the job that enqueues it.
ASSUME FollowUpAssumption ==
  \A j \in Job : FollowUp[j] # Nobody => ItemOf[FollowUp[j]] = ItemOf[j]

VARIABLES
  status, attempts, priority, notBefore,    \* columns of processing_jobs
  owner, leaseLeft, lastError,             \* last_error_code: "NONE" is empty
  switch,        \* the runtime switch of the gated jobs: "on" or "off"
  excluded,      \* items the owner has excluded
  phase,         \* where each worker loop is
  job,           \* the job each worker loop has claimed, or Nobody
  claimPriority, \* job.Priority of the row that ClaimNext returned
  outcome,       \* what processing returned
  cut,           \* workers whose processing context a failed heartbeat cancelled
  wake,          \* workers whose snapshot of the wake-up channel is closed
  timer,         \* ticks until the worker loop's timer fires
  commands, faults,                         \* the two bounded counters
  lost,           \* history: workers whose claim has been taken away
  ownerCancelled, \* history: jobs cancelled by the owner and not requeued since
  promoted        \* history: jobs of the last manual scan, not claimed since

rows == <<status, attempts, priority, notBefore, owner, leaseLeft, lastError>>
switches == <<switch, excluded>>
loops == <<phase, job, claimPriority, outcome, cut, timer>>
bounds == <<commands, faults>>
history == <<lost, ownerCancelled, promoted>>
vars == <<rows, switches, loops, wake, bounds, history>>

Ready == {"PENDING", "RETRY_WAIT"}
Active == Ready \cup {"RUNNING"}
Terminal == {"COMPLETED", "FAILED", "CANCELLED"}
Status == Active \cup Terminal \cup {"ABSENT"}
Busy == {"claimed", "working", "recording"}
\* Asleep until a deadline, after an error of the query for it, after an error
\* of the claim.
Waiting == {"asleep", "dozing", "pausing"}
Phase == Busy \cup Waiting \cup {"loop", "snapshot", "planning"}
Outcome == {"none", "ok", "retry", "structural"}

RowTypes ==
  /\ status \in [Job -> Status]
  /\ attempts \in [Job -> 0..MaxAttempts]
  /\ priority \in [Job -> 0..MaxPriority]
  /\ notBefore \in [Job -> Int]
  /\ owner \in [Job -> Worker \cup {Nobody}]
  /\ leaseLeft \in [Job -> Int]
  /\ lastError \in [Job -> {"NONE", "ITEM_EXCLUDED", "FAILURE"}]
LoopTypes ==
  /\ phase \in [Worker -> Phase]
  /\ job \in [Worker -> Job \cup {Nobody}]
  /\ claimPriority \in [Worker -> 0..MaxPriority]
  /\ outcome \in [Worker -> Outcome]
  /\ timer \in [Worker -> Nat]
  /\ cut \subseteq Worker /\ wake \subseteq Worker
OtherTypes ==
  /\ switch \in {"on", "off"} /\ excluded \subseteq Item
  /\ commands \in 0..MaxCommands /\ faults \in 0..MaxFaults
  /\ lost \subseteq Worker /\ ownerCancelled \subseteq Job /\ promoted \subseteq Job
TypeOK == RowTypes /\ LoopTypes /\ OtherTypes

Init ==
  /\ status = [j \in Job |-> "ABSENT"]
  /\ attempts = [j \in Job |-> 0]
  /\ priority = [j \in Job |-> 0]
  /\ notBefore = [j \in Job |-> 0]
  /\ owner = [j \in Job |-> Nobody]
  /\ leaseLeft = [j \in Job |-> 0]
  /\ lastError = [j \in Job |-> "NONE"]
  /\ switch = "on" /\ excluded = {}
  /\ phase = [w \in Worker |-> "loop"]
  /\ job = [w \in Worker |-> Nobody]
  /\ claimPriority = [w \in Worker |-> 0]
  /\ outcome = [w \in Worker |-> "none"]
  /\ cut = {} /\ wake = {}
  /\ timer = [w \in Worker |-> 0]
  /\ commands = 0 /\ faults = 0
  /\ lost = {} /\ ownerCancelled = {} /\ promoted = {}

------------------------------------------------------------------------------
\* Helpers.

Higher(p, q) == IF p < q THEN q ELSE p

\* The TEMP triggers close the channel every worker loop may hold.
Signal == wake' = Worker

Command == commands < MaxCommands /\ commands' = commands + 1 /\ UNCHANGED faults

\* A worker that is running job j under a claim loses it when j leaves RUNNING
\* by somebody else's transaction, or is claimed by somebody else.
WorkingOn(S) == {w \in Worker : phase[w] \in Busy /\ job[w] \in S}
LoseClaims(S) == lost' = lost \cup WorkingOn(S)

\* Faulty variant: the guard of Complete and Fail forgets the owner.
HoldsByStatus(w) == status[job[w]] = "RUNNING"
Holds(w) == status[job[w]] = "RUNNING" /\ owner[job[w]] = w

Enabled(j) == j \in Gated => switch = "on"

\* The row leaves RUNNING and Ready: no lease, a terminal status.
EndRow(S, st) ==
  /\ status' = [j \in Job |-> IF j \in S THEN st ELSE status[j]]
  /\ owner' = [j \in Job |-> IF j \in S THEN Nobody ELSE owner[j]]
  /\ leaseLeft' = [j \in Job |-> IF j \in S THEN 0 ELSE leaseLeft[j]]

\* Rows of N are inserted; rows of K exist and keep all but a lower priority.
Insert(N, K, p) ==
  /\ status' = [j \in Job |-> IF j \in N THEN "PENDING" ELSE status[j]]
  /\ notBefore' = [j \in Job |-> IF j \in N THEN 0 ELSE notBefore[j]]
  /\ priority' = [j \in Job |-> IF j \in N THEN p
                                ELSE IF j \in K THEN Higher(priority[j], p) ELSE priority[j]]

------------------------------------------------------------------------------
\* The commands of callers: resolvers, scans, resource endpoints.

\* Enqueue: the key is unique and a duplicate never changes a status.
Enqueue(j, p) ==
  /\ IF status[j] = "ABSENT"
       THEN Insert({j}, {}, p) /\ Signal
       ELSE Insert({}, {j}, p) /\ UNCHANGED wake
  /\ UNCHANGED <<attempts, owner, leaseLeft, lastError, switches, loops, bounds, history>>

\* Cancel: from every status that is not terminal; last_error_code stays.
Cancel(j) ==
  /\ Command
  /\ status[j] \in Active
  /\ EndRow({j}, "CANCELLED")
  /\ Signal
  /\ LoseClaims({j})
  /\ ownerCancelled' = ownerCancelled \cup {j}
  /\ promoted' = promoted \ {j}
  /\ UNCHANGED <<attempts, priority, notBefore, lastError, switches, loops>>

\* Requeue: the only way a finished row is opened again by its key.
Requeue(j, p) ==
  /\ Command
  /\ status[j] \in Terminal
  /\ status' = [status EXCEPT ![j] = "PENDING"]
  /\ priority' = [priority EXCEPT ![j] = Higher(@, p)]
  /\ attempts' = [attempts EXCEPT ![j] = 0]
  /\ notBefore' = [notBefore EXCEPT ![j] = 0]
  /\ lastError' = [lastError EXCEPT ![j] = "NONE"]
  /\ Signal
  /\ ownerCancelled' = ownerCancelled \ {j}
  /\ UNCHANGED <<owner, leaseLeft, switches, loops, lost, promoted>>

\* PrioritizeManualGalleryScan: the ready jobs of the gallery's included items
\* move above every priority in the table, or the command fails at the limit.
Existing == {j \in Job : status[j] # "ABSENT"}
\* Faulty variant: every manual scan uses the floor.
FloorOnly(p) == p = ManualFloor
NextManualPriority(p) ==
  /\ \A k \in Existing : priority[k] < p
  /\ p = ManualFloor \/ \E k \in Existing : priority[k] = p - 1
ManualSet(g) == {j \in Job \ Gated : /\ GalleryOf[ItemOf[j]] = g
                                     /\ status[j] \in Ready
                                     /\ ItemOf[j] \notin excluded}
Prioritize(g) ==
  /\ Command
  /\ \E p \in ManualFloor..MaxPriority :
       /\ NextManualPriority(p)
       /\ priority' = [j \in Job |-> IF j \in ManualSet(g) THEN p ELSE priority[j]]
  /\ promoted' = ManualSet(g)
  /\ UNCHANGED <<status, attempts, notBefore, owner, leaseLeft, lastError,
                 switches, loops, wake, lost, ownerCancelled>>

\* Faulty variant: the settings table has no trigger.
SetEnabledSilently ==
  /\ Command
  /\ switch' = IF switch = "on" THEN "off" ELSE "on"
  /\ UNCHANGED <<rows, wake, excluded, loops, history>>

\* Settings.Update: turning the switch touches no job, it only signals.
SetEnabled ==
  /\ Command
  /\ switch' = IF switch = "on" THEN "off" ELSE "on"
  /\ Signal
  /\ UNCHANGED <<rows, excluded, loops, history>>

\* SetItemExcluded(TRUE): the item's jobs are cancelled under a code of their own.
Exclude(i) ==
  LET S == {j \in Job : ItemOf[j] = i /\ status[j] \in Active}
  IN /\ Command
     /\ i \notin excluded
     /\ excluded' = excluded \cup {i}
     /\ EndRow(S, "CANCELLED")
     /\ lastError' = [j \in Job |-> IF j \in S THEN "ITEM_EXCLUDED" ELSE lastError[j]]
     /\ IF S = {} THEN UNCHANGED wake ELSE Signal
     /\ LoseClaims(S)
     /\ promoted' = promoted \ S
     /\ UNCHANGED <<attempts, priority, notBefore, switch, loops, ownerCancelled>>

\* SetItemExcluded(FALSE): only the jobs that the exclusion cancelled come back;
\* then enqueueScanProcessingJobs plans the base jobs of the gallery's included
\* items that still lack their base result (processing_state PENDING: P).
BaseJobs(g) == {j \in Job \ Gated : /\ GalleryOf[ItemOf[j]] = g
                                    /\ \A k \in Job : FollowUp[k] # j}
\* Faulty variant: every cancelled job of the item comes back.
AllCancelled(i) == {j \in Job : ItemOf[j] = i /\ status[j] = "CANCELLED"}
Resumable(i) == {j \in Job : /\ ItemOf[j] = i
                             /\ status[j] = "CANCELLED" /\ lastError[j] = "ITEM_EXCLUDED"}
Restore(i, P) ==
  LET back == Resumable(i)
      base == {j \in BaseJobs(GalleryOf[i]) : ItemOf[j] \in P \ (excluded \ {i})}
      new == {j \in base : status[j] = "ABSENT"}
      opened == back \cup new
  IN /\ Command
     /\ i \in excluded
     /\ excluded' = excluded \ {i}
     /\ status' = [j \in Job |-> IF j \in opened THEN "PENDING" ELSE status[j]]
     /\ notBefore' = [j \in Job |-> IF j \in opened THEN 0 ELSE notBefore[j]]
     /\ attempts' = [j \in Job |-> IF j \in back THEN 0 ELSE attempts[j]]
     /\ lastError' = [j \in Job |-> IF j \in back THEN "NONE" ELSE lastError[j]]
     /\ priority' = [j \in Job |-> IF j \in base THEN Higher(priority[j], ScanPriority)
                                   ELSE priority[j]]
     /\ IF opened = {} THEN UNCHANGED wake ELSE Signal
     /\ UNCHANGED <<owner, leaseLeft, switch, loops, history>>

------------------------------------------------------------------------------
\* The worker loop.

\* Faulty variant: the channel is taken once, outside the loop.
SnapshotOnce(w) ==
  /\ phase[w] = "loop"
  /\ phase' = [phase EXCEPT ![w] = "snapshot"]
  /\ UNCHANGED <<rows, switches, job, claimPriority, outcome, cut, wake, timer, bounds, history>>

\* The loop takes its snapshot of the wake-up channel before it looks for work.
Snapshot(w) ==
  /\ phase[w] = "loop"
  /\ phase' = [phase EXCEPT ![w] = "snapshot"]
  /\ wake' = wake \ {w}
  /\ UNCHANGED <<rows, switches, job, claimPriority, outcome, cut, timer, bounds, history>>

\* ClaimNext, seen with a clock that lags: expired leases are recovered whatever
\* their attempt count, then the best claimable row is leased.
\* Faulty variant: leases are recovered one tick early.
ExpiredEarly(lag) == {j \in Job : status[j] = "RUNNING" /\ leaseLeft[j] + lag <= 1}
Expired(lag) == {j \in Job : status[j] = "RUNNING" /\ leaseLeft[j] + lag <= 0}
Claimable(lag) == {j \in Job : /\ status[j] \in Ready \/ j \in Expired(lag)
                               /\ notBefore[j] + lag <= 0
                               /\ Enabled(j)}
Before(j, k) == priority[j] > priority[k] \/ (priority[j] = priority[k] /\ j <= k)

Claim(w, lag, j) ==
  /\ phase[w] = "snapshot"
  /\ j \in Claimable(lag) /\ \A k \in Claimable(lag) : Before(j, k)
  /\ status' = [k \in Job |-> IF k = j THEN "RUNNING"
                              ELSE IF k \in Expired(lag) THEN "PENDING" ELSE status[k]]
  /\ owner' = [k \in Job |-> IF k = j THEN w
                             ELSE IF k \in Expired(lag) THEN Nobody ELSE owner[k]]
  /\ leaseLeft' = [k \in Job |-> IF k = j THEN Lease - lag
                                 ELSE IF k \in Expired(lag) THEN 0 ELSE leaseLeft[k]]
  \* attempt_count + 1, saturated where the code no longer tells counts apart
  /\ attempts' = [attempts EXCEPT ![j] = IF @ < MaxAttempts THEN @ + 1 ELSE @]
  /\ phase' = [phase EXCEPT ![w] = "claimed"]
  /\ job' = [job EXCEPT ![w] = j]
  /\ claimPriority' = [claimPriority EXCEPT ![w] = priority[j]]
  /\ cut' = cut \ {w}
  /\ lost' = (lost \cup WorkingOn(Expired(lag))) \ {w}
  /\ promoted' = promoted \ {j}
  /\ Signal
  /\ UNCHANGED <<priority, notBefore, lastError, switches, outcome, timer, bounds,
                 ownerCancelled>>

\* No claimable row: the transaction rolls the recovery back, but the triggers
\* of the recovery have already closed the channel.
ClaimNothing(w, lag) ==
  /\ phase[w] = "snapshot"
  /\ Claimable(lag) = {}
  /\ phase' = [phase EXCEPT ![w] = "planning"]
  /\ IF Expired(lag) = {} THEN UNCHANGED wake ELSE Signal
  /\ UNCHANGED <<rows, switches, job, claimPriority, outcome, cut, timer, bounds, history>>

\* The claim ends with an error of the database, which may have come after the
\* triggers: the loop pauses, and no signal ends that pause.
ClaimFails(w) ==
  /\ phase[w] = "snapshot"
  /\ faults < MaxFaults /\ faults' = faults + 1
  /\ phase' = [phase EXCEPT ![w] = "pausing"]
  /\ timer' = [timer EXCEPT ![w] = ClaimErrorWait]
  /\ \/ UNCHANGED wake
     \/ Claimable(0) \cup Expired(0) # {} /\ Signal
  /\ UNCHANGED <<rows, switches, job, claimPriority, outcome, cut, commands, history>>

\* ProcessingNextWake and the wait it bounds: the earliest deadline of an enabled
\* ready row or of a lease, at most the recovery interval away, ...
Deadlines == {notBefore[j] : j \in {k \in Job : status[k] \in Ready /\ Enabled(k)}}
             \cup {leaseLeft[j] : j \in {k \in Job : status[k] = "RUNNING"}}
             \cup {Recovery}
SleepFor(d) == d \in Deadlines /\ \A e \in Deadlines : d <= e

\* ... but no shorter than MinWait, even when a row is due already.
FallAsleep(w) ==
  /\ phase[w] = "planning"
  /\ phase' = [phase EXCEPT ![w] = "asleep"]
  /\ \E d \in Deadlines : SleepFor(d) /\ timer' = [timer EXCEPT ![w] = Higher(d, MinWait)]
  /\ UNCHANGED <<rows, switches, job, claimPriority, outcome, cut, wake, bounds, history>>

\* ProcessingNextWake ends with an error: the wait knows of no deadline.
NextWakeFails(w) ==
  /\ phase[w] = "planning"
  /\ faults < MaxFaults /\ faults' = faults + 1
  /\ phase' = [phase EXCEPT ![w] = "dozing"]
  /\ timer' = [timer EXCEPT ![w] = QueryErrorWait]
  /\ UNCHANGED <<rows, switches, job, claimPriority, outcome, cut, wake, commands, history>>

WakeUp(w) ==
  /\ \/ phase[w] \in {"asleep", "dozing"} /\ w \in wake
     \/ phase[w] \in Waiting /\ timer[w] = 0
  /\ phase' = [phase EXCEPT ![w] = "loop"]
  /\ timer' = [timer EXCEPT ![w] = 0]
  /\ UNCHANGED <<rows, switches, job, claimPriority, outcome, cut, wake, bounds, history>>

\* Heartbeat: extends an unexpired lease of this owner's name, or cancels the
\* processing context and makes a failure of a success. Its clock is the tick of
\* a ticker, never older than the clock of the claim or of the beat before. It
\* stops when processing has returned; a success may still be overtaken.
Heartbeat(w, lag) ==
  /\ w \notin cut
  /\ phase[w] \in {"claimed", "working"} \/ (phase[w] = "recording" /\ outcome[w] = "ok")
  /\ IF Holds(w) /\ leaseLeft[job[w]] + lag > 0
       THEN /\ leaseLeft[job[w]] + lag <= Lease
            /\ leaseLeft' = [leaseLeft EXCEPT ![job[w]] = Lease - lag]
            /\ UNCHANGED <<cut, outcome>>
       ELSE /\ cut' = cut \cup {w}
            /\ outcome' = [outcome EXCEPT ![w] = IF @ = "ok" THEN "retry" ELSE @]
            /\ UNCHANGED leaseLeft
  /\ UNCHANGED <<status, attempts, priority, notBefore, owner, lastError, switches,
                 phase, job, claimPriority, wake, timer, bounds, history>>

\* Processing reads the switch and the item first: a disabled job is a failure
\* that may be retried, an excluded item is a structural one.
ReadItem(w) ==
  /\ phase[w] = "claimed"
  /\ LET seen == IF ~Enabled(job[w]) THEN "retry"
                 ELSE IF ItemOf[job[w]] \in excluded THEN "structural" ELSE "none"
     IN /\ outcome' = [outcome EXCEPT ![w] = seen]
        /\ phase' = [phase EXCEPT ![w] = IF seen = "none" THEN "working" ELSE "recording"]
  /\ UNCHANGED <<rows, switches, job, claimPriority, cut, wake, timer, bounds, history>>

\* Faulty variant: the probe forgets its follow-up.
SucceedAlone(w) ==
  /\ phase[w] = "working" /\ w \notin cut
  /\ outcome' = [outcome EXCEPT ![w] = "ok"]
  /\ phase' = [phase EXCEPT ![w] = "recording"]
  /\ UNCHANGED <<rows, switches, job, claimPriority, cut, wake, timer, bounds, history>>

\* Processing succeeds: the last thing a probe does is to enqueue its follow-up
\* with the priority of the row it claimed.
Succeed(w) ==
  LET f == FollowUp[job[w]] IN
  /\ phase[w] = "working" /\ w \notin cut
  /\ IF f = Nobody THEN UNCHANGED <<status, notBefore, priority, wake>>
     ELSE IF status[f] = "ABSENT" THEN Insert({f}, {}, claimPriority[w]) /\ Signal
     ELSE Insert({}, {f}, claimPriority[w]) /\ UNCHANGED wake
  /\ outcome' = [outcome EXCEPT ![w] = "ok"]
  /\ phase' = [phase EXCEPT ![w] = "recording"]
  /\ UNCHANGED <<attempts, owner, leaseLeft, lastError, switches, job, claimPriority,
                 cut, timer, bounds, history>>

\* Processing fails, or its context was cancelled by the heartbeat.
Err(w, kind) ==
  /\ phase[w] = "working"
  /\ outcome' = [outcome EXCEPT ![w] = kind]
  /\ phase' = [phase EXCEPT ![w] = "recording"]
  /\ UNCHANGED <<rows, switches, job, claimPriority, cut, wake, timer, bounds, history>>

\* Back to the top of the loop: the claimed row is forgotten.
NextRound(w) ==
  /\ phase' = [phase EXCEPT ![w] = "loop"]
  /\ job' = [job EXCEPT ![w] = Nobody]
  /\ claimPriority' = [claimPriority EXCEPT ![w] = 0]
  /\ outcome' = [outcome EXCEPT ![w] = "none"]
  /\ cut' = cut \ {w}
  /\ lost' = lost \ {w}

\* Complete, guarded by status and by the owner's name only.
Complete(w) ==
  /\ phase[w] = "recording" /\ outcome[w] = "ok"
  /\ Holds(w)
  /\ EndRow({job[w]}, "COMPLETED")
  /\ Signal
  /\ NextRound(w)
  /\ UNCHANGED <<attempts, priority, notBefore, lastError, switches, timer, bounds,
                 ownerCancelled, promoted>>

\* Fail: a retry while attempts remain, the terminal status otherwise.
\* Faulty variant: only structural failures are final.
StructuralOnly(w) == outcome[w] = "structural"
Final(w) == outcome[w] = "structural" \/ attempts[job[w]] >= MaxAttempts
Fail(w) ==
  LET j == job[w]
      final == Final(w)
  IN /\ phase[w] = "recording" /\ outcome[w] \in {"retry", "structural"}
     /\ Holds(w)
     /\ EndRow({j}, IF final THEN "FAILED" ELSE "RETRY_WAIT")
     /\ notBefore' = [notBefore EXCEPT ![j] = IF final THEN 0 ELSE Backoff[attempts[j]]]
     /\ lastError' = [lastError EXCEPT ![j] = "FAILURE"]
     /\ Signal
     /\ NextRound(w)
     /\ UNCHANGED <<attempts, priority, switches, timer, bounds, ownerCancelled, promoted>>

\* The transaction of Complete or Fail does not go through (a full disk, a locked
\* file): the loop moves on and the row keeps its lease until it runs out.
RecordError(w) ==
  /\ phase[w] = "recording"
  /\ faults < MaxFaults /\ faults' = faults + 1
  /\ NextRound(w)
  /\ UNCHANGED <<rows, switches, wake, timer, commands, ownerCancelled, promoted>>

\* ErrJobLeaseLost from Complete or Fail: the row is somebody else's business.
Refused(w) ==
  /\ phase[w] = "recording"
  /\ ~Holds(w)
  /\ NextRound(w)
  /\ UNCHANGED <<rows, switches, wake, timer, bounds, ownerCancelled, promoted>>

------------------------------------------------------------------------------
\* The environment.

\* A tick that lets the lease of a worker that is still at it run out is a
\* stall: the heartbeat, due every third of a lease, did not get through.
Stalls == \E w \in Worker : phase[w] \in Busy /\ Holds(w) /\ leaseLeft[job[w]] <= 1

Tick ==
  /\ IF Stalls THEN faults < MaxFaults /\ faults' = faults + 1 ELSE UNCHANGED faults
  /\ leaseLeft' = [j \in Job |-> IF status[j] = "RUNNING" /\ leaseLeft[j] > -MaxLag
                                   THEN leaseLeft[j] - 1 ELSE leaseLeft[j]]
  /\ notBefore' = [j \in Job |-> IF status[j] # "ABSENT" /\ notBefore[j] > -MaxLag
                                   THEN notBefore[j] - 1 ELSE notBefore[j]]
  /\ timer' = [w \in Worker |-> IF timer[w] > 0 THEN timer[w] - 1 ELSE 0]
  /\ UNCHANGED <<status, attempts, priority, owner, lastError, switches, phase, job,
                 claimPriority, outcome, cut, wake, commands, history>>

\* The process stops at any point, by a crash or by stopWorkers (whose cancelled
\* context makes the pending Complete or Fail fail), and starts again.
Restart ==
  /\ faults < MaxFaults /\ faults' = faults + 1
  /\ phase' = [w \in Worker |-> "loop"]
  /\ job' = [w \in Worker |-> Nobody]
  /\ claimPriority' = [w \in Worker |-> 0]
  /\ outcome' = [w \in Worker |-> "none"]
  /\ cut' = {} /\ wake' = {}
  /\ timer' = [w \in Worker |-> 0]
  /\ lost' = {}
  /\ UNCHANGED <<rows, switches, commands, ownerCancelled, promoted>>

------------------------------------------------------------------------------
Commands ==
  \/ \E j \in Job, p \in Priorities : Enqueue(j, p) \/ Requeue(j, p)
  \/ \E j \in Job : Cancel(j)
  \/ \E g \in Gallery : Prioritize(g)
  \/ \E i \in Item : Exclude(i) \/ \E P \in SUBSET Item : Restore(i, P)
  \/ SetEnabled

ClaimNext(w) ==
  \E lag \in 0..MaxLag : ClaimNothing(w, lag) \/ \E j \in Job : Claim(w, lag, j)
Process(w) == ReadItem(w) \/ Succeed(w) \/ Err(w, "retry") \/ Err(w, "structural")
Record(w) == Complete(w) \/ Fail(w) \/ Refused(w)
Step(w) == Snapshot(w) \/ ClaimNext(w) \/ FallAsleep(w) \/ WakeUp(w) \/ Process(w) \/ Record(w)
Beat(w) == \E lag \in 0..MaxLag : Heartbeat(w, lag)

Next ==
  \/ Commands
  \/ \E w \in Worker : Step(w) \/ Beat(w)
  \/ \E w \in Worker : ClaimFails(w) \/ NextWakeFails(w) \/ RecordError(w)
  \/ Tick \/ Restart

Spec == Init /\ [][Next]_vars

\* A running loop keeps taking its steps, heartbeats get through and time passes.
Fairness ==
  /\ \A w \in Worker : WF_vars(Step(w)) /\ WF_vars(Heartbeat(w, 0))
  /\ WF_vars(Tick)
FairSpec == Spec /\ Fairness

------------------------------------------------------------------------------
\* Properties.

\* The CHECK of the table: a row has an owner exactly while it is RUNNING, and
\* a row that is not RUNNING has no lease.
LeaseColumns ==
  \A j \in Job : /\ status[j] = "RUNNING" <=> owner[j] # Nobody
                 /\ status[j] # "RUNNING" => leaseLeft[j] = 0

\* The guard of Complete and Fail compares only the owner's name, and names are
\* used again for every job and after every restart. It is exact all the same:
\* it lets a worker through if and only if its own claim still stands.
FencedByName ==
  \A w \in Worker : phase[w] \in Busy => (Holds(w) <=> w \notin lost)

\* A cancel by the owner of the gallery is final: no scan, no exclusion and
\* restoration of the item and no worker brings the job back, only a requeue.
OwnerCancelIsFinal ==
  \A j \in ownerCancelled : status[j] = "CANCELLED"

\* A job is recorded as completed only after the job it calls for is in the
\* table: a crash between the two transactions cannot lose the follow-up.
FollowUpNotLost ==
  \A j \in Job : status[j] = "COMPLETED" /\ FollowUp[j] # Nobody
                   => status[FollowUp[j]] # "ABSENT"

\* A worker that waits without a signal while a row is due or a lease is over
\* does not wait for long: it looks again within the shortest wait, or, after an
\* error, within the wait for that error (backgroundWaitDuration, runWorkerLoop).
\* No command, heartbeat or claim makes work appear behind a sleeper's back.
Patience(w) == CASE phase[w] = "asleep" -> MinWait
                 [] phase[w] = "dozing" -> QueryErrorWait
                 [] OTHER -> ClaimErrorWait
NoOversleep ==
  \A w \in Worker : phase[w] \in Waiting /\ (w \notin wake \/ phase[w] = "pausing")
                      => Claimable(0) = {} \/ timer[w] <= Patience(w)

\* The most recent manual scan runs first: its promoted jobs stay above every
\* job of the other galleries until they are claimed.
LatestScanFirst ==
  \A j \in promoted, k \in Existing :
    GalleryOf[ItemOf[k]] # GalleryOf[ItemOf[j]] => priority[k] < priority[j]

\* A worker at work loses its row only when its lease has run out or when the
\* owner withdrew the job (cancel, exclusion): no claim by another worker, no
\* duplicate, requeue or restart of a scan takes a running job away.
TakenOnlyWhenLate ==
  [][\A w \in Worker : phase[w] \in Busy /\ Holds(w) /\ phase'[w] \in Busy /\ ~Holds(w)'
       => leaseLeft[job[w]] <= 0 \/ status'[job[w]] = "CANCELLED"]_vars

\* What makes the properties above inductive: a worker at work has a job; an
\* exclusion's mark is on cancelled rows only and never on a row the owner
\* cancelled; a success has its follow-up in the table; a claimed row is known
\* with a priority it still has or has risen above; promoted rows are above the
\* floor; a sleeper without a signal has no deadline before its timer, unless
\* that is at the shortest wait.
WorkersHaveJobs == \A w \in Worker : phase[w] \in Busy => job[w] \in Existing
MarksAreExclusions ==
  /\ \A j \in Job : lastError[j] = "ITEM_EXCLUDED" => status[j] = "CANCELLED"
  /\ \A j \in ownerCancelled : lastError[j] # "ITEM_EXCLUDED"
SuccessHasFollowUp ==
  \A w \in Worker : phase[w] = "recording" /\ outcome[w] = "ok" /\ FollowUp[job[w]] # Nobody
                      => FollowUp[job[w]] \in Existing
ClaimedPriorities ==
  /\ \A w \in Worker : phase[w] \in Busy => claimPriority[w] <= priority[job[w]]
  /\ \A j \in promoted : j \in Existing /\ priority[j] >= ManualFloor
AsleepCover ==
  \A w \in Worker : phase[w] = "asleep" /\ w \notin wake
                      => \A d \in Deadlines : timer[w] <= Higher(d, MinWait)
PausesEnd ==
  \A w \in Worker : phase[w] \in {"dozing", "pausing"} => timer[w] <= Patience(w)
TimersCover == AsleepCover /\ PausesEnd
Strengthening ==
  /\ LeaseColumns /\ WorkersHaveJobs /\ MarksAreExclusions
  /\ SuccessHasFollowUp /\ ClaimedPriorities /\ TimersCover

\* The queue implements the abstract lease: rows are the work, a worker holds a
\* row while its claim stands.
Abstract == INSTANCE WorkLease WITH
  Work <- Job, Holder <- Worker, Nobody <- Nobody,
  state <- [j \in Job |-> CASE status[j] = "ABSENT" -> "absent"
                            [] status[j] \in Active -> "open"
                            [] status[j] = "COMPLETED" -> "done"
                            [] status[j] = "FAILED" -> "failed"
                            [] OTHER -> "cancelled"],
  holder <- [j \in Job |-> IF \E w \in Worker : phase[w] \in Busy /\ job[w] = j /\ w \notin lost
                             THEN CHOOSE w \in Worker : phase[w] \in Busy /\ job[w] = j /\ w \notin lost
                             ELSE Nobody]
ImplementsWorkLease == Abstract!Spec

\* Every job that stays enabled is eventually settled: with finitely many
\* commands, restarts and stalls no job waits, runs or retries for ever.
EveryJobSettles ==
  \A j \in Job : status[j] \in Active ~> (status[j] \in Terminal \/ ~Enabled(j))

\* Disabled work must not cause busy waits: every worker loop comes to rest,
\* asleep with its channel open, again and again.
WorkersComeToRest ==
  \A w \in Worker : []<>(phase[w] = "asleep" /\ w \notin wake)
==============================================================================

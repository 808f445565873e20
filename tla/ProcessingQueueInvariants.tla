----------------------- MODULE ProcessingQueueInvariants -----------------------
(***************************************************************************)
(* More invariants of ProcessingQueue, for every set of jobs and workers:  *)
(* the order of manual scans, the follow-ups, the sleep of the workers,    *)
(* and the strengthening they rest on.  With them, the implementation of   *)
(* the abstract lease.                                                     *)
(***************************************************************************)
EXTENDS ProcessingQueueProofs

(* Steps of a worker that leave the table alone. *)
Aside(w) ==
  \/ Snapshot(w) \/ FallAsleep(w) \/ WakeUp(w)
  \/ \E lag \in 0..MaxLag : ClaimNothing(w, lag)
  \/ ReadItem(w) \/ Err(w, "retry") \/ Err(w, "structural")
  \/ Refused(w) \/ RecordError(w) \/ ClaimFails(w) \/ NextWakeFails(w)

LEMMA AsideKeepsRows ==
  ASSUME (\E w \in Worker : Aside(w)) \/ Restart \/ SetEnabled
  PROVE  UNCHANGED <<rows, promoted>>
<1>1. ASSUME NEW w \in Worker, Aside(w) PROVE UNCHANGED <<rows, promoted>>
  BY <1>1 DEF Aside, Snapshot, FallAsleep, WakeUp, ClaimNothing, ClaimFails, NextWakeFails,
              ReadItem, Err, Refused, RecordError,
              history
<1>2. CASE Restart
  BY <1>2 DEF Restart
<1>3. CASE SetEnabled
  BY <1>3 DEF SetEnabled, history
<1> QED BY <1>1, <1>2, <1>3

------------------------------------------------------------------------------
(* What happens to rows. *)

\* No row leaves the table, and no row in it loses priority.
LEMMA RowsStay ==
  ASSUME TypeOK, Next
  PROVE  \A k \in Existing : k \in Existing' /\ priority[k] <= priority'[k]
<1> USE DEF TypeOK, RowTypes, Existing, Active, Ready, Terminal
<1> DEFINE Stay == \A k \in Existing : k \in Existing' /\ priority[k] <= priority'[k]
<1>1. ASSUME NEW j \in Job, NEW p \in Priorities, Enqueue(j, p) PROVE Stay
  <2>1. p \in Nat /\ \A k \in Job : priority[k] \in Nat /\ priority[k] <= Higher(priority[k], p)
    <3>1. p \in Nat /\ MaxPriority \in Nat
      BY ConstantsAssumption DEF ConstantsAssumption
    <3> QED BY <3>1 DEF Higher
  <2>2. CASE status[j] = "ABSENT"
    BY <1>1, <2>1, <2>2 DEF Enqueue, Insert
  <2>3. CASE status[j] # "ABSENT"
    BY <1>1, <2>1, <2>3 DEF Enqueue, Insert
  <2> QED BY <2>2, <2>3
<1>2. ASSUME NEW j \in Job, NEW p \in Priorities, Requeue(j, p) PROVE Stay
  <2>1. p \in Nat /\ \A k \in Job : priority[k] \in Nat
    BY ConstantsAssumption DEF ConstantsAssumption
  <2>2. /\ status' = [status EXCEPT ![j] = "PENDING"]
        /\ priority' = [priority EXCEPT ![j] = Higher(@, p)]
    BY <1>2 DEF Requeue
  <2>3. \A k \in Job : priority'[k] = priority[k] \/ priority'[k] = Higher(priority[k], p)
    BY <2>2
  <2>4. \A k \in Existing : k \in Existing'
    BY <2>2
  <2> QED BY <2>1, <2>3, <2>4 DEF Higher
<1>3. ASSUME NEW j \in Job, Cancel(j) PROVE Stay
  BY <1>3 DEF Cancel, EndRow
<1>4. ASSUME NEW g \in Gallery, Prioritize(g) PROVE Stay
  BY <1>4, ConstantsAssumption DEF ConstantsAssumption, Prioritize, NextManualPriority, ManualSet
<1>5. ASSUME NEW i \in Item, Exclude(i) PROVE Stay
  BY <1>5 DEF Exclude, EndRow
<1>6. ASSUME NEW i \in Item, NEW P \in SUBSET Item, Restore(i, P) PROVE Stay
  BY <1>6, ConstantsAssumption DEF ConstantsAssumption, Restore, Higher
<1>7. ASSUME NEW w \in Worker, NEW lag \in 0..MaxLag, NEW j \in Job, Claim(w, lag, j) PROVE Stay
  BY <1>7 DEF Claim
<1>8. ASSUME NEW w \in Worker, NEW lag \in 0..MaxLag, Heartbeat(w, lag) PROVE Stay
  BY <1>8 DEF Heartbeat
<1>9. ASSUME NEW w \in Worker, Succeed(w) PROVE Stay
  <2>1. claimPriority[w] \in Nat
    BY ConstantsAssumption DEF ConstantsAssumption, LoopTypes
  <2> QED BY <1>9, <2>1 DEF Succeed, Insert, Higher, rows
<1>10. ASSUME NEW w \in Worker, Complete(w) PROVE Stay
  BY <1>10 DEF Complete, EndRow
<1>11. ASSUME NEW w \in Worker, Fail(w) PROVE Stay
  BY <1>11 DEF Fail, EndRow
<1>12. CASE Tick
  BY <1>12 DEF Tick
<1>13. CASE (\E w \in Worker : Aside(w)) \/ Restart \/ SetEnabled
  BY <1>13, AsideKeepsRows DEF rows
<1> QED
  BY <1>1, <1>2, <1>3, <1>4, <1>5, <1>6, <1>7, <1>8, <1>9, <1>10, <1>11, <1>12, <1>13
     DEF Next, Commands, Step, ClaimNext, Process, Record, Beat, Aside

\* The columns of a lease are set exactly while a row is RUNNING.
LEMMA ColumnsStep ==
  ASSUME TypeOK, LeaseColumns, Next
  PROVE  LeaseColumns'
<1> USE ConstantsAssumption DEF ConstantsAssumption, TypeOK, RowTypes, LeaseColumns, Active, Ready, Terminal
<1>1. ASSUME NEW j \in Job, NEW p \in Priorities, Enqueue(j, p) PROVE LeaseColumns'
  BY <1>1 DEF Enqueue, Insert
<1>2. ASSUME NEW j \in Job, NEW p \in Priorities, Requeue(j, p) PROVE LeaseColumns'
  BY <1>2 DEF Requeue
<1>3. ASSUME NEW j \in Job, Cancel(j) PROVE LeaseColumns'
  BY <1>3 DEF Cancel, EndRow
<1>4. ASSUME NEW g \in Gallery, Prioritize(g) PROVE LeaseColumns'
  BY <1>4 DEF Prioritize
<1>5. ASSUME NEW i \in Item, Exclude(i) PROVE LeaseColumns'
  BY <1>5 DEF Exclude, EndRow
<1>6. ASSUME NEW i \in Item, NEW P \in SUBSET Item, Restore(i, P) PROVE LeaseColumns'
  BY <1>6 DEF Restore, Resumable
<1>7. ASSUME NEW w \in Worker, NEW lag \in 0..MaxLag, NEW j \in Job, Claim(w, lag, j) PROVE LeaseColumns'
  BY <1>7 DEF Claim
<1>8. ASSUME NEW w \in Worker, NEW lag \in 0..MaxLag, Heartbeat(w, lag) PROVE LeaseColumns'
  BY <1>8 DEF Heartbeat, Holds
<1>9. ASSUME NEW w \in Worker, Succeed(w) PROVE LeaseColumns'
  BY <1>9 DEF Succeed, Insert
<1>10. ASSUME NEW w \in Worker, Complete(w) PROVE LeaseColumns'
  BY <1>10 DEF Complete, EndRow
<1>11. ASSUME NEW w \in Worker, Fail(w) PROVE LeaseColumns'
  BY <1>11 DEF Fail, EndRow
<1>12. CASE Tick
  BY <1>12 DEF Tick
<1>13. CASE (\E w \in Worker : Aside(w)) \/ Restart \/ SetEnabled
  BY <1>13, AsideKeepsRows DEF rows
<1> QED
  BY <1>1, <1>2, <1>3, <1>4, <1>5, <1>6, <1>7, <1>8, <1>9, <1>10, <1>11, <1>12, <1>13
     DEF Next, Commands, Step, ClaimNext, Process, Record, Beat, Aside

------------------------------------------------------------------------------
(* Follow-ups. *)

\* A success is recorded after its follow-up is in the table, and a completed job
\* has been a success.
LEMMA FollowUpStep ==
  ASSUME TypeOK, WorkersHaveJobs, SuccessHasFollowUp, FollowUpNotLost, Next
  PROVE  (SuccessHasFollowUp /\ FollowUpNotLost)'
<1> DEFINE Goal == SuccessHasFollowUp' /\ FollowUpNotLost'
<1>0. \A k \in Job : k \in Existing => k \in Existing'
  BY RowsStay
<1>a. \A k \in Job : FollowUp[k] \in Job \cup {Nobody}
  BY ConstantsAssumption DEF ConstantsAssumption
<1>b. /\ status \in [Job -> Status] /\ phase \in [Worker -> Phase] /\ outcome \in [Worker -> Outcome]
      /\ job \in [Worker -> Job \cup {Nobody}]
  BY DEF TypeOK, RowTypes, LoopTypes
\* No new completion, and no new success.
<1>c. ASSUME \A k \in Job : status'[k] = "COMPLETED" => status[k] = "COMPLETED",
             \A w \in Worker : phase'[w] = "recording" /\ outcome'[w] = "ok"
                               => phase[w] = "recording" /\ outcome[w] = "ok" /\ job'[w] = job[w]
      PROVE  Goal
  BY <1>0, <1>a, <1>c DEF SuccessHasFollowUp, FollowUpNotLost, Existing
<1> USE <1>b DEF Phase, Outcome, Busy, Status, Active, Ready, Terminal
<1>1. ASSUME NEW j \in Job, NEW p \in Priorities, Enqueue(j, p) PROVE Goal
  BY <1>1, <1>c DEF Enqueue, Insert, loops
<1>2. ASSUME NEW j \in Job, NEW p \in Priorities, Requeue(j, p) PROVE Goal
  BY <1>2, <1>c DEF Requeue, loops
<1>3. ASSUME NEW j \in Job, Cancel(j) PROVE Goal
  BY <1>3, <1>c DEF Cancel, EndRow, loops
<1>4. ASSUME NEW g \in Gallery, Prioritize(g) PROVE Goal
  BY <1>4, <1>c DEF Prioritize, loops
<1>5. ASSUME NEW i \in Item, Exclude(i) PROVE Goal
  BY <1>5, <1>c DEF Exclude, EndRow, loops
<1>6. ASSUME NEW i \in Item, NEW P \in SUBSET Item, Restore(i, P) PROVE Goal
  BY <1>6, <1>c DEF Restore, loops
<1>7. ASSUME NEW w \in Worker, NEW lag \in 0..MaxLag, NEW j \in Job, Claim(w, lag, j) PROVE Goal
  BY <1>7, <1>c DEF Claim
<1>8. ASSUME NEW w \in Worker, NEW lag \in 0..MaxLag, Heartbeat(w, lag) PROVE Goal
  BY <1>8, <1>c DEF Heartbeat
<1>9. ASSUME NEW w \in Worker, Succeed(w) PROVE Goal
  <2>1. \A k \in Job : status'[k] = "COMPLETED" => status[k] = "COMPLETED"
    BY <1>9 DEF Succeed, Insert
  <2>2. FollowUp[job[w]] # Nobody => FollowUp[job[w]] \in Existing'
    <3>1. job[w] \in Job
      BY <1>9 DEF Succeed, WorkersHaveJobs, Existing
    <3> QED BY <1>9, <1>0, <1>a, <3>1 DEF Succeed, Insert, Existing
  <2> QED BY <1>9, <1>0, <1>a, <2>1, <2>2 DEF Succeed, SuccessHasFollowUp, FollowUpNotLost, Existing
<1>10. ASSUME NEW w \in Worker, Complete(w) PROVE Goal
  <2>1. \A k \in Job : status'[k] = "COMPLETED" => status[k] = "COMPLETED" \/ k = job[w]
    BY <1>10 DEF Complete, EndRow
  <2>2. FollowUp[job[w]] # Nobody => FollowUp[job[w]] \in Existing'
    BY <1>10, <1>0 DEF Complete, SuccessHasFollowUp, Existing
  <2>3. \A x \in Worker : phase'[x] = "recording" /\ outcome'[x] = "ok"
                          => phase[x] = "recording" /\ outcome[x] = "ok" /\ job'[x] = job[x]
    BY <1>10 DEF Complete, NextRound
  <2> QED BY <1>0, <1>a, <2>1, <2>2, <2>3 DEF SuccessHasFollowUp, FollowUpNotLost, Existing
<1>11. ASSUME NEW w \in Worker, Fail(w) PROVE Goal
  BY <1>11, <1>c DEF Fail, EndRow, NextRound
<1>12. CASE Tick
  BY <1>12, <1>c DEF Tick
<1>13. CASE SetEnabled
  BY <1>13, <1>c DEF SetEnabled, rows, loops
<1>14. CASE Restart
  BY <1>14, <1>c DEF Restart, rows
<1>15. ASSUME NEW w \in Worker, Aside(w) PROVE Goal
  <2>1. \A k \in Job : status'[k] = "COMPLETED" => status[k] = "COMPLETED"
    BY <1>15, AsideKeepsRows DEF rows
  <2>2. \A x \in Worker : phase'[x] = "recording" /\ outcome'[x] = "ok"
                          => phase[x] = "recording" /\ outcome[x] = "ok" /\ job'[x] = job[x]
    BY <1>15 DEF Aside, Snapshot, FallAsleep, WakeUp, ClaimNothing, ClaimFails, NextWakeFails,
              ReadItem, Err, Refused, RecordError, NextRound
  <2> QED BY <1>c, <2>1, <2>2
<1> QED
  BY <1>1, <1>2, <1>3, <1>4, <1>5, <1>6, <1>7, <1>8, <1>9, <1>10, <1>11, <1>12, <1>13, <1>14, <1>15
     DEF Next, Commands, Step, ClaimNext, Process, Record, Beat, Aside

------------------------------------------------------------------------------
(* Sleep. *)

\* While no signal has come, no deadline before a sleeper's timer appears: what
\* makes a row due earlier signals, and a heartbeat only puts a lease off.
LEMMA AsleepStep ==
  ASSUME TypeOK, AsleepCover, Next
  PROVE  AsleepCover'
<1> DEFINE Sleeps(w) == phase[w] = "asleep" /\ w \notin wake
<1>b. /\ status \in [Job -> Status] /\ notBefore \in [Job -> Int] /\ leaseLeft \in [Job -> Int]
      /\ phase \in [Worker -> Phase] /\ timer \in [Worker -> Nat]
      /\ Recovery \in Nat /\ MaxLag \in Nat /\ MinWait \in Nat
  BY ConstantsAssumption DEF ConstantsAssumption, TypeOK, RowTypes, LoopTypes
\* All are woken.
<1>c. ASSUME wake' = Worker PROVE AsleepCover'
  BY <1>c DEF AsleepCover
\* The same sleepers, and the deadlines do not move.
<1>d. ASSUME \A w \in Worker : Sleeps(w)' => Sleeps(w) /\ timer'[w] = timer[w],
             \A j \in Job : /\ status'[j] \in Ready <=> status[j] \in Ready
                            /\ status'[j] = "RUNNING" <=> status[j] = "RUNNING"
                            /\ status[j] \in Ready => notBefore'[j] = notBefore[j]
                            /\ status[j] = "RUNNING" => leaseLeft'[j] = leaseLeft[j],
             switch' = switch
      PROVE  AsleepCover'
  <2>1. \A j \in Job : Enabled(j)' <=> Enabled(j)
    BY <1>d DEF Enabled
  <2>2. Deadlines' = Deadlines
    BY <1>d, <2>1 DEF Deadlines
  <2> QED BY <1>d, <2>2 DEF AsleepCover
<1> USE <1>b DEF Phase, Busy, Waiting, Status, Active, Ready, Terminal, Signal
<1>1. ASSUME NEW j \in Job, NEW p \in Priorities, Enqueue(j, p) PROVE AsleepCover'
  <2>1. CASE status[j] = "ABSENT"
    BY <1>1, <1>c, <2>1 DEF Enqueue
  <2>2. CASE status[j] # "ABSENT"
    BY <1>1, <1>d, <2>2 DEF Enqueue, Insert, loops, switches
  <2> QED BY <2>1, <2>2
<1>2. CASE \/ \E j \in Job : Cancel(j) \/ \E p \in Priorities : Requeue(j, p)
           \/ SetEnabled
           \/ \E w \in Worker : Complete(w) \/ Fail(w) \/ \E lag \in 0..MaxLag, j \in Job : Claim(w, lag, j)
  BY <1>2, <1>c DEF Cancel, Requeue, SetEnabled, Complete, Fail, Claim
<1>3. ASSUME NEW g \in Gallery, Prioritize(g) PROVE AsleepCover'
  BY <1>3, <1>d DEF Prioritize, loops, switches
<1>4. ASSUME NEW i \in Item, Exclude(i) PROVE AsleepCover'
  <2> DEFINE S == {j \in Job : ItemOf[j] = i /\ status[j] \in Active}
  <2>1. CASE S = {}
    BY <1>4, <1>d, <2>1 DEF Exclude, EndRow, loops
  <2>2. CASE S # {}
    BY <1>4, <1>c, <2>2 DEF Exclude
  <2> QED BY <2>1, <2>2
<1>5. ASSUME NEW i \in Item, NEW P \in SUBSET Item, Restore(i, P) PROVE AsleepCover'
  <2>1. CASE wake' = Worker
    BY <1>c, <2>1
  <2>2. CASE wake' # Worker
    <3>1. /\ wake' = wake /\ UNCHANGED <<leaseLeft, switch, loops>>
          /\ \A j \in Job : status'[j] = status[j] /\ notBefore'[j] = notBefore[j]
      BY <1>5, <2>2 DEF Restore
    <3> QED BY <1>d, <3>1 DEF loops
  <2> QED BY <2>1, <2>2
<1>6. ASSUME NEW w \in Worker, NEW lag \in 0..MaxLag, Heartbeat(w, lag) PROVE AsleepCover'
  <2> SUFFICES ASSUME NEW x \in Worker, Sleeps(x)', NEW d \in Deadlines' PROVE timer'[x] <= Higher(d, MinWait)
    BY DEF AsleepCover
  <2>1. /\ Sleeps(x) /\ timer'[x] = timer[x]
        /\ UNCHANGED <<status, notBefore, switch>>
    BY <1>6 DEF Heartbeat, switches
  <2>2. \A j \in Job : leaseLeft'[j] >= leaseLeft[j] /\ leaseLeft'[j] \in Int
    <3>1. Lease \in Int
      BY ConstantsAssumption DEF ConstantsAssumption
    <3> QED BY <1>6, <3>1 DEF Heartbeat
  <2>3. \A e \in Deadlines : timer[x] <= Higher(e, MinWait)
    BY <2>1 DEF AsleepCover
  <2>4. CASE \E j \in Job : status[j] = "RUNNING" /\ d = leaseLeft'[j]
    <3>1. PICK j \in Job : status[j] = "RUNNING" /\ d = leaseLeft'[j]
      BY <2>4
    <3>2. leaseLeft[j] \in Deadlines /\ leaseLeft[j] \in Int /\ timer[x] \in Int
      BY <3>1 DEF Deadlines
    <3> QED BY <2>1, <2>2, <2>3, <3>1, <3>2 DEF Higher
  <2>5. CASE d = Recovery \/ \E j \in Job : status[j] \in Ready /\ Enabled(j) /\ d = notBefore[j]
    BY <2>1, <2>3, <2>5 DEF Deadlines
  <2>6. \A j \in Job : Enabled(j)' <=> Enabled(j)
    BY <2>1 DEF Enabled
  <2> QED BY <2>1, <2>4, <2>5, <2>6 DEF Deadlines
<1>7. ASSUME NEW w \in Worker, Succeed(w) PROVE AsleepCover'
  <2>1. CASE wake' = Worker
    BY <1>c, <2>1
  <2>2. CASE wake' # Worker
    <3>1. /\ wake' = wake /\ UNCHANGED <<leaseLeft, switch, timer>>
          /\ \A j \in Job : status'[j] = status[j] /\ notBefore'[j] = notBefore[j]
          /\ phase' = [phase EXCEPT ![w] = "recording"]
      BY <1>7, <2>2 DEF Succeed, Insert, switches
    <3> QED BY <1>d, <3>1
  <2> QED BY <2>1, <2>2
<1>8. CASE Tick
  <2> SUFFICES ASSUME NEW x \in Worker, Sleeps(x)', NEW d \in Deadlines' PROVE timer'[x] <= Higher(d, MinWait)
    BY DEF AsleepCover
  <2>1. /\ Sleeps(x) /\ timer'[x] = IF timer[x] > 0 THEN timer[x] - 1 ELSE 0
        /\ UNCHANGED <<status, switch>>
    BY <1>8 DEF Tick, switches
  <2>2. \A e \in Deadlines : timer[x] <= Higher(e, MinWait)
    BY <2>1 DEF AsleepCover
  <2>3. \A j \in Job : /\ status[j] = "RUNNING" => leaseLeft'[j] >= leaseLeft[j] - 1 /\ leaseLeft'[j] \in Int
                       /\ notBefore'[j] >= notBefore[j] - 1 /\ notBefore'[j] \in Int
    BY <1>8 DEF Tick
  <2>4. \A j \in Job : Enabled(j)' <=> Enabled(j)
    BY <2>1 DEF Enabled
  <2>5. timer[x] \in Int
    OBVIOUS
  <2>6. CASE \E j \in Job : status[j] = "RUNNING" /\ d = leaseLeft'[j]
    <3>1. PICK j \in Job : status[j] = "RUNNING" /\ d = leaseLeft'[j]
      BY <2>6
    <3>2. leaseLeft[j] \in Deadlines /\ leaseLeft[j] \in Int
      BY <3>1 DEF Deadlines
    <3> QED BY <2>1, <2>2, <2>3, <2>5, <3>1, <3>2 DEF Higher
  <2>7. CASE \E j \in Job : status[j] \in Ready /\ Enabled(j) /\ d = notBefore'[j]
    <3>1. PICK j \in Job : status[j] \in Ready /\ Enabled(j) /\ d = notBefore'[j]
      BY <2>7
    <3>2. notBefore[j] \in Deadlines /\ notBefore[j] \in Int
      BY <3>1 DEF Deadlines
    <3> QED BY <2>1, <2>2, <2>3, <2>5, <3>1, <3>2 DEF Higher
  <2>8. CASE d = Recovery
    <3>1. Recovery \in Deadlines
      BY DEF Deadlines
    <3> QED BY <2>1, <2>2, <2>5, <2>8, <3>1 DEF Higher
  <2> QED BY <2>1, <2>4, <2>6, <2>7, <2>8 DEF Deadlines
<1>9. CASE Restart
  BY <1>9 DEF Restart, AsleepCover
<1>10. ASSUME NEW w \in Worker, FallAsleep(w) PROVE AsleepCover'
  <2> SUFFICES ASSUME NEW x \in Worker, Sleeps(x)', NEW e \in Deadlines' PROVE timer'[x] <= Higher(e, MinWait)
    BY DEF AsleepCover
  <2>1. Deadlines' = Deadlines /\ wake' = wake
    BY <1>10 DEF FallAsleep, rows, switches, Deadlines, Enabled
  <2>2. CASE x # w
    BY <1>10, <2>1, <2>2 DEF FallAsleep, AsleepCover
  <2>3. CASE x = w
    <3>1. PICK d \in Deadlines : SleepFor(d) /\ timer' = [timer EXCEPT ![w] = Higher(d, MinWait)]
      BY <1>10 DEF FallAsleep
    <3>2. d \in Int
      BY DEF Deadlines
    <3> QED BY <2>1, <2>3, <3>1, <3>2 DEF SleepFor, Higher
  <2> QED BY <2>2, <2>3
<1>11. ASSUME NEW w \in Worker, Aside(w), ~FallAsleep(w) PROVE AsleepCover'
  <2>1. CASE wake' = Worker
    BY <1>c, <2>1
  <2>2. CASE wake' # Worker
    <3>1. \A x \in Worker : Sleeps(x)' => Sleeps(x) /\ timer'[x] = timer[x]
      BY <1>11, <2>2 DEF Aside, Snapshot, WakeUp, ClaimNothing, ClaimFails, NextWakeFails,
              ReadItem, Err, Refused, RecordError,
                         NextRound
    <3>2. switch' = switch
      BY <1>11 DEF Aside, Snapshot, WakeUp, ClaimNothing, ClaimFails, NextWakeFails,
              ReadItem, Err, Refused, RecordError, switches
    <3> QED BY <1>11, <1>d, <3>1, <3>2, AsideKeepsRows DEF rows
  <2> QED BY <2>1, <2>2
<1> QED
  BY <1>1, <1>2, <1>3, <1>4, <1>5, <1>6, <1>7, <1>8, <1>9, <1>10, <1>11
     DEF Next, Commands, Step, ClaimNext, Process, Record, Beat, Aside

\* A pause after an error starts with its whole length and only gets shorter.
LEMMA PausesStep ==
  ASSUME TypeOK, PausesEnd, Next
  PROVE  PausesEnd'
<1> DEFINE Pauses(w) == phase[w] \in {"dozing", "pausing"}
<1>b. /\ phase \in [Worker -> Phase] /\ timer \in [Worker -> Nat]
      /\ MinWait \in Nat /\ QueryErrorWait \in Nat /\ ClaimErrorWait \in Nat
  BY ConstantsAssumption DEF ConstantsAssumption, TypeOK, LoopTypes
<1>c. ASSUME \A w \in Worker : Pauses(w)' => /\ Pauses(w) /\ phase'[w] = phase[w]
                                           /\ timer'[w] = timer[w]
      PROVE  PausesEnd'
  BY <1>c DEF PausesEnd, Patience
<1> USE <1>b DEF Phase, Busy, Waiting
<1>1. CASE Commands
  BY <1>1, <1>c DEF Commands, Enqueue, Requeue, Cancel, Prioritize, Exclude, Restore, SetEnabled, loops
<1>2. ASSUME NEW w \in Worker, Step(w) \/ Beat(w) \/ RecordError(w) PROVE PausesEnd'
  <2>1. CASE Snapshot(w) \/ FallAsleep(w) \/ WakeUp(w) \/ Process(w)
    BY <1>c, <2>1 DEF Snapshot, FallAsleep, WakeUp, Process, ReadItem, Succeed, Err
  <2>2. CASE ClaimNext(w) \/ Beat(w)
    BY <1>c, <2>2 DEF ClaimNext, ClaimNothing, Claim, Beat, Heartbeat
  <2>3. CASE Record(w) \/ RecordError(w)
    BY <1>c, <2>3 DEF Record, Complete, Fail, Refused, RecordError, NextRound
  <2> QED BY <1>2, <2>1, <2>2, <2>3 DEF Step
<1>3. ASSUME NEW w \in Worker, ClaimFails(w) \/ NextWakeFails(w) PROVE PausesEnd'
  BY <1>3 DEF ClaimFails, NextWakeFails, PausesEnd, Patience
<1>4. CASE Tick
  <2>1. \A w \in Worker : phase'[w] = phase[w] /\ timer'[w] <= timer[w] /\ timer'[w] \in Nat
    BY <1>4 DEF Tick
  <2> QED BY <2>1 DEF PausesEnd, Patience
<1>5. CASE Restart
  BY <1>5 DEF Restart, PausesEnd
<1> QED BY <1>1, <1>2, <1>3, <1>4, <1>5 DEF Next

LEMMA TimersStep ==
  ASSUME TypeOK, TimersCover, Next
  PROVE  TimersCover'
BY AsleepStep, PausesStep DEF TimersCover

\* A sleeper whose timer is covered has nothing to do before the shortest wait ends.
LEMMA CoveredSleep == TypeOK /\ TimersCover => NoOversleep
<1> SUFFICES ASSUME TypeOK, TimersCover, NEW w \in Worker, phase[w] \in Waiting,
                    w \notin wake \/ phase[w] = "pausing", NEW j \in Claimable(0)
             PROVE  timer[w] <= Patience(w)
  BY DEF NoOversleep
<1>1. CASE phase[w] \in {"dozing", "pausing"}
  BY <1>1 DEF TimersCover, PausesEnd
<1>2. CASE phase[w] = "asleep"
  <2>1. /\ timer[w] \in Nat /\ MinWait \in Nat
        /\ j \in Job /\ notBefore[j] \in Int /\ leaseLeft[j] \in Int
    BY ConstantsAssumption DEF ConstantsAssumption, TypeOK, RowTypes, LoopTypes, Claimable
  <2>2. \A d \in Deadlines : timer[w] <= Higher(d, MinWait)
    BY <1>2 DEF TimersCover, AsleepCover
  <2>3. \E d \in Deadlines : d \in Int /\ d <= 0
    <3>1. CASE status[j] \in Ready
      BY <2>1, <3>1 DEF Claimable, Deadlines
    <3>2. CASE j \in Expired(0)
      BY <2>1, <3>2 DEF Expired, Deadlines
    <3> QED BY <3>1, <3>2 DEF Claimable
  <2>4. timer[w] <= MinWait
    BY <2>1, <2>2, <2>3 DEF Higher
  <2> QED BY <1>2, <2>4 DEF Patience
<1> QED BY <1>1, <1>2 DEF Waiting

------------------------------------------------------------------------------
(* Priorities. *)

\* A claimed row is known with a priority it still has or has risen above, and
\* promoted rows are above the floor.
LEMMA PrioritiesStep ==
  ASSUME TypeOK, WorkersHaveJobs, ClaimedPriorities, Next
  PROVE  ClaimedPriorities'
<1>0. \A k \in Existing : k \in Existing' /\ priority[k] <= priority'[k]
  BY RowsStay
<1>b. /\ priority \in [Job -> 0..MaxPriority] /\ priority' \in [Job -> 0..MaxPriority]
      /\ claimPriority \in [Worker -> 0..MaxPriority]
      /\ phase \in [Worker -> Phase] /\ job \in [Worker -> Job \cup {Nobody}]
      /\ status \in [Job -> Status] /\ promoted \subseteq Job
      /\ MaxPriority \in Nat /\ ManualFloor \in Nat
  BY TypeStep, ConstantsAssumption
     DEF ConstantsAssumption, TypeOK, RowTypes, LoopTypes, OtherTypes
\* No other claim, nothing new promoted.
<1>c. ASSUME \A w \in Worker : phase'[w] \in Busy =>
                 phase[w] \in Busy /\ job'[w] = job[w] /\ claimPriority'[w] = claimPriority[w],
             promoted' \subseteq promoted
      PROVE  ClaimedPriorities'
  <2>1. ASSUME NEW w \in Worker, phase'[w] \in Busy PROVE claimPriority'[w] <= priority'[job'[w]]
    <3>1. job[w] \in Existing /\ claimPriority[w] <= priority[job[w]]
      BY <1>c, <2>1 DEF WorkersHaveJobs, ClaimedPriorities
    <3>2. job[w] \in Job /\ priority[job[w]] <= priority'[job[w]]
      BY <1>0, <3>1 DEF Existing
    <3> QED BY <1>b, <1>c, <2>1, <3>1, <3>2
  <2>2. ASSUME NEW j \in promoted' PROVE j \in Existing' /\ priority'[j] >= ManualFloor
    BY <1>0, <1>b, <1>c, <2>2 DEF ClaimedPriorities
  <2> QED BY <2>1, <2>2 DEF ClaimedPriorities
<1> USE <1>b DEF Phase, Busy, Waiting, Status, Active, Ready, Terminal
<1>1. CASE \/ \E j \in Job, p \in Priorities : Enqueue(j, p) \/ Requeue(j, p)
           \/ \E j \in Job : Cancel(j)
           \/ \E i \in Item : Exclude(i) \/ \E P \in SUBSET Item : Restore(i, P)
           \/ SetEnabled \/ Tick
  BY <1>1, <1>c DEF Enqueue, Requeue, Cancel, Exclude, Restore, SetEnabled, Tick, loops, history
<1>2. ASSUME NEW g \in Gallery, Prioritize(g) PROVE ClaimedPriorities'
  <2>1. PICK p \in ManualFloor..MaxPriority :
          priority' = [j \in Job |-> IF j \in ManualSet(g) THEN p ELSE priority[j]]
    BY <1>2 DEF Prioritize
  <2>2. \A j \in promoted' : j \in Existing' /\ priority'[j] >= ManualFloor
    BY <1>2, <1>0, <2>1 DEF Prioritize, ManualSet, Existing
  <2>3. ASSUME NEW w \in Worker, phase'[w] \in Busy PROVE claimPriority'[w] <= priority'[job'[w]]
    <3>1. UNCHANGED <<phase, job, claimPriority>>
      BY <1>2 DEF Prioritize, loops
    <3>2. job[w] \in Existing /\ claimPriority[w] <= priority[job[w]]
      BY <2>3, <3>1 DEF WorkersHaveJobs, ClaimedPriorities
    <3>3. job[w] \in Job /\ priority[job[w]] <= priority'[job[w]]
      BY <1>0, <3>2 DEF Existing
    <3> QED BY <3>1, <3>2, <3>3
  <2> QED BY <2>2, <2>3 DEF ClaimedPriorities
<1>3. ASSUME NEW w \in Worker, NEW lag \in 0..MaxLag, NEW j \in Job, Claim(w, lag, j)
      PROVE  ClaimedPriorities'
  <2>1. /\ phase' = [phase EXCEPT ![w] = "claimed"] /\ job' = [job EXCEPT ![w] = j]
        /\ claimPriority' = [claimPriority EXCEPT ![w] = priority[j]]
        /\ priority' = priority /\ promoted' = promoted \ {j}
    BY <1>3 DEF Claim
  <2>2. \A k \in promoted' : k \in Existing' /\ priority'[k] >= ManualFloor
    BY <1>0, <2>1 DEF ClaimedPriorities
  <2>3. \A x \in Worker : phase'[x] \in Busy => claimPriority'[x] <= priority'[job'[x]]
    BY <2>1 DEF ClaimedPriorities
  <2> QED BY <2>2, <2>3 DEF ClaimedPriorities
<1>4. ASSUME NEW w \in Worker,
             \/ \E lag \in 0..MaxLag : Heartbeat(w, lag)
             \/ Succeed(w) \/ Complete(w) \/ Fail(w)
      PROVE  ClaimedPriorities'
  BY <1>4, <1>c DEF Heartbeat, Succeed, Complete, Fail, NextRound, history
<1>5. CASE Restart
  BY <1>5, <1>c DEF Restart
<1>6. ASSUME NEW w \in Worker, Aside(w) PROVE ClaimedPriorities'
  BY <1>6, <1>c DEF Aside, Snapshot, FallAsleep, WakeUp, ClaimNothing, ClaimFails, NextWakeFails,
              ReadItem, Err, Refused, RecordError, NextRound, history
<1> QED
  BY <1>1, <1>2, <1>3, <1>4, <1>5, <1>6
     DEF Next, Commands, Step, ClaimNext, Process, Record, Beat, Aside

\* A row that is not in the table has no priority.
AbsentPriority == \A j \in Job : status[j] = "ABSENT" => priority[j] = 0

LEMMA AbsentStep ==
  ASSUME TypeOK, WorkersHaveJobs, AbsentPriority, Next
  PROVE  AbsentPriority'
<1>b. status \in [Job -> Status] /\ priority \in [Job -> 0..MaxPriority]
  BY DEF TypeOK, RowTypes
<1>c. ASSUME \A k \in Job : status'[k] = "ABSENT" => status[k] = "ABSENT" /\ priority'[k] = priority[k]
      PROVE  AbsentPriority'
  BY <1>c DEF AbsentPriority
<1> USE <1>b DEF Status, Active, Ready, Terminal, Existing
<1>1. ASSUME NEW j \in Job, NEW p \in Priorities, Enqueue(j, p) PROVE AbsentPriority'
  BY <1>1, <1>c DEF Enqueue, Insert
<1>2. ASSUME NEW j \in Job, NEW p \in Priorities, Requeue(j, p) PROVE AbsentPriority'
  BY <1>2, <1>c DEF Requeue
<1>3. CASE \/ \E j \in Job : Cancel(j)
           \/ \E i \in Item : Exclude(i)
           \/ \E w \in Worker : Complete(w)
  BY <1>3, <1>c DEF Cancel, Exclude, Complete, EndRow
<1>4. ASSUME NEW g \in Gallery, Prioritize(g) PROVE AbsentPriority'
  BY <1>4, <1>c DEF Prioritize, ManualSet
<1>5. ASSUME NEW i \in Item, NEW P \in SUBSET Item, Restore(i, P) PROVE AbsentPriority'
  BY <1>5, <1>c DEF Restore
<1>6. ASSUME NEW w \in Worker, NEW lag \in 0..MaxLag, NEW j \in Job, Claim(w, lag, j)
      PROVE  AbsentPriority'
  BY <1>6, <1>c DEF Claim
<1>7. ASSUME NEW w \in Worker, Succeed(w) PROVE AbsentPriority'
  BY <1>7, <1>c DEF Succeed, Insert
<1>8. CASE Tick \/ \E w \in Worker, lag \in 0..MaxLag : Heartbeat(w, lag)
  BY <1>8, <1>c DEF Tick, Heartbeat
<1>9. ASSUME NEW w \in Worker, Fail(w) PROVE AbsentPriority'
  <2>1. priority' = priority /\ \E st \in {"FAILED", "RETRY_WAIT"} : EndRow({job[w]}, st)
    BY <1>9 DEF Fail
  <2> QED BY <1>c, <2>1 DEF EndRow
<1>10. CASE (\E w \in Worker : Aside(w)) \/ Restart \/ SetEnabled
  BY <1>10, <1>c, AsideKeepsRows DEF rows
<1> QED
  BY <1>1, <1>2, <1>3, <1>4, <1>5, <1>6, <1>7, <1>8, <1>9, <1>10
     DEF Next, Commands, Step, ClaimNext, Process, Record, Beat, Aside

\* What a step brings into the table or raises stays below the jobs promoted, or
\* is of a gallery with a claimed job that is.
LEMMA LatestScanStep ==
  ASSUME TypeOK, WorkersHaveJobs, ClaimedPriorities, AbsentPriority, LatestScanFirst, Next
  PROVE  LatestScanFirst'
<1>b. /\ priority \in [Job -> 0..MaxPriority] /\ priority' \in [Job -> 0..MaxPriority]
      /\ claimPriority \in [Worker -> 0..MaxPriority] /\ promoted \subseteq Job
      /\ status \in [Job -> Status] /\ phase \in [Worker -> Phase]
      /\ MaxPriority \in Nat /\ ManualFloor \in Nat
      /\ Priorities \subseteq Nat /\ ScanPriority \in Priorities
      /\ \A p \in Priorities : p < ManualFloor
  BY TypeStep, ConstantsAssumption
     DEF ConstantsAssumption, TypeOK, RowTypes, LoopTypes, OtherTypes
<1>0. \A j \in promoted : j \in Existing /\ priority[j] >= ManualFloor
  BY DEF ClaimedPriorities
<1>p. \A k \in Existing : k \in Existing' /\ priority[k] <= priority'[k]
  BY RowsStay
\* Rows have their priority, or one of those that callers use, or that of a claimed
\* row of their gallery.
<1>c. ASSUME promoted' \subseteq promoted,
             \A k \in Existing' :
               \/ k \in Existing /\ priority'[k] = priority[k]
               \/ priority'[k] \in Priorities
               \/ \E m \in Existing : /\ GalleryOf[ItemOf[m]] = GalleryOf[ItemOf[k]]
                                      /\ priority'[k] <= priority[m]
      PROVE  LatestScanFirst'
  <2> SUFFICES ASSUME NEW j \in promoted', NEW k \in Existing',
                      GalleryOf[ItemOf[k]] # GalleryOf[ItemOf[j]]
               PROVE  priority'[k] < priority'[j]
    BY DEF LatestScanFirst
  <2>1. /\ j \in promoted /\ j \in Job /\ k \in Job /\ priority[j] >= ManualFloor
        /\ priority[j] <= priority'[j]
    BY <1>0, <1>b, <1>p, <1>c DEF Existing
  <2>2. CASE k \in Existing /\ priority'[k] = priority[k]
    BY <1>b, <2>1, <2>2 DEF LatestScanFirst
  <2>3. CASE priority'[k] \in Priorities
    BY <1>b, <2>1, <2>3
  <2>4. ASSUME NEW m \in Existing, GalleryOf[ItemOf[m]] = GalleryOf[ItemOf[k]],
               priority'[k] <= priority[m]
        PROVE  priority'[k] < priority'[j]
    <3>1. priority[m] < priority[j] /\ m \in Job
      BY <2>1, <2>4 DEF LatestScanFirst, Existing
    <3> QED BY <1>b, <2>1, <2>4, <3>1
  <2> QED BY <1>c, <2>2, <2>3, <2>4
\* No new rows, and no row rises.
<1>d. ASSUME promoted' \subseteq promoted, priority' = priority,
             \A k \in Job : status[k] = "ABSENT" => status'[k] = "ABSENT"
      PROVE  LatestScanFirst'
  BY <1>c, <1>d DEF Existing
<1> USE <1>b DEF Status, Active, Ready, Terminal, Existing
<1>1. ASSUME NEW j \in Job, NEW p \in Priorities, Enqueue(j, p) PROVE LatestScanFirst'
  <2>1. \A k \in Existing' : (k \in Existing /\ priority'[k] = priority[k]) \/ priority'[k] = p
    BY <1>1 DEF Enqueue, Insert, Higher
  <2> QED BY <1>1, <1>c, <2>1 DEF Enqueue, history
<1>2. ASSUME NEW j \in Job, NEW p \in Priorities, Requeue(j, p) PROVE LatestScanFirst'
  <2>1. \A k \in Existing' : (k \in Existing /\ priority'[k] = priority[k]) \/ priority'[k] = p
    BY <1>2 DEF Requeue, Higher
  <2> QED BY <1>2, <1>c, <2>1 DEF Requeue
<1>3. ASSUME NEW i \in Item, NEW P \in SUBSET Item, Restore(i, P) PROVE LatestScanFirst'
  <2>1. \A k \in Existing' : \/ k \in Existing /\ priority'[k] = priority[k]
                             \/ priority'[k] = ScanPriority
    <3>1. \A k \in Job : priority'[k] = priority[k] \/ priority'[k] = ScanPriority
      BY <1>3 DEF Restore, Higher
    <3>2. ASSUME NEW k \in Existing', k \notin Existing PROVE priority'[k] = ScanPriority
      <4>1. k \in Job /\ status[k] = "ABSENT" /\ status'[k] # "ABSENT"
        BY <3>2
      <4>2. priority'[k] = Higher(priority[k], ScanPriority)
        BY <1>3, <4>1 DEF Restore, Resumable
      <4>3. priority[k] = 0 /\ ScanPriority \in Nat
        BY <4>1 DEF AbsentPriority
      <4> QED BY <4>2, <4>3 DEF Higher
    <3> QED BY <3>1, <3>2
  <2> QED BY <1>3, <1>c, <2>1 DEF Restore, history
<1>4. ASSUME NEW g \in Gallery, Prioritize(g) PROVE LatestScanFirst'
  <2>1. PICK p \in ManualFloor..MaxPriority :
          /\ NextManualPriority(p)
          /\ priority' = [j \in Job |-> IF j \in ManualSet(g) THEN p ELSE priority[j]]
    BY <1>4 DEF Prioritize
  <2>2. promoted' = ManualSet(g) /\ status' = status
    BY <1>4 DEF Prioritize
  <2> SUFFICES ASSUME NEW j \in ManualSet(g), NEW k \in Existing,
                      GalleryOf[ItemOf[k]] # GalleryOf[ItemOf[j]]
               PROVE  priority'[k] < priority'[j]
    BY <2>2 DEF LatestScanFirst
  <2>3. j \in Job /\ k \in Job /\ k \notin ManualSet(g) /\ priority[k] < p
    BY <2>1 DEF ManualSet, NextManualPriority
  <2> QED BY <2>1, <2>3
<1>5. ASSUME NEW w \in Worker, Succeed(w) PROVE LatestScanFirst'
  <2> DEFINE f == FollowUp[job[w]]
  <2>1. job[w] \in Existing /\ claimPriority[w] <= priority[job[w]]
    BY <1>5 DEF Succeed, Busy, WorkersHaveJobs, ClaimedPriorities
  <2>2. promoted' = promoted
    BY <1>5 DEF Succeed, history
  <2>3. CASE f = Nobody
    BY <1>5, <1>d, <2>2, <2>3 DEF Succeed
  <2>4. CASE f # Nobody
    <3>1. f \in Job /\ ItemOf[f] = ItemOf[job[w]]
      BY <2>1, <2>4, ConstantsAssumption, FollowUpAssumption DEF ConstantsAssumption
    <3>2. \A k \in Existing' : \/ k \in Existing /\ priority'[k] = priority[k]
                               \/ k = f /\ priority'[k] = claimPriority[w]
      BY <1>5, <2>4, <3>1 DEF Succeed, Insert, Higher
    <3>3. \A k \in Existing' : \/ k \in Existing /\ priority'[k] = priority[k]
                               \/ \E m \in Existing : /\ GalleryOf[ItemOf[m]] = GalleryOf[ItemOf[k]]
                                                      /\ priority'[k] <= priority[m]
      BY <2>1, <3>1, <3>2
    <3> QED BY <1>c, <2>2, <3>3
  <2> QED BY <2>3, <2>4
<1>6. CASE \/ \E j \in Job : Cancel(j)
           \/ \E i \in Item : Exclude(i)
  BY <1>6, <1>d DEF Cancel, Exclude, EndRow
<1>7. ASSUME NEW w \in Worker, NEW lag \in 0..MaxLag, NEW j \in Job, Claim(w, lag, j)
      PROVE  LatestScanFirst'
  BY <1>7, <1>d DEF Claim, Claimable, Expired
<1>8. ASSUME NEW w \in Worker, Complete(w) \/ Fail(w) PROVE LatestScanFirst'
  BY <1>8, <1>d DEF Complete, Fail, EndRow, Holds
<1>9. ASSUME NEW w \in Worker, NEW lag \in 0..MaxLag, Heartbeat(w, lag) PROVE LatestScanFirst'
  BY <1>9, <1>d DEF Heartbeat, history
<1>10. CASE Tick
  BY <1>10, <1>d DEF Tick, history
<1>11. CASE (\E w \in Worker : Aside(w)) \/ Restart \/ SetEnabled
  BY <1>11, <1>d, AsideKeepsRows DEF rows
<1> QED
  BY <1>1, <1>2, <1>3, <1>4, <1>5, <1>6, <1>7, <1>8, <1>9, <1>10, <1>11
     DEF Next, Commands, Step, ClaimNext, Process, Record, Beat, Aside

------------------------------------------------------------------------------
(* The theorems. *)

QueueIInv ==
  /\ TypeOK /\ WorkersHaveJobs /\ FencedByName
  /\ MarksAreExclusions /\ OwnerCancelIsFinal
  /\ LeaseColumns /\ SuccessHasFollowUp /\ FollowUpNotLost
  /\ ClaimedPriorities /\ AbsentPriority /\ LatestScanFirst /\ TimersCover

LEMMA QueueIInvInit == Init => QueueIInv
<1> SUFFICES ASSUME Init PROVE QueueIInv
  OBVIOUS
<1>1. TypeOK
  BY TypeInit
<1>2. \A w \in Worker : phase[w] = "loop"
  BY DEF Init
<1>3. \A j \in Job : status[j] = "ABSENT" /\ owner[j] = Nobody /\ leaseLeft[j] = 0
                          /\ lastError[j] = "NONE" /\ priority[j] = 0
  BY DEF Init
<1>4. ownerCancelled = {} /\ promoted = {}
  BY DEF Init
<1> QED
  BY <1>1, <1>2, <1>3, <1>4
     DEF QueueIInv, WorkersHaveJobs, FencedByName, MarksAreExclusions, OwnerCancelIsFinal,
         LeaseColumns, SuccessHasFollowUp, FollowUpNotLost, ClaimedPriorities, LatestScanFirst,
         AbsentPriority, TimersCover, AsleepCover, PausesEnd, Busy

LEMMA QueueIInvStep == QueueIInv /\ [Next]_vars => QueueIInv'
<1> SUFFICES ASSUME QueueIInv, [Next]_vars PROVE QueueIInv'
  OBVIOUS
<1>1. TypeOK'
  BY TypeStep DEF QueueIInv
<1>2. CASE Next
  BY <1>1, <1>2, WorkersStep, FencedStep, CancelStep, ColumnsStep, FollowUpStep, PrioritiesStep,
     AbsentStep, LatestScanStep, TimersStep DEF QueueIInv
<1>3. CASE UNCHANGED vars
  <2>1. Deadlines' = Deadlines
    BY <1>3 DEF vars, rows, switches, Deadlines, Enabled
  <2> QED
    BY <1>1, <1>3, <2>1
       DEF QueueIInv, vars, rows, switches, loops, history, WorkersHaveJobs, FencedByName, Holds,
           MarksAreExclusions, OwnerCancelIsFinal, LeaseColumns, SuccessHasFollowUp, FollowUpNotLost,
           ClaimedPriorities, AbsentPriority, LatestScanFirst, Existing,
           TimersCover, AsleepCover, PausesEnd, Patience
<1> QED BY <1>2, <1>3

LEMMA QueueIInvHolds == Spec => []QueueIInv
BY QueueIInvInit, QueueIInvStep, PTL DEF Spec

\* A completed job has its follow-up in the table, whatever crashes, cancels and
\* lost leases come between the two transactions of its worker.
THEOREM FollowUpsAreKept == Spec => []FollowUpNotLost
<1>1. QueueIInv => FollowUpNotLost
  BY DEF QueueIInv
<1> QED BY <1>1, QueueIInvHolds, PTL

\* A worker that waits without a signal beyond a due or expired row looks again
\* within the shortest wait, or within the wait that an error of the database has
\* set: every transaction that makes a row due earlier closes the channel.
THEOREM NobodyOversleeps == Spec => []NoOversleep
<1>1. QueueIInv => NoOversleep
  BY CoveredSleep DEF QueueIInv
<1> QED BY <1>1, QueueIInvHolds, PTL

\* The jobs of the latest manual scan stay above all of the other galleries until
\* they are claimed, whatever is enqueued, requeued or restored meanwhile.
THEOREM LatestScanStaysFirst == Spec => []LatestScanFirst
<1>1. QueueIInv => LatestScanFirst
  BY DEF QueueIInv
<1> QED BY <1>1, QueueIInvHolds, PTL

\* The columns of rows and the local variables of the loops agree: the conjuncts
\* that make the other invariants inductive.
THEOREM StrengtheningHolds == Spec => []Strengthening
<1>1. QueueIInv => Strengthening
  BY DEF QueueIInv, Strengthening
<1> QED BY <1>1, QueueIInvHolds, PTL

------------------------------------------------------------------------------
(* The queue implements WorkLease: each transaction is one step of the      *)
(* abstract lease or none.  And no step takes a row from a worker at work   *)
(* before its lease has run out.                                            *)

(* The refinement mapping, by row. *)

StateOf(j) == CASE status[j] = "ABSENT" -> "absent"
                [] status[j] \in Active -> "open"
                [] status[j] = "COMPLETED" -> "done"
                [] status[j] = "FAILED" -> "failed"
                [] OTHER -> "cancelled"
HeldBy(j) == IF \E w \in Worker : phase[w] \in Busy /\ job[w] = j /\ w \notin lost
               THEN CHOOSE w \in Worker : phase[w] \in Busy /\ job[w] = j /\ w \notin lost
               ELSE Nobody

\* Worker w holds row j in the abstract lease.
Stands(w, j) == phase[w] \in Busy /\ job[w] = j /\ w \notin lost

\* At most one worker stands on a row, so the choice is no choice.
Chosen == \A j \in Job : /\ HeldBy(j) \in Worker \cup {Nobody}
                         /\ \A w \in Worker : HeldBy(j) = w <=> Stands(w, j)

LEMMA OneHolder == FencedByName => Chosen
<1> SUFFICES ASSUME FencedByName, NEW j \in Job
             PROVE  /\ HeldBy(j) \in Worker \cup {Nobody}
                    /\ \A w \in Worker : HeldBy(j) = w <=> Stands(w, j)
  BY DEF Chosen
<1>1. \A w, x \in Worker : Stands(w, j) /\ Stands(x, j) => w = x
  BY DEF FencedByName, Holds, Stands
<1>2. CASE \E w \in Worker : Stands(w, j)
  <2>1. HeldBy(j) = CHOOSE w \in Worker : Stands(w, j)
    BY <1>2 DEF HeldBy, Stands
  <2>2. HeldBy(j) \in Worker /\ Stands(HeldBy(j), j)
    BY <1>2, <2>1
  <2> QED BY <1>1, <2>2
<1>3. CASE ~ \E w \in Worker : Stands(w, j)
  <2>1. HeldBy(j) = Nobody
    BY <1>3 DEF HeldBy, Stands
  <2> QED BY <1>3, <2>1, ConstantsAssumption DEF ConstantsAssumption
<1> QED BY <1>2, <1>3

LEMMA OneHolderNext == FencedByName' => Chosen'
BY OneHolder, PTL

(* The abstract steps, by row. *)

LEMMA Stutters ==
  ASSUME \A j \in Job : StateOf(j)' = StateOf(j) /\ HeldBy(j)' = HeldBy(j)
  PROVE  UNCHANGED Abstract!vars
BY DEF Abstract!vars, StateOf, HeldBy

LEMMA Opens ==
  ASSUME NEW S \in SUBSET Job, \A j \in S : StateOf(j) # "open",
         \A j \in Job : /\ StateOf(j)' = IF j \in S THEN "open" ELSE StateOf(j)
                        /\ HeldBy(j)' = HeldBy(j)
  PROVE  Abstract!Next
<1>1. Abstract!Open(S)
  BY DEF Abstract!Open, StateOf, HeldBy
<1> QED BY <1>1 DEF Abstract!Next

LEMMA Revokes ==
  ASSUME NEW R \in SUBSET Job,
         \A j \in Job : /\ StateOf(j)' = StateOf(j)
                        /\ HeldBy(j)' = IF j \in R THEN Nobody ELSE HeldBy(j)
  PROVE  Abstract!Next
<1>1. Abstract!Revoke(R)
  BY DEF Abstract!Revoke, StateOf, HeldBy
<1> QED BY <1>1 DEF Abstract!Next

LEMMA Withdraws ==
  ASSUME NEW S \in SUBSET Job, \A j \in S : StateOf(j) = "open",
         \A j \in Job : /\ StateOf(j)' = IF j \in S THEN "cancelled" ELSE StateOf(j)
                        /\ HeldBy(j)' = IF j \in S THEN Nobody ELSE HeldBy(j)
  PROVE  Abstract!Next
<1>1. Abstract!Withdraw(S)
  BY DEF Abstract!Withdraw, StateOf, HeldBy
<1> QED BY <1>1 DEF Abstract!Next

LEMMA Finishes ==
  ASSUME NEW i \in Job, NEW r \in {"done", "failed"},
         StateOf(i) = "open", HeldBy(i) # Nobody,
         \A j \in Job : /\ StateOf(j)' = IF j = i THEN r ELSE StateOf(j)
                        /\ HeldBy(j)' = IF j = i THEN Nobody ELSE HeldBy(j)
  PROVE  Abstract!Next
<1> DEFINE Rows == [j \in Job |-> StateOf(j)]
           Holders == [j \in Job |-> HeldBy(j)]
<1>1. /\ Rows' = [Rows EXCEPT ![i] = r]
      /\ Holders' = [Holders EXCEPT ![i] = Nobody]
      /\ Rows[i] = "open" /\ Holders[i] # Nobody
  OBVIOUS
<1>2. Abstract!Finish(i, r) <=> /\ Rows[i] = "open" /\ Holders[i] # Nobody
                                /\ r \in {"done", "failed"}
                                /\ Rows' = [Rows EXCEPT ![i] = r]
                                /\ Holders' = [Holders EXCEPT ![i] = Nobody]
  BY Zenon DEF Abstract!Finish, StateOf, HeldBy
<1> HIDE DEF Rows, Holders
<1>3. Abstract!Finish(i, r)
  BY <1>1, <1>2
<1> QED BY <1>3 DEF Abstract!Next

LEMMA Grants ==
  ASSUME NEW i \in Job, NEW w \in Worker, NEW R \in SUBSET Job,
         StateOf(i) = "open", i \in R \/ HeldBy(i) = Nobody,
         \A j \in Job \ R : HeldBy(j) # w,
         \A j \in Job : /\ StateOf(j)' = StateOf(j)
                        /\ HeldBy(j)' = IF j = i THEN w ELSE IF j \in R THEN Nobody ELSE HeldBy(j)
  PROVE  Abstract!Next
<1>1. Abstract!Grant(i, w, R)
  BY DEF Abstract!Grant, StateOf, HeldBy
<1> QED BY <1>1 DEF Abstract!Next

------------------------------------------------------------------------------
(* Every step of the queue. *)

\* Nobody stands on a row that is not RUNNING, and a worker stands on one row.
LEMMA StandsOnRunning ==
  ASSUME TypeOK, WorkersHaveJobs, FencedByName, NEW w \in Worker, NEW j \in Job, Stands(w, j)
  PROVE  Holds(w) /\ job[w] = j /\ status[j] = "RUNNING" /\ StateOf(j) = "open"
BY DEF Stands, FencedByName, Holds, StateOf, Active, Ready

LEMMA RefinementStep ==
  ASSUME QueueIInv, FencedByName', Next
  PROVE  Abstract!Next \/ UNCHANGED Abstract!vars
<1> DEFINE Goal == Abstract!Next \/ UNCHANGED Abstract!vars
<1>0. Chosen /\ Chosen'
  BY OneHolder, OneHolderNext DEF QueueIInv
<1>b. /\ status \in [Job -> Status] /\ phase \in [Worker -> Phase]
      /\ job \in [Worker -> Job \cup {Nobody}] /\ lost \subseteq Worker
      /\ \A j \in Job : FollowUp[j] \in Job \cup {Nobody}
      /\ Nobody \notin Worker
  BY ConstantsAssumption DEF ConstantsAssumption, QueueIInv, TypeOK, RowTypes, LoopTypes, OtherTypes
<1>i. TypeOK /\ WorkersHaveJobs /\ FencedByName
  BY DEF QueueIInv
\* The holder of a row follows who stands on it.
<1>h. \A j \in Job : /\ (\A w \in Worker : Stands(w, j)' <=> Stands(w, j)) => HeldBy(j)' = HeldBy(j)
                     /\ (\A w \in Worker : ~Stands(w, j)') => HeldBy(j)' = Nobody
  BY <1>0, <1>b DEF Chosen
<1>l. (\A w \in Worker : /\ phase'[w] \in Busy <=> phase[w] \in Busy
                         /\ phase[w] \in Busy => job'[w] = job[w]
                         /\ w \in lost' <=> w \in lost)
        => \A j \in Job : HeldBy(j)' = HeldBy(j)
  BY <1>h DEF Stands
\* The loops stay as they are; rows are opened or kept.
<1>o. ASSUME NEW S \in SUBSET Job, \A j \in S : status[j] \notin Active,
             \A j \in Job : /\ status'[j] \in Active <=> j \in S \/ status[j] \in Active
                            /\ status[j] \notin Active /\ j \notin S => status'[j] = status[j],
             \A w \in Worker : /\ phase'[w] \in Busy <=> phase[w] \in Busy
                               /\ phase[w] \in Busy => job'[w] = job[w]
                               /\ w \in lost' <=> w \in lost
      PROVE  Goal
  <2>1. \A j \in S : StateOf(j) # "open"
    BY <1>o DEF StateOf
  <2>2. \A j \in Job : StateOf(j)' = IF j \in S THEN "open" ELSE StateOf(j)
    BY <1>o DEF StateOf, Active, Ready
  <2>3. \A j \in Job : HeldBy(j)' = HeldBy(j)
    BY <1>o, <1>l
  <2> QED BY <2>1, <2>2, <2>3, Opens
\* Nothing a holder or a state depends on has changed.
<1>s. ASSUME status' = status,
             \A w \in Worker : /\ phase'[w] \in Busy <=> phase[w] \in Busy
                               /\ phase[w] \in Busy => job'[w] = job[w]
                               /\ w \in lost' <=> w \in lost
      PROVE  Goal
  BY <1>s, <1>l, Stutters DEF StateOf
\* Withdrawn rows.
<1>w. ASSUME NEW S \in SUBSET Job, \A j \in S : status[j] \in Active,
             EndRow(S, "CANCELLED"), LoseClaims(S), UNCHANGED loops
      PROVE  Goal
  <2>1. \A j \in S : StateOf(j) = "open"
    BY <1>w, <1>b DEF StateOf, Active, Ready
  <2>2. \A j \in Job : StateOf(j)' = IF j \in S THEN "cancelled" ELSE StateOf(j)
    BY <1>w DEF StateOf, EndRow, Active, Ready
  <2>3. \A j \in S, w \in Worker : ~Stands(w, j)'
    BY <1>w DEF Stands, LoseClaims, WorkingOn, loops
  <2>4. \A j \in Job \ S, w \in Worker : Stands(w, j)' <=> Stands(w, j)
    BY <1>w DEF Stands, LoseClaims, WorkingOn, loops
  <2>5. \A j \in Job : HeldBy(j)' = IF j \in S THEN Nobody ELSE HeldBy(j)
    BY <1>h, <2>3, <2>4
  <2> QED BY <2>1, <2>2, <2>5, Withdraws
\* A worker that starts its next round stands on nothing.
<1>n. ASSUME NEW w \in Worker, NextRound(w)
      PROVE  \A x \in Worker, j \in Job : Stands(x, j)' <=> x # w /\ Stands(x, j)
  BY <1>b, <1>n DEF NextRound, Stands, Busy
<1>1. ASSUME NEW j \in Job, NEW p \in Priorities, Enqueue(j, p) PROVE Goal
  <2>1. CASE status[j] = "ABSENT"
    <3>1. /\ status' = [k \in Job |-> IF k = j THEN "PENDING" ELSE status[k]]
          /\ UNCHANGED <<phase, job, lost>>
      BY <1>1, <2>1 DEF Enqueue, Insert, loops, history
    <3> QED BY <1>b, <1>o, <2>1, <3>1, {j} \in SUBSET Job DEF Active, Ready
  <2>2. CASE status[j] # "ABSENT"
    BY <1>1, <1>b, <2>2, <1>s DEF Enqueue, Insert, loops, history
  <2> QED BY <2>1, <2>2
<1>2. ASSUME NEW j \in Job, NEW p \in Priorities, Requeue(j, p) PROVE Goal
  BY <1>2, <1>b, <1>o, {j} \in SUBSET Job DEF Requeue, loops, Terminal, Active, Ready
<1>3. ASSUME NEW j \in Job, Cancel(j) PROVE Goal
  BY <1>3, <1>w, {j} \in SUBSET Job DEF Cancel
<1>4. ASSUME NEW g \in Gallery, Prioritize(g) PROVE Goal
  BY <1>4, <1>s DEF Prioritize, loops
<1>5. ASSUME NEW i \in Item, Exclude(i) PROVE Goal
  <2> DEFINE S == {j \in Job : ItemOf[j] = i /\ status[j] \in Active}
  <2>1. S \in SUBSET Job /\ EndRow(S, "CANCELLED") /\ LoseClaims(S) /\ UNCHANGED loops
    BY <1>5 DEF Exclude
  <2> QED BY <1>w, <2>1
<1>6. ASSUME NEW i \in Item, NEW P \in SUBSET Item, Restore(i, P) PROVE Goal
  <2>1. PICK S \in SUBSET Job : /\ \A j \in S : status[j] \in {"CANCELLED", "ABSENT"}
                                /\ status' = [j \in Job |-> IF j \in S THEN "PENDING" ELSE status[j]]
    <3> DEFINE base == {j \in BaseJobs(GalleryOf[i]) : ItemOf[j] \in P \ (excluded \ {i})}
               new == {j \in base : status[j] = "ABSENT"}
    <3>1. Resumable(i) \cup new \in SUBSET Job
      BY DEF Resumable, BaseJobs
    <3>2. /\ status' = [j \in Job |-> IF j \in Resumable(i) \cup new THEN "PENDING" ELSE status[j]]
          /\ \A j \in Resumable(i) \cup new : status[j] \in {"CANCELLED", "ABSENT"}
      BY <1>6 DEF Restore, Resumable
    <3> QED BY <3>1, <3>2
  <2>2. UNCHANGED <<phase, job, lost>>
    BY <1>6 DEF Restore, loops, history
  <2> QED BY <1>b, <1>o, <2>1, <2>2 DEF Active, Ready
<1>7. CASE SetEnabled \/ Tick
  BY <1>7, <1>s DEF SetEnabled, Tick, rows, loops, history
<1>8. ASSUME NEW w \in Worker, NEW lag \in 0..MaxLag, NEW j \in Job, Claim(w, lag, j) PROVE Goal
  <2> DEFINE R == Expired(lag)
  <2>1. /\ R \in SUBSET Job /\ \A k \in R : status[k] = "RUNNING"
        /\ j \in R \/ status[j] \in Ready
    BY <1>8 DEF Claim, Claimable, Expired
  <2>2. /\ phase[w] = "snapshot"
        /\ phase' = [phase EXCEPT ![w] = "claimed"] /\ job' = [job EXCEPT ![w] = j]
        /\ status' = [k \in Job |-> IF k = j THEN "RUNNING"
                                    ELSE IF k \in R THEN "PENDING" ELSE status[k]]
        /\ lost' = (lost \cup WorkingOn(R)) \ {w}
    BY <1>8 DEF Claim
  <2> HIDE DEF R
  <2>3. StateOf(j) = "open" /\ \A k \in Job : StateOf(k)' = StateOf(k)
    BY <1>b, <2>1, <2>2 DEF StateOf, Active, Ready
  <2>4. \A k \in Job : HeldBy(k) # w
    BY <1>0, <2>2 DEF Chosen, Stands, Busy
  <2>5. \A k \in Job : status[k] # "RUNNING" => HeldBy(k) = Nobody
    BY <1>0, <1>i, StandsOnRunning DEF Chosen
  <2>6. j \in R \/ HeldBy(j) = Nobody
    BY <2>1, <2>5 DEF Ready
  <2>7. Stands(w, j)'
    BY <1>b, <2>2 DEF Stands, Busy
  <2>8. \A k \in Job \ {j}, x \in Worker : Stands(x, k)' <=> k \notin R /\ Stands(x, k)
    BY <1>b, <2>2 DEF Stands, WorkingOn, Busy
  <2>9. \A k \in Job : HeldBy(k)' = IF k = j THEN w ELSE IF k \in R THEN Nobody ELSE HeldBy(k)
    <3>1. HeldBy(j)' = w
      BY <1>0, <2>7 DEF Chosen
    <3>2. \A k \in Job \ {j} : HeldBy(k)' = IF k \in R THEN Nobody ELSE HeldBy(k)
      BY <1>h, <2>8
    <3> QED BY <3>1, <3>2
  <2>10. R \in SUBSET Job
    BY <2>1
  <2> QED BY <2>3, <2>4, <2>6, <2>9, <2>10, Grants
<1>9. ASSUME NEW w \in Worker, NEW lag \in 0..MaxLag, Heartbeat(w, lag) PROVE Goal
  BY <1>9, <1>s DEF Heartbeat, history
<1>10. ASSUME NEW w \in Worker, Succeed(w) PROVE Goal
  <2>1. /\ phase[w] = "working" /\ phase' = [phase EXCEPT ![w] = "recording"]
        /\ UNCHANGED <<job, lost>>
    BY <1>10 DEF Succeed, history
  <2>2. /\ job[w] \in Job
        /\ \A x \in Worker : phase'[x] \in Busy <=> phase[x] \in Busy
    BY <1>b, <1>i, <2>1 DEF WorkersHaveJobs, Existing, Busy
  <2> DEFINE f == FollowUp[job[w]]
  <2>3. CASE f \in Job /\ status[f] = "ABSENT"
    <3>1. status' = [k \in Job |-> IF k = f THEN "PENDING" ELSE status[k]]
      BY <1>10, <2>3, ConstantsAssumption DEF ConstantsAssumption, Succeed, Insert
    <3>2. {f} \in SUBSET Job
      BY <2>3
    <3> HIDE DEF f
    <3> QED BY <1>b, <1>o, <2>1, <2>2, <2>3, <3>1, <3>2 DEF Active, Ready
  <2>4. CASE ~(f \in Job /\ status[f] = "ABSENT")
    <3>1. status' = status
      BY <1>10, <1>b, <2>2, <2>4 DEF Succeed, Insert
    <3> QED BY <1>s, <2>1, <2>2, <3>1
  <2> QED BY <2>3, <2>4
<1>11. ASSUME NEW w \in Worker, NEW st \in {"COMPLETED", "FAILED", "RETRY_WAIT"},
              phase[w] = "recording", Holds(w), EndRow({job[w]}, st), NextRound(w)
       PROVE  Goal
  <2> PICK i \in Job : i = job[w]
    BY <1>i, <1>11 DEF WorkersHaveJobs, Existing, Busy
  <2>1. Stands(w, i) /\ HeldBy(i) = w
    BY <1>0, <1>b, <1>i, <1>11 DEF FencedByName, Stands, Busy, Chosen
  <2>2. StateOf(i) = "open" /\ HeldBy(i) # Nobody
    BY <1>b, <1>i, <2>1, StandsOnRunning
  <2>3. \A x \in Worker, k \in Job : Stands(x, k)' <=> x # w /\ Stands(x, k)
    BY <1>n, <1>11
  <2>4. status' = [k \in Job |-> IF k = i THEN st ELSE status[k]]
    BY <1>11 DEF EndRow
  <2>5. \A k \in Job : HeldBy(k)' = IF k = i THEN Nobody ELSE HeldBy(k)
    <3>1. \A x \in Worker : ~Stands(x, i)'
      BY <1>0, <2>1, <2>3 DEF Chosen
    <3>2. ASSUME NEW k \in Job, k # i PROVE \A x \in Worker : Stands(x, k)' <=> Stands(x, k)
      BY <2>1, <2>3, <3>2 DEF Stands
    <3> QED BY <1>h, <2>1, <3>1, <3>2
  <2>6. CASE st = "RETRY_WAIT"
    <3>1. \A k \in Job : StateOf(k)' = StateOf(k)
      BY <1>b, <2>1, <2>2, <2>4, <2>6 DEF StateOf, Active, Ready
    <3>2. {i} \in SUBSET Job
      BY <2>1
    <3> QED BY <2>5, <3>1, <3>2, Revokes
  <2>7. CASE st = "COMPLETED"
    <3>1. \A k \in Job : StateOf(k)' = IF k = i THEN "done" ELSE StateOf(k)
      BY <2>4, <2>7 DEF StateOf, Active, Ready
    <3> QED BY <2>1, <2>2, <2>5, <3>1, Finishes
  <2>8. CASE st = "FAILED"
    <3>1. \A k \in Job : StateOf(k)' = IF k = i THEN "failed" ELSE StateOf(k)
      BY <2>4, <2>8 DEF StateOf, Active, Ready
    <3> QED BY <2>1, <2>2, <2>5, <3>1, Finishes
  <2> QED BY <2>6, <2>7, <2>8
<1>12. ASSUME NEW w \in Worker, Complete(w) \/ Fail(w) PROVE Goal
  <2>1. \E st \in {"COMPLETED", "FAILED", "RETRY_WAIT"} :
          phase[w] = "recording" /\ Holds(w) /\ EndRow({job[w]}, st) /\ NextRound(w)
    BY <1>12 DEF Complete, Fail
  <2> QED BY <1>11, <2>1
<1>13. ASSUME NEW w \in Worker, RecordError(w) PROVE Goal
  <2> DEFINE R == {j \in Job : HeldBy(j) = w}
  <2>1. NextRound(w) /\ status' = status
    BY <1>13 DEF RecordError, rows
  <2>2. \A j \in Job : HeldBy(j)' = IF j \in R THEN Nobody ELSE HeldBy(j)
    BY <1>0, <1>h, <1>n, <2>1 DEF Chosen
  <2>3. R \in SUBSET Job /\ \A j \in Job : StateOf(j)' = StateOf(j)
    BY <2>1 DEF StateOf
  <2> HIDE DEF R
  <2> QED BY <2>2, <2>3, Revokes
<1>14. ASSUME NEW w \in Worker, Refused(w) PROVE Goal
  <2>1. NextRound(w) /\ status' = status
    BY <1>14 DEF Refused, rows
  <2>2. \A j \in Job : ~Stands(w, j)
    BY <1>14, <1>i, StandsOnRunning DEF Refused
  <2>3. \A j \in Job : HeldBy(j)' = HeldBy(j)
    BY <1>h, <1>n, <2>1, <2>2
  <2> QED BY <2>1, <2>3, Stutters DEF StateOf
<1>15. CASE Restart
  <2>1. status' = status /\ \A w \in Worker : phase'[w] = "loop"
    BY <1>15 DEF Restart, rows
  <2>2. \A j \in Job : HeldBy(j)' = Nobody /\ StateOf(j)' = StateOf(j)
    BY <1>h, <2>1 DEF Stands, Busy, StateOf
  <2> QED BY <2>2, Revokes, Job \in SUBSET Job
<1>16. ASSUME NEW w \in Worker,
              \/ Snapshot(w) \/ FallAsleep(w) \/ WakeUp(w) \/ ReadItem(w)
              \/ Err(w, "retry") \/ Err(w, "structural")
              \/ \E lag \in 0..MaxLag : ClaimNothing(w, lag)
              \/ ClaimFails(w) \/ NextWakeFails(w)
       PROVE  Goal
  <2>1. /\ UNCHANGED <<status, job, lost>>
        /\ \A x \in Worker : phase'[x] \in Busy <=> phase[x] \in Busy
    <3>1. CASE \/ Snapshot(w) \/ FallAsleep(w) \/ WakeUp(w) \/ ReadItem(w)
               \/ Err(w, "retry") \/ Err(w, "structural")
               \/ \E lag \in 0..MaxLag : ClaimNothing(w, lag)
      BY <1>b, <3>1 DEF Snapshot, FallAsleep, WakeUp, ReadItem, Err, ClaimNothing, rows, history,
                        Busy, Waiting
    <3>2. CASE ClaimFails(w) \/ NextWakeFails(w)
      BY <1>b, <3>2 DEF ClaimFails, NextWakeFails, rows, history, Busy
    <3> QED BY <1>16, <3>1, <3>2
  <2> QED BY <1>s, <2>1
<1> QED
  BY <1>1, <1>2, <1>3, <1>4, <1>5, <1>6, <1>7, <1>8, <1>9, <1>10, <1>12, <1>13, <1>14, <1>15, <1>16
     DEF Next, Commands, Step, ClaimNext, Process, Record, Beat

LEMMA RefinementInit == Init => Abstract!Init
<1> SUFFICES ASSUME Init PROVE Abstract!Init
  OBVIOUS
<1>1. \A j \in Job : status[j] = "ABSENT" /\ \A w \in Worker : phase[w] \notin Busy
  BY DEF Init, Busy
<1>2. \A j \in Job : StateOf(j) = "absent" /\ HeldBy(j) = Nobody
  BY <1>1 DEF StateOf, HeldBy, Active, Ready
<1> QED BY <1>2 DEF Abstract!Init, StateOf, HeldBy

\* The queue implements the abstract lease: a row is held by one worker at a time,
\* and only the worker that holds it at that moment closes it, whatever clocks
\* lag, leases run out, commands come and processes restart.
THEOREM ImplementsLease == Spec => ImplementsWorkLease
<1>1. Init => Abstract!Init
  BY RefinementInit
<1>2. QueueIInv /\ QueueIInv' /\ [Next]_vars => [Abstract!Next]_(Abstract!vars)
  <2> SUFFICES ASSUME QueueIInv, QueueIInv', [Next]_vars PROVE [Abstract!Next]_(Abstract!vars)
    OBVIOUS
  <2>1. CASE Next
    BY <2>1, RefinementStep DEF QueueIInv
  <2>2. CASE UNCHANGED vars
    BY <2>2 DEF vars, rows, loops, history, Abstract!vars
  <2> QED BY <2>1, <2>2
<1> QED BY <1>1, <1>2, QueueIInvHolds, PTL DEF Spec, ImplementsWorkLease, Abstract!Spec

------------------------------------------------------------------------------
(* Rows taken from a worker at work. *)

LEMMA TakenStep ==
  ASSUME QueueIInv, Next, NEW w \in Worker,
         phase[w] \in Busy, Holds(w), phase'[w] \in Busy, ~Holds(w)'
  PROVE  leaseLeft[job[w]] <= 0 \/ status'[job[w]] = "CANCELLED"
<1> DEFINE Goal == leaseLeft[job[w]] <= 0 \/ status'[job[w]] = "CANCELLED"
<1>b. /\ job[w] \in Job /\ status[job[w]] = "RUNNING" /\ owner[job[w]] = w
      /\ status \in [Job -> Status] /\ owner \in [Job -> Worker \cup {Nobody}]
      /\ leaseLeft \in [Job -> Int] /\ phase \in [Worker -> Phase]
      /\ job \in [Worker -> Job \cup {Nobody}] /\ MaxLag \in Nat
  BY ConstantsAssumption
     DEF ConstantsAssumption, QueueIInv, TypeOK, RowTypes, LoopTypes, WorkersHaveJobs, Existing, Holds
\* The worker has its job, and its row neither another status nor another owner.
<1>c. ASSUME job'[w] = job[w], status'[job[w]] = status[job[w]], owner'[job[w]] = owner[job[w]]
      PROVE  Goal
  BY <1>b, <1>c DEF Holds
<1>1. ASSUME NEW j \in Job, NEW p \in Priorities, Enqueue(j, p) PROVE Goal
  BY <1>1, <1>b, <1>c DEF Enqueue, Insert, loops
<1>2. ASSUME NEW j \in Job, NEW p \in Priorities, Requeue(j, p) PROVE Goal
  BY <1>2, <1>b, <1>c DEF Requeue, loops, Terminal
<1>3. ASSUME NEW j \in Job, Cancel(j) PROVE Goal
  BY <1>3, <1>b, <1>c DEF Cancel, EndRow, loops
<1>4. CASE (\E g \in Gallery : Prioritize(g)) \/ SetEnabled \/ Tick
  BY <1>4, <1>c DEF Prioritize, SetEnabled, Tick, rows, loops
<1>5. ASSUME NEW i \in Item, Exclude(i) PROVE Goal
  BY <1>5, <1>b, <1>c DEF Exclude, EndRow, loops
<1>6. ASSUME NEW i \in Item, NEW P \in SUBSET Item, Restore(i, P) PROVE Goal
  BY <1>6, <1>b, <1>c DEF Restore, Resumable, loops
<1>7. ASSUME NEW x \in Worker, NEW lag \in 0..MaxLag, NEW j \in Job, Claim(x, lag, j) PROVE Goal
  <2>1. x # w /\ job'[w] = job[w]
    BY <1>7, <1>b DEF Claim, Busy
  <2>2. CASE job[w] \in Expired(lag)
    BY <1>b, <2>2 DEF Expired
  <2>3. CASE job[w] \notin Expired(lag)
    BY <1>7, <1>b, <1>c, <2>1, <2>3 DEF Claim, Claimable, Ready
  <2> QED BY <2>2, <2>3
<1>8. ASSUME NEW x \in Worker, NEW lag \in 0..MaxLag, Heartbeat(x, lag) PROVE Goal
  BY <1>8, <1>c DEF Heartbeat
<1>9. ASSUME NEW x \in Worker, Succeed(x) PROVE Goal
  BY <1>9, <1>b, <1>c DEF Succeed, Insert
<1>10. ASSUME NEW x \in Worker, Complete(x) \/ Fail(x) PROVE Goal
  <2>1. \E st \in Status : EndRow({job[x]}, st) /\ NextRound(x) /\ Holds(x)
    BY <1>10 DEF Complete, Fail, Status, Terminal, Active, Ready
  <2>2. x # w
    BY <1>b, <2>1 DEF NextRound, Busy
  <2>3. job[x] # job[w]
    BY <1>b, <2>1, <2>2 DEF Holds
  <2> QED BY <1>b, <1>c, <2>1, <2>2, <2>3 DEF EndRow, NextRound
<1>11. ASSUME NEW x \in Worker, Refused(x) \/ RecordError(x) PROVE Goal
  <2>1. NextRound(x) /\ UNCHANGED rows
    BY <1>11 DEF Refused, RecordError
  <2>2. x # w
    BY <1>b, <2>1 DEF NextRound, Busy
  <2> QED BY <1>b, <1>c, <2>1, <2>2 DEF NextRound, rows
<1>12. CASE Restart
  BY <1>12 DEF Restart, Busy
<1>13. ASSUME NEW x \in Worker,
              \/ Snapshot(x) \/ FallAsleep(x) \/ WakeUp(x) \/ ReadItem(x)
              \/ Err(x, "retry") \/ Err(x, "structural")
              \/ \E lag \in 0..MaxLag : ClaimNothing(x, lag)
              \/ ClaimFails(x) \/ NextWakeFails(x)
       PROVE  Goal
  BY <1>13, <1>c DEF Snapshot, FallAsleep, WakeUp, ReadItem, Err, ClaimNothing, ClaimFails, NextWakeFails, rows
<1> QED
  BY <1>1, <1>2, <1>3, <1>4, <1>5, <1>6, <1>7, <1>8, <1>9, <1>10, <1>11, <1>12, <1>13
     DEF Next, Commands, Step, ClaimNext, Process, Record, Beat

\* A worker at work loses its row only to an expired lease or to a withdrawal.
THEOREM TakenOnlyLate == Spec => TakenOnlyWhenLate
<1> DEFINE Taken == \A w \in Worker : phase[w] \in Busy /\ Holds(w) /\ phase'[w] \in Busy /\ ~Holds(w)'
                     => leaseLeft[job[w]] <= 0 \/ status'[job[w]] = "CANCELLED"
<1>1. QueueIInv /\ [Next]_vars => [Taken]_vars
  BY TakenStep
<1> QED BY <1>1, QueueIInvHolds, PTL DEF Spec, TakenOnlyWhenLate
==============================================================================

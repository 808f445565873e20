------------------------ MODULE ProcessingQueueProofs ------------------------
(***************************************************************************)
(* Proofs about ProcessingQueue for every set of jobs and workers, every   *)
(* lease, lag, retry limit and priority.                                   *)
(***************************************************************************)
EXTENDS ProcessingQueue, TLAPS

------------------------------------------------------------------------------
(* Type correctness: one lemma per group of actions, one step per action,  *)
(* and under it one step per group of variables.                           *)

LEMMA TypeInit == Init => TypeOK
  BY ConstantsAssumption
  DEF ConstantsAssumption, Init, TypeOK, RowTypes, LoopTypes, OtherTypes, Status, Active,
      Ready, Terminal, Phase, Busy, Outcome

\* The commands keep the types.
LEMMA TypeCommands ==
  ASSUME TypeOK, Commands
  PROVE  TypeOK'
<1> USE ConstantsAssumption DEF ConstantsAssumption, TypeOK, Signal, rows, switches, loops, bounds, history
<1>1. ASSUME NEW j \in Job, NEW p \in Priorities, Enqueue(j, p) PROVE TypeOK'
  <2>1. RowTypes'
    <3>1. status' \in [Job -> Status]
      BY <1>1 DEF RowTypes, Status, Active, Ready, Terminal, Enqueue, Insert, Higher
    <3>2. priority' \in [Job -> 0..MaxPriority]
      BY <1>1 DEF RowTypes, Enqueue, Insert, Higher
    <3>3. notBefore' \in [Job -> Int]
      BY <1>1 DEF RowTypes, Enqueue, Insert, Higher
    <3>4. UNCHANGED <<attempts, owner, leaseLeft, lastError>>
      BY <1>1 DEF Enqueue
    <3> QED
      BY <3>1, <3>2, <3>3, <3>4 DEF RowTypes
  <2>2. LoopTypes'
    BY <1>1 DEF LoopTypes, Phase, Busy, Waiting, Outcome, Enqueue, Insert, Higher
  <2>3. OtherTypes'
    BY <1>1 DEF OtherTypes, Enqueue, Insert, Higher
  <2> QED
    BY <2>1, <2>2, <2>3 DEF TypeOK
<1>2. ASSUME NEW j \in Job, NEW p \in Priorities, Requeue(j, p) PROVE TypeOK'
  <2>1. RowTypes'
    <3>1. status' \in [Job -> Status]
      BY <1>2 DEF RowTypes, Status, Active, Ready, Terminal, Requeue, Higher, Command
    <3>2. attempts' \in [Job -> 0..MaxAttempts]
      BY <1>2 DEF RowTypes, Requeue, Higher, Command
    <3>3. priority' \in [Job -> 0..MaxPriority]
      BY <1>2 DEF RowTypes, Requeue, Higher, Command
    <3>4. notBefore' \in [Job -> Int]
      BY <1>2 DEF RowTypes, Requeue, Higher, Command
    <3>5. owner' \in [Job -> Worker \cup {Nobody}] /\ leaseLeft' \in [Job -> Int]
      BY <1>2 DEF RowTypes, Requeue, Higher, Command
    <3>6. lastError' \in [Job -> {"NONE", "ITEM_EXCLUDED", "FAILURE"}]
      BY <1>2 DEF RowTypes, Requeue, Higher, Command
    <3> QED
      BY <3>1, <3>2, <3>3, <3>4, <3>5, <3>6 DEF RowTypes
  <2>2. LoopTypes'
    BY <1>2 DEF LoopTypes, Phase, Busy, Waiting, Outcome, Requeue, Higher, Command
  <2>3. OtherTypes'
    BY <1>2 DEF OtherTypes, Requeue, Higher, Command
  <2> QED
    BY <2>1, <2>2, <2>3 DEF TypeOK
<1>3. ASSUME NEW j \in Job, Cancel(j) PROVE TypeOK'
  <2>1. RowTypes'
    <3>1. status' \in [Job -> Status]
      BY <1>3 DEF RowTypes, Status, Active, Ready, Terminal, Cancel, Command, EndRow, LoseClaims, WorkingOn
    <3>2. attempts' \in [Job -> 0..MaxAttempts]
      BY <1>3 DEF RowTypes, Cancel, Command, EndRow, LoseClaims, WorkingOn
    <3>3. priority' \in [Job -> 0..MaxPriority]
      BY <1>3 DEF RowTypes, Cancel, Command, EndRow, LoseClaims, WorkingOn
    <3>4. notBefore' \in [Job -> Int]
      BY <1>3 DEF RowTypes, Cancel, Command, EndRow, LoseClaims, WorkingOn
    <3>5. owner' \in [Job -> Worker \cup {Nobody}] /\ leaseLeft' \in [Job -> Int]
      BY <1>3 DEF RowTypes, Cancel, Command, EndRow, LoseClaims, WorkingOn
    <3>6. lastError' \in [Job -> {"NONE", "ITEM_EXCLUDED", "FAILURE"}]
      BY <1>3 DEF RowTypes, Cancel, Command, EndRow, LoseClaims, WorkingOn
    <3> QED
      BY <3>1, <3>2, <3>3, <3>4, <3>5, <3>6 DEF RowTypes
  <2>2. LoopTypes'
    BY <1>3 DEF LoopTypes, Phase, Busy, Waiting, Outcome, Cancel, Command, EndRow, LoseClaims, WorkingOn
  <2>3. OtherTypes'
    BY <1>3 DEF OtherTypes, Cancel, Command, EndRow, LoseClaims, WorkingOn
  <2> QED
    BY <2>1, <2>2, <2>3 DEF TypeOK
<1>4. ASSUME NEW g \in Gallery, Prioritize(g) PROVE TypeOK'
  <2>1. RowTypes'
    BY <1>4 DEF RowTypes, Status, Active, Ready, Terminal, Prioritize, Command, ManualSet
  <2>2. LoopTypes'
    BY <1>4 DEF LoopTypes, Phase, Busy, Waiting, Outcome, Prioritize, Command, ManualSet
  <2>3. OtherTypes'
    BY <1>4 DEF OtherTypes, Prioritize, Command, ManualSet
  <2> QED
    BY <2>1, <2>2, <2>3 DEF TypeOK
<1>5. ASSUME NEW i \in Item, Exclude(i) PROVE TypeOK'
  <2>1. RowTypes'
    <3>1. status' \in [Job -> Status]
      BY <1>5 DEF RowTypes, Status, Active, Ready, Terminal, Exclude, Command, EndRow, LoseClaims, WorkingOn
    <3>2. attempts' \in [Job -> 0..MaxAttempts]
      BY <1>5 DEF RowTypes, Exclude, Command, EndRow, LoseClaims, WorkingOn
    <3>3. priority' \in [Job -> 0..MaxPriority]
      BY <1>5 DEF RowTypes, Exclude, Command, EndRow, LoseClaims, WorkingOn
    <3>4. notBefore' \in [Job -> Int]
      BY <1>5 DEF RowTypes, Exclude, Command, EndRow, LoseClaims, WorkingOn
    <3>5. owner' \in [Job -> Worker \cup {Nobody}] /\ leaseLeft' \in [Job -> Int]
      BY <1>5 DEF RowTypes, Exclude, Command, EndRow, LoseClaims, WorkingOn
    <3>6. lastError' \in [Job -> {"NONE", "ITEM_EXCLUDED", "FAILURE"}]
      BY <1>5 DEF RowTypes, Exclude, Command, EndRow, LoseClaims, WorkingOn
    <3> QED
      BY <3>1, <3>2, <3>3, <3>4, <3>5, <3>6 DEF RowTypes
  <2>2. LoopTypes'
    BY <1>5 DEF LoopTypes, Phase, Busy, Waiting, Outcome, Exclude, Command, EndRow, LoseClaims, WorkingOn
  <2>3. OtherTypes'
    <3>1. switch' \in {"on", "off"} /\ excluded' \subseteq Item
      BY <1>5 DEF OtherTypes, Exclude, Command, EndRow, LoseClaims, WorkingOn
    <3>2. commands' \in 0..MaxCommands /\ faults' \in 0..MaxFaults
      BY <1>5 DEF OtherTypes, Exclude, Command, EndRow, LoseClaims, WorkingOn
    <3>3. lost' \subseteq Worker /\ ownerCancelled' \subseteq Job /\ promoted' \subseteq Job
      BY <1>5 DEF OtherTypes, Exclude, Command, EndRow, LoseClaims, WorkingOn
    <3> QED
      BY <3>1, <3>2, <3>3 DEF OtherTypes
  <2> QED
    BY <2>1, <2>2, <2>3 DEF TypeOK
<1>6. ASSUME NEW i \in Item, NEW P \in SUBSET Item, Restore(i, P) PROVE TypeOK'
  <2>1. RowTypes'
    <3>1. status' \in [Job -> Status]
      BY <1>6 DEF RowTypes, Status, Active, Ready, Terminal, Restore, Command, Higher, Resumable
    <3>2. attempts' \in [Job -> 0..MaxAttempts]
      BY <1>6 DEF RowTypes, Restore, Command, Higher, Resumable
    <3>3. priority' \in [Job -> 0..MaxPriority]
      BY <1>6 DEF RowTypes, Restore, Command, Higher, Resumable
    <3>4. notBefore' \in [Job -> Int]
      BY <1>6 DEF RowTypes, Restore, Command, Higher, Resumable
    <3>5. owner' \in [Job -> Worker \cup {Nobody}] /\ leaseLeft' \in [Job -> Int]
      BY <1>6 DEF RowTypes, Restore, Command, Higher, Resumable
    <3>6. lastError' \in [Job -> {"NONE", "ITEM_EXCLUDED", "FAILURE"}]
      BY <1>6 DEF RowTypes, Restore, Command, Higher, Resumable
    <3> QED
      BY <3>1, <3>2, <3>3, <3>4, <3>5, <3>6 DEF RowTypes
  <2>2. LoopTypes'
    BY <1>6 DEF LoopTypes, Phase, Busy, Waiting, Outcome, Restore, Command, Higher, Resumable
  <2>3. OtherTypes'
    BY <1>6 DEF OtherTypes, Restore, Command, Higher, Resumable
  <2> QED
    BY <2>1, <2>2, <2>3 DEF TypeOK
<1>7. ASSUME SetEnabled PROVE TypeOK'
  <2>1. RowTypes'
    BY <1>7 DEF RowTypes, Status, Active, Ready, Terminal, SetEnabled, Command
  <2>2. LoopTypes'
    BY <1>7 DEF LoopTypes, Phase, Busy, Waiting, Outcome, SetEnabled, Command
  <2>3. OtherTypes'
    BY <1>7 DEF OtherTypes, SetEnabled, Command
  <2> QED
    BY <2>1, <2>2, <2>3 DEF TypeOK
<1> HIDE DEF TypeOK
<1> QED
  BY <1>1, <1>2, <1>3, <1>4, <1>5, <1>6, <1>7
     DEF Commands

\* Waiting and claiming keep the types.
LEMMA TypeLoop ==
  ASSUME TypeOK, NEW w \in Worker,
         Snapshot(w) \/ ClaimNext(w) \/ FallAsleep(w) \/ WakeUp(w) \/ Beat(w)
           \/ ClaimFails(w) \/ NextWakeFails(w)
  PROVE  TypeOK'
<1> USE ConstantsAssumption DEF ConstantsAssumption, TypeOK, Signal, rows, switches, loops, bounds, history
<1>1. ASSUME Snapshot(w) PROVE TypeOK'
  <2>1. RowTypes'
    BY <1>1 DEF RowTypes, Status, Active, Ready, Terminal, Snapshot
  <2>2. LoopTypes'
    BY <1>1 DEF LoopTypes, Phase, Busy, Waiting, Outcome, Snapshot
  <2>3. OtherTypes'
    BY <1>1 DEF OtherTypes, Snapshot
  <2> QED
    BY <2>1, <2>2, <2>3 DEF TypeOK
<1>2. ASSUME NEW lag \in 0..MaxLag, NEW j \in Job, Claim(w, lag, j) PROVE TypeOK'
  <2>1. RowTypes'
    <3>1. status' \in [Job -> Status]
      BY <1>2 DEF RowTypes, Status, Active, Ready, Terminal, Claim, WorkingOn
    <3>2. attempts' \in [Job -> 0..MaxAttempts]
      <4>1. attempts[j] < MaxAttempts => attempts[j] + 1 \in 0..MaxAttempts
        BY DEF RowTypes
      <4> QED
        BY <1>2, <4>1 DEF RowTypes, Claim
    <3>3. priority' \in [Job -> 0..MaxPriority]
      BY <1>2 DEF RowTypes, Claim, WorkingOn
    <3>4. notBefore' \in [Job -> Int]
      BY <1>2 DEF RowTypes, Claim, WorkingOn
    <3>5. owner' \in [Job -> Worker \cup {Nobody}] /\ leaseLeft' \in [Job -> Int]
      BY <1>2 DEF RowTypes, Claim, WorkingOn
    <3>6. lastError' \in [Job -> {"NONE", "ITEM_EXCLUDED", "FAILURE"}]
      BY <1>2 DEF RowTypes, Claim, WorkingOn
    <3> QED
      BY <3>1, <3>2, <3>3, <3>4, <3>5, <3>6 DEF RowTypes
  <2>2. LoopTypes'
    <3>1. phase' \in [Worker -> Phase] /\ outcome' \in [Worker -> Outcome]
      BY <1>2 DEF LoopTypes, Phase, Busy, Waiting, Outcome, Claim, WorkingOn
    <3>2. job' \in [Worker -> Job \cup {Nobody}] /\ claimPriority' \in [Worker -> 0..MaxPriority]
      BY <1>2 DEF RowTypes, LoopTypes, Claim
    <3>3. timer' \in [Worker -> Nat] /\ cut' \subseteq Worker /\ wake' \subseteq Worker
      BY <1>2 DEF LoopTypes, Claim, WorkingOn
    <3> QED
      BY <3>1, <3>2, <3>3 DEF LoopTypes
  <2>3. OtherTypes'
    BY <1>2 DEF OtherTypes, Claim, WorkingOn
  <2> QED
    BY <2>1, <2>2, <2>3 DEF TypeOK
<1>3. ASSUME NEW lag \in 0..MaxLag, ClaimNothing(w, lag) PROVE TypeOK'
  <2>1. RowTypes'
    BY <1>3 DEF RowTypes, Status, Active, Ready, Terminal, ClaimNothing
  <2>2. LoopTypes'
    BY <1>3 DEF LoopTypes, Phase, Busy, Waiting, Outcome, ClaimNothing
  <2>3. OtherTypes'
    BY <1>3 DEF OtherTypes, ClaimNothing
  <2> QED
    BY <2>1, <2>2, <2>3 DEF TypeOK
<1>4. ASSUME FallAsleep(w) PROVE TypeOK'
  <2>1. RowTypes'
    BY <1>4 DEF RowTypes, Status, Active, Ready, Terminal, FallAsleep, SleepFor, Deadlines, Higher
  <2>2. LoopTypes'
    <3>1. phase' \in [Worker -> Phase] /\ outcome' \in [Worker -> Outcome]
      BY <1>4 DEF LoopTypes, Phase, Busy, Waiting, Outcome, FallAsleep, SleepFor, Deadlines, Higher
    <3>2. job' \in [Worker -> Job \cup {Nobody}] /\ claimPriority' \in [Worker -> 0..MaxPriority]
      BY <1>4 DEF LoopTypes, FallAsleep, SleepFor, Deadlines, Higher
    <3>3. timer' \in [Worker -> Nat] /\ cut' \subseteq Worker /\ wake' \subseteq Worker
      <4>1. PICK d \in Deadlines : SleepFor(d) /\ timer' = [timer EXCEPT ![w] = Higher(d, MinWait)]
        BY <1>4 DEF FallAsleep
      <4>2. \A k \in Job : notBefore[k] \in Int /\ leaseLeft[k] \in Int
        BY DEF RowTypes
      <4>3. d \in Int
        BY <4>2 DEF Deadlines
      <4>4. Higher(d, MinWait) \in Nat
        BY <4>3 DEF Higher
      <4> QED
        BY <1>4, <4>1, <4>4 DEF LoopTypes, FallAsleep
    <3> QED
      BY <3>1, <3>2, <3>3 DEF LoopTypes
  <2>3. OtherTypes'
    BY <1>4 DEF OtherTypes, FallAsleep, SleepFor, Deadlines, Higher
  <2> QED
    BY <2>1, <2>2, <2>3 DEF TypeOK
<1>5. ASSUME WakeUp(w) PROVE TypeOK'
  <2>1. RowTypes'
    BY <1>5 DEF RowTypes, Status, Active, Ready, Terminal, WakeUp
  <2>2. LoopTypes'
    BY <1>5 DEF LoopTypes, Phase, Busy, Waiting, Outcome, WakeUp
  <2>3. OtherTypes'
    BY <1>5 DEF OtherTypes, WakeUp
  <2> QED
    BY <2>1, <2>2, <2>3 DEF TypeOK
<1>6. ASSUME NEW lag \in 0..MaxLag, Heartbeat(w, lag) PROVE TypeOK'
  <2>1. RowTypes'
    BY <1>6 DEF RowTypes, Status, Active, Ready, Terminal, Heartbeat
  <2>2. LoopTypes'
    <3>1. phase' \in [Worker -> Phase] /\ outcome' \in [Worker -> Outcome]
      BY <1>6 DEF LoopTypes, Phase, Busy, Waiting, Outcome, Heartbeat
    <3>2. job' \in [Worker -> Job \cup {Nobody}] /\ claimPriority' \in [Worker -> 0..MaxPriority]
      BY <1>6 DEF LoopTypes, Heartbeat
    <3>3. timer' \in [Worker -> Nat] /\ cut' \subseteq Worker /\ wake' \subseteq Worker
      BY <1>6 DEF LoopTypes, Heartbeat
    <3> QED
      BY <3>1, <3>2, <3>3 DEF LoopTypes
  <2>3. OtherTypes'
    BY <1>6 DEF OtherTypes, Heartbeat
  <2> QED
    BY <2>1, <2>2, <2>3 DEF TypeOK
<1>7. ASSUME ClaimFails(w) PROVE TypeOK'
  <2>1. RowTypes'
    BY <1>7 DEF RowTypes, ClaimFails
  <2>2. LoopTypes'
    <3>1. phase' \in [Worker -> Phase] /\ timer' \in [Worker -> Nat]
      BY <1>7 DEF LoopTypes, Phase, Busy, Waiting, ClaimFails
    <3>2. wake' \subseteq Worker
      BY <1>7 DEF LoopTypes, ClaimFails
    <3> QED
      BY <1>7, <3>1, <3>2 DEF LoopTypes, ClaimFails
  <2>3. OtherTypes'
    <3>1. faults' \in 0..MaxFaults
      BY <1>7 DEF OtherTypes, ClaimFails
    <3> QED
      BY <1>7, <3>1 DEF OtherTypes, ClaimFails
  <2> QED
    BY <2>1, <2>2, <2>3 DEF TypeOK
<1>8. ASSUME NextWakeFails(w) PROVE TypeOK'
  <2>1. RowTypes'
    BY <1>8 DEF RowTypes, NextWakeFails
  <2>2. LoopTypes'
    <3>1. phase' \in [Worker -> Phase] /\ timer' \in [Worker -> Nat]
      BY <1>8 DEF LoopTypes, Phase, Busy, Waiting, NextWakeFails
    <3>2. wake' \subseteq Worker
      BY <1>8 DEF LoopTypes, NextWakeFails
    <3> QED
      BY <1>8, <3>1, <3>2 DEF LoopTypes, NextWakeFails
  <2>3. OtherTypes'
    <3>1. faults' \in 0..MaxFaults
      BY <1>8 DEF OtherTypes, NextWakeFails
    <3> QED
      BY <1>8, <3>1 DEF OtherTypes, NextWakeFails
  <2> QED
    BY <2>1, <2>2, <2>3 DEF TypeOK
<1> HIDE DEF TypeOK
<1> QED
  BY <1>1, <1>2, <1>3, <1>4, <1>5, <1>6, <1>7, <1>8
     DEF ClaimNext, Beat

\* Processing a job and recording its outcome keep the types.
LEMMA TypeProcess ==
  ASSUME TypeOK, NEW w \in Worker, Process(w) \/ Record(w) \/ RecordError(w)
  PROVE  TypeOK'
<1> USE ConstantsAssumption DEF ConstantsAssumption, TypeOK, Signal, rows, switches, loops, bounds, history
<1>1. ASSUME ReadItem(w) PROVE TypeOK'
  <2>1. RowTypes'
    BY <1>1 DEF RowTypes, Status, Active, Ready, Terminal, ReadItem
  <2>2. LoopTypes'
    BY <1>1 DEF LoopTypes, Phase, Busy, Waiting, Outcome, ReadItem
  <2>3. OtherTypes'
    BY <1>1 DEF OtherTypes, ReadItem
  <2> QED
    BY <2>1, <2>2, <2>3 DEF TypeOK
<1>2. ASSUME Succeed(w) PROVE TypeOK'
  <2>1. RowTypes'
    <3>1. status' \in [Job -> Status]
      BY <1>2 DEF RowTypes, Status, Active, Ready, Terminal, Succeed, Insert, Higher
    <3>2. attempts' \in [Job -> 0..MaxAttempts]
      BY <1>2 DEF RowTypes, Succeed, Insert, Higher
    <3>3. priority' \in [Job -> 0..MaxPriority]
      <4>1. claimPriority[w] \in 0..MaxPriority
        BY DEF LoopTypes
      <4>2. \A k \in Job : Higher(priority[k], claimPriority[w]) \in 0..MaxPriority
        BY <4>1 DEF RowTypes, Higher
      <4> QED
        BY <1>2, <4>1, <4>2 DEF RowTypes, Succeed, Insert
    <3>4. notBefore' \in [Job -> Int]
      BY <1>2 DEF RowTypes, Succeed, Insert, Higher
    <3>5. owner' \in [Job -> Worker \cup {Nobody}] /\ leaseLeft' \in [Job -> Int]
      BY <1>2 DEF RowTypes, Succeed, Insert, Higher
    <3>6. lastError' \in [Job -> {"NONE", "ITEM_EXCLUDED", "FAILURE"}]
      BY <1>2 DEF RowTypes, Succeed, Insert, Higher
    <3> QED
      BY <3>1, <3>2, <3>3, <3>4, <3>5, <3>6 DEF RowTypes
  <2>2. LoopTypes'
    BY <1>2 DEF LoopTypes, Phase, Busy, Waiting, Outcome, Succeed, Insert, Higher
  <2>3. OtherTypes'
    BY <1>2 DEF OtherTypes, Succeed, Insert, Higher
  <2> QED
    BY <2>1, <2>2, <2>3 DEF TypeOK
<1>3. ASSUME NEW k \in Outcome, Err(w, k) PROVE TypeOK'
  <2>1. RowTypes'
    BY <1>3 DEF RowTypes, Status, Active, Ready, Terminal, Err
  <2>2. LoopTypes'
    BY <1>3 DEF LoopTypes, Phase, Busy, Waiting, Outcome, Err
  <2>3. OtherTypes'
    BY <1>3 DEF OtherTypes, Err
  <2> QED
    BY <2>1, <2>2, <2>3 DEF TypeOK
<1>4. ASSUME Complete(w) PROVE TypeOK'
  <2>1. RowTypes'
    BY <1>4 DEF RowTypes, Status, Active, Ready, Terminal, Complete, EndRow, NextRound
  <2>2. LoopTypes'
    BY <1>4 DEF LoopTypes, Phase, Busy, Waiting, Outcome, Complete, EndRow, NextRound
  <2>3. OtherTypes'
    BY <1>4 DEF OtherTypes, Complete, EndRow, NextRound
  <2> QED
    BY <2>1, <2>2, <2>3 DEF TypeOK
<1>5. ASSUME Fail(w) PROVE TypeOK'
  <2>1. RowTypes'
    <3>1. status' \in [Job -> Status]
      BY <1>5 DEF RowTypes, Status, Active, Ready, Terminal, Fail, Final, EndRow, NextRound, Holds
    <3>2. attempts' \in [Job -> 0..MaxAttempts]
      BY <1>5 DEF RowTypes, Fail, Final, EndRow, NextRound, Holds
    <3>3. priority' \in [Job -> 0..MaxPriority]
      BY <1>5 DEF RowTypes, Fail, Final, EndRow, NextRound, Holds
    <3>4. notBefore' \in [Job -> Int]
      <4>1. job[w] \in Job => Backoff[attempts[job[w]]] \in Int
        BY DEF RowTypes
      <4>2. PICK d : /\ notBefore' = [notBefore EXCEPT ![job[w]] = d]
                     /\ d = 0 \/ d = Backoff[attempts[job[w]]]
        BY <1>5 DEF Fail
      <4>3. CASE job[w] \in Job
        <5>1. d \in Int
          BY <4>1, <4>2, <4>3
        <5> QED
          BY <4>2, <5>1 DEF RowTypes
      <4>4. CASE job[w] \notin Job
        BY <4>2, <4>4 DEF RowTypes
      <4> QED
        BY <4>3, <4>4
    <3>5. owner' \in [Job -> Worker \cup {Nobody}] /\ leaseLeft' \in [Job -> Int]
      BY <1>5 DEF RowTypes, Fail, Final, EndRow, NextRound, Holds
    <3>6. lastError' \in [Job -> {"NONE", "ITEM_EXCLUDED", "FAILURE"}]
      BY <1>5 DEF RowTypes, Fail, Final, EndRow, NextRound, Holds
    <3> QED
      BY <3>1, <3>2, <3>3, <3>4, <3>5, <3>6 DEF RowTypes
  <2>2. LoopTypes'
    BY <1>5 DEF LoopTypes, Phase, Busy, Waiting, Outcome, Fail, Final, EndRow, NextRound, Holds
  <2>3. OtherTypes'
    BY <1>5 DEF OtherTypes, Fail, Final, EndRow, NextRound, Holds
  <2> QED
    BY <2>1, <2>2, <2>3 DEF TypeOK
<1>6. ASSUME Refused(w) PROVE TypeOK'
  <2>1. RowTypes'
    BY <1>6 DEF RowTypes, Status, Active, Ready, Terminal, Refused, NextRound
  <2>2. LoopTypes'
    BY <1>6 DEF LoopTypes, Phase, Busy, Waiting, Outcome, Refused, NextRound
  <2>3. OtherTypes'
    BY <1>6 DEF OtherTypes, Refused, NextRound
  <2> QED
    BY <2>1, <2>2, <2>3 DEF TypeOK
<1>7. ASSUME RecordError(w) PROVE TypeOK'
  <2>1. RowTypes'
    BY <1>7 DEF RowTypes, Status, Active, Ready, Terminal, RecordError, NextRound
  <2>2. LoopTypes'
    BY <1>7 DEF LoopTypes, Phase, Busy, Waiting, Outcome, RecordError, NextRound
  <2>3. OtherTypes'
    BY <1>7 DEF OtherTypes, RecordError, NextRound
  <2> QED
    BY <2>1, <2>2, <2>3 DEF TypeOK
<1> HIDE DEF TypeOK
<1> QED
  BY <1>1, <1>2, <1>3, <1>4, <1>5, <1>6, <1>7
     DEF Process, Record, Outcome

\* Time and restarts keep the types.
LEMMA TypeEnvironment ==
  ASSUME TypeOK, Tick \/ Restart
  PROVE  TypeOK'
<1> USE ConstantsAssumption DEF ConstantsAssumption, TypeOK, Signal, rows, switches, loops, bounds, history
<1>1. ASSUME Tick PROVE TypeOK'
  <2>1. RowTypes'
    BY <1>1 DEF RowTypes, Status, Active, Ready, Terminal, Tick, Stalls
  <2>2. LoopTypes'
    BY <1>1 DEF LoopTypes, Phase, Busy, Waiting, Outcome, Tick, Stalls
  <2>3. OtherTypes'
    BY <1>1 DEF OtherTypes, Tick, Stalls
  <2> QED
    BY <2>1, <2>2, <2>3 DEF TypeOK
<1>2. ASSUME Restart PROVE TypeOK'
  <2>1. RowTypes'
    BY <1>2 DEF RowTypes, Status, Active, Ready, Terminal, Restart
  <2>2. LoopTypes'
    BY <1>2 DEF LoopTypes, Phase, Busy, Waiting, Outcome, Restart
  <2>3. OtherTypes'
    BY <1>2 DEF OtherTypes, Restart
  <2> QED
    BY <2>1, <2>2, <2>3 DEF TypeOK
<1> QED
  BY <1>1, <1>2

LEMMA TypeStep == TypeOK /\ [Next]_vars => TypeOK'
<1> SUFFICES ASSUME TypeOK, [Next]_vars PROVE TypeOK'
  OBVIOUS
<1>1. CASE UNCHANGED vars
  BY <1>1 DEF TypeOK, RowTypes, LoopTypes, OtherTypes, vars, rows, switches, loops, bounds, history
<1>2. CASE Next
  BY <1>2, TypeCommands, TypeLoop, TypeProcess, TypeEnvironment DEF Next, Step
<1> QED
  BY <1>1, <1>2

\* Every reachable state is well typed: attempt counts and priorities stay within
\* their limits (PrioritizeManualGalleryScan fails rather than pass its own).
THEOREM TypeCorrect == Spec => []TypeOK
  BY TypeInit, TypeStep, PTL DEF Spec

------------------------------------------------------------------------------
(* A worker at work has a job that is in the table.                         *)

\* A row of the model is never deleted (in the code it goes only together with its
\* item), so the job of a worker at work stays in the table.
LEMMA WorkersStep ==
  ASSUME TypeOK, WorkersHaveJobs, Next
  PROVE  WorkersHaveJobs'
<1> USE DEF TypeOK, RowTypes, LoopTypes, OtherTypes, Status, Active, Ready, Terminal, Busy,
          Signal, rows, switches, loops, bounds, history, WorkersHaveJobs, Existing
<1>1. ASSUME NEW j \in Job, NEW p \in Priorities, Enqueue(j, p) PROVE WorkersHaveJobs'
  <2>1. \A k \in Job : status[k] # "ABSENT" => status'[k] # "ABSENT"
    BY <1>1 DEF Enqueue, Insert
  <2>2. UNCHANGED <<phase, job>>
    BY <1>1 DEF Enqueue
  <2> QED
    BY <2>1, <2>2
<1>2. ASSUME NEW j \in Job, NEW p \in Priorities, Requeue(j, p) PROVE WorkersHaveJobs'
  BY <1>2 DEF Requeue, Higher, Command
<1>3. ASSUME NEW j \in Job, Cancel(j) PROVE WorkersHaveJobs'
  BY <1>3 DEF Cancel, Command, EndRow, LoseClaims, WorkingOn
<1>4. ASSUME NEW g \in Gallery, Prioritize(g) PROVE WorkersHaveJobs'
  BY <1>4 DEF Prioritize, Command, ManualSet
<1>5. ASSUME NEW i \in Item, Exclude(i) PROVE WorkersHaveJobs'
  BY <1>5 DEF Exclude, Command, EndRow, LoseClaims, WorkingOn
<1>6. ASSUME NEW i \in Item, NEW P \in SUBSET Item, Restore(i, P) PROVE WorkersHaveJobs'
  BY <1>6 DEF Restore, Command, Higher, Resumable
<1>7. ASSUME SetEnabled PROVE WorkersHaveJobs'
  BY <1>7 DEF SetEnabled, Command
<1>8. ASSUME NEW w \in Worker, Snapshot(w) PROVE WorkersHaveJobs'
  BY <1>8 DEF Snapshot
<1>9. ASSUME NEW w \in Worker, NEW lag \in 0..MaxLag, NEW j \in Job, Claim(w, lag, j) PROVE WorkersHaveJobs'
  BY <1>9 DEF Claim, WorkingOn
<1>10. ASSUME NEW w \in Worker, NEW lag \in 0..MaxLag, ClaimNothing(w, lag) PROVE WorkersHaveJobs'
  BY <1>10 DEF ClaimNothing
<1>11. ASSUME NEW w \in Worker, FallAsleep(w) PROVE WorkersHaveJobs'
  BY <1>11 DEF FallAsleep, SleepFor, Deadlines, Higher
<1>12. ASSUME NEW w \in Worker, WakeUp(w) PROVE WorkersHaveJobs'
  BY <1>12 DEF WakeUp
<1>13. ASSUME NEW w \in Worker, NEW lag \in 0..MaxLag, Heartbeat(w, lag) PROVE WorkersHaveJobs'
  BY <1>13 DEF Heartbeat
<1>14. ASSUME NEW w \in Worker, ReadItem(w) PROVE WorkersHaveJobs'
  BY <1>14 DEF ReadItem
<1>15. ASSUME NEW w \in Worker, Succeed(w) PROVE WorkersHaveJobs'
  <2>1. \A k \in Job : status[k] # "ABSENT" => status'[k] # "ABSENT"
    BY <1>15 DEF Succeed, Insert
  <2>2. /\ \A x \in Worker : phase'[x] \in Busy <=> phase[x] \in Busy
        /\ UNCHANGED job
    BY <1>15 DEF Succeed
  <2> QED
    BY <2>1, <2>2
<1>16. ASSUME NEW w \in Worker, NEW k \in Outcome, Err(w, k) PROVE WorkersHaveJobs'
  BY <1>16 DEF Err
<1>17. ASSUME NEW w \in Worker, Complete(w) PROVE WorkersHaveJobs'
  BY <1>17 DEF Complete, EndRow, NextRound
<1>18. ASSUME NEW w \in Worker, Fail(w) PROVE WorkersHaveJobs'
  BY <1>18 DEF Fail, Final, EndRow, NextRound, Holds
<1>19. ASSUME NEW w \in Worker, Refused(w) PROVE WorkersHaveJobs'
  BY <1>19 DEF Refused, NextRound
<1>20. ASSUME NEW w \in Worker, RecordError(w) PROVE WorkersHaveJobs'
  BY <1>20 DEF RecordError, NextRound
<1>21. ASSUME Tick PROVE WorkersHaveJobs'
  BY <1>21 DEF Tick, Stalls
<1>22. ASSUME Restart PROVE WorkersHaveJobs'
  BY <1>22 DEF Restart
<1>23. ASSUME NEW w \in Worker, ClaimFails(w) \/ NextWakeFails(w) PROVE WorkersHaveJobs'
  BY <1>23 DEF ClaimFails, NextWakeFails
<1> QED
  BY <1>1, <1>2, <1>3, <1>4, <1>5, <1>6, <1>7, <1>8, <1>9, <1>10, <1>11, <1>12, <1>13, <1>14, <1>15, <1>16,
        <1>17, <1>18, <1>19, <1>20, <1>21, <1>22, <1>23
     DEF Next, Commands, Step, ClaimNext, Process, Record, Beat, Outcome

\* Every transaction that ends or moves a claim is the worker's own or marks it lost.
LEMMA FencedStep ==
  ASSUME TypeOK, WorkersHaveJobs, FencedByName, TypeOK', Next
  PROVE  FencedByName'
<1> USE DEF TypeOK, RowTypes, LoopTypes, OtherTypes, Status, Active, Ready, Terminal, Busy,
          Signal, rows, switches, loops, bounds, history,
          WorkersHaveJobs, Existing, FencedByName, Holds
<1>1. ASSUME NEW j \in Job, NEW p \in Priorities, Enqueue(j, p) PROVE FencedByName'
  <2>1. \A k \in Job : status'[k] = "RUNNING" <=> status[k] = "RUNNING"
    BY <1>1 DEF Enqueue, Insert
  <2>2. UNCHANGED <<phase, job, owner, lost>>
    BY <1>1 DEF Enqueue
  <2> QED
    BY <2>1, <2>2
<1>2. ASSUME NEW j \in Job, NEW p \in Priorities, Requeue(j, p) PROVE FencedByName'
  BY <1>2 DEF Requeue, Higher, Command
<1>3. ASSUME NEW j \in Job, Cancel(j) PROVE FencedByName'
  BY <1>3 DEF Cancel, Command, EndRow, LoseClaims, WorkingOn
<1>4. ASSUME NEW g \in Gallery, Prioritize(g) PROVE FencedByName'
  BY <1>4 DEF Prioritize, Command, ManualSet
<1>5. ASSUME NEW i \in Item, Exclude(i) PROVE FencedByName'
  BY <1>5 DEF Exclude, Command, EndRow, LoseClaims, WorkingOn
<1>6. ASSUME NEW i \in Item, NEW P \in SUBSET Item, Restore(i, P) PROVE FencedByName'
  BY <1>6 DEF Restore, Command, Higher, Resumable
<1>7. ASSUME SetEnabled PROVE FencedByName'
  BY <1>7 DEF SetEnabled, Command
<1>8. ASSUME NEW w \in Worker, Snapshot(w) PROVE FencedByName'
  BY <1>8 DEF Snapshot
<1>9. ASSUME NEW w \in Worker, NEW lag \in 0..MaxLag, NEW j \in Job, Claim(w, lag, j) PROVE FencedByName'
  <2> SUFFICES ASSUME NEW x \in Worker, phase'[x] \in Busy
               PROVE  Holds(x)' <=> x \notin lost'
    BY DEF FencedByName
  <2> DEFINE E == Expired(lag)
  <2>1. /\ lost' = (lost \cup WorkingOn(E)) \ {w}
        /\ phase' = [phase EXCEPT ![w] = "claimed"] /\ job' = [job EXCEPT ![w] = j]
        /\ status' = [k \in Job |-> IF k = j THEN "RUNNING"
                                    ELSE IF k \in E THEN "PENDING" ELSE status[k]]
        /\ owner' = [k \in Job |-> IF k = j THEN w ELSE IF k \in E THEN Nobody ELSE owner[k]]
    BY <1>9 DEF Claim
  <2>2. status[j] = "RUNNING" => j \in E
    BY <1>9 DEF Claim, Claimable
  <2> HIDE DEF E
  <2>3. CASE x = w
    BY <2>1, <2>3
  <2>4. CASE x # w
    <3>1. phase[x] \in Busy /\ job'[x] = job[x] /\ job[x] \in Job
      BY <2>1, <2>4
    <3>2. x \in lost' <=> x \in lost \/ job[x] \in E
      BY <2>1, <2>4, <3>1 DEF WorkingOn
    <3>3. CASE job[x] = j
      BY <2>1, <2>2, <2>4, <3>1, <3>2, <3>3
    <3>4. CASE job[x] # j
      <4>1. CASE job[x] \in E
        BY <2>1, <3>1, <3>2, <3>4, <4>1
      <4>2. CASE job[x] \notin E
        <5>1. status'[job[x]] = status[job[x]] /\ owner'[job[x]] = owner[job[x]]
          BY <2>1, <3>1, <3>4, <4>2
        <5> QED
          BY <3>1, <3>2, <4>2, <5>1
      <4> QED
        BY <4>1, <4>2
    <3> QED
      BY <3>3, <3>4
  <2> QED
    BY <2>3, <2>4
<1>10. ASSUME NEW w \in Worker, NEW lag \in 0..MaxLag, ClaimNothing(w, lag) PROVE FencedByName'
  BY <1>10 DEF ClaimNothing
<1>11. ASSUME NEW w \in Worker, FallAsleep(w) PROVE FencedByName'
  BY <1>11 DEF FallAsleep, SleepFor, Deadlines, Higher
<1>12. ASSUME NEW w \in Worker, WakeUp(w) PROVE FencedByName'
  BY <1>12 DEF WakeUp
<1>13. ASSUME NEW w \in Worker, NEW lag \in 0..MaxLag, Heartbeat(w, lag) PROVE FencedByName'
  BY <1>13 DEF Heartbeat
<1>14. ASSUME NEW w \in Worker, ReadItem(w) PROVE FencedByName'
  BY <1>14 DEF ReadItem
<1>15. ASSUME NEW w \in Worker, Succeed(w) PROVE FencedByName'
  <2>1. \A k \in Job : status'[k] = "RUNNING" <=> status[k] = "RUNNING"
    BY <1>15 DEF Succeed, Insert
  <2>2. /\ \A x \in Worker : phase'[x] \in Busy <=> phase[x] \in Busy
        /\ UNCHANGED <<job, owner, lost>>
    BY <1>15 DEF Succeed
  <2> QED
    BY <2>1, <2>2
<1>16. ASSUME NEW w \in Worker, NEW k \in Outcome, Err(w, k) PROVE FencedByName'
  BY <1>16 DEF Err
<1>17. ASSUME NEW w \in Worker, Complete(w) PROVE FencedByName'
  BY <1>17 DEF Complete, EndRow, NextRound
<1>18. ASSUME NEW w \in Worker, Fail(w) PROVE FencedByName'
  BY <1>18 DEF Fail, Final, EndRow, NextRound, Holds
<1>19. ASSUME NEW w \in Worker, Refused(w) PROVE FencedByName'
  BY <1>19 DEF Refused, NextRound
<1>20. ASSUME NEW w \in Worker, RecordError(w) PROVE FencedByName'
  BY <1>20 DEF RecordError, NextRound
<1>21. ASSUME Tick PROVE FencedByName'
  BY <1>21 DEF Tick, Stalls
<1>22. ASSUME Restart PROVE FencedByName'
  BY <1>22 DEF Restart
<1>23. ASSUME NEW w \in Worker, ClaimFails(w) \/ NextWakeFails(w) PROVE FencedByName'
  BY <1>23 DEF ClaimFails, NextWakeFails
<1> QED
  BY <1>1, <1>2, <1>3, <1>4, <1>5, <1>6, <1>7, <1>8, <1>9, <1>10, <1>11, <1>12, <1>13, <1>14, <1>15, <1>16,
        <1>17, <1>18, <1>19, <1>20, <1>21, <1>22, <1>23
     DEF Next, Commands, Step, ClaimNext, Process, Record, Beat, Outcome

\* A worker's Complete or Fail passes its guard exactly while the claim it was
\* given still stands, although the guard compares only the owner's name and the
\* names are used again after every job and every restart.
THEOREM Fenced == Spec => []FencedByName
<1> DEFINE Inv == TypeOK /\ WorkersHaveJobs /\ FencedByName
<1>1. Init => Inv
  BY TypeInit DEF Init, WorkersHaveJobs, FencedByName, Busy
<1>2. Inv /\ [Next]_vars => Inv'
  <2> SUFFICES ASSUME Inv, [Next]_vars PROVE Inv'
    OBVIOUS
  <2>1. CASE UNCHANGED vars
    BY <2>1, TypeStep DEF vars, rows, loops, history, WorkersHaveJobs, Existing, FencedByName, Holds
  <2>2. CASE Next
    BY <2>2, TypeStep, WorkersStep, FencedStep
  <2> QED
    BY <2>1, <2>2
<1> QED
  BY <1>1, <1>2, PTL DEF Spec

------------------------------------------------------------------------------
(* A cancel by the owner is final.                                          *)

\* Only Requeue opens a row without the exclusion's mark, and only Exclude sets it.
LEMMA CancelStep ==
  ASSUME TypeOK, MarksAreExclusions, OwnerCancelIsFinal, Next
  PROVE  (MarksAreExclusions /\ OwnerCancelIsFinal)'
<1> USE DEF TypeOK, RowTypes, LoopTypes, OtherTypes, Status, Active, Ready, Terminal, Busy,
          Signal, rows, switches, loops, bounds, history,
          MarksAreExclusions, OwnerCancelIsFinal
<1>1. ASSUME NEW j \in Job, NEW p \in Priorities, Enqueue(j, p)
      PROVE (MarksAreExclusions /\ OwnerCancelIsFinal)'
  BY <1>1 DEF Enqueue, Insert, Higher
<1>2. ASSUME NEW j \in Job, NEW p \in Priorities, Requeue(j, p)
      PROVE (MarksAreExclusions /\ OwnerCancelIsFinal)'
  BY <1>2 DEF Requeue, Higher, Command
<1>3. ASSUME NEW j \in Job, Cancel(j) PROVE (MarksAreExclusions /\ OwnerCancelIsFinal)'
  BY <1>3 DEF Cancel, Command, EndRow, LoseClaims, WorkingOn
<1>4. ASSUME NEW g \in Gallery, Prioritize(g) PROVE (MarksAreExclusions /\ OwnerCancelIsFinal)'
  BY <1>4 DEF Prioritize, Command, ManualSet
<1>5. ASSUME NEW i \in Item, Exclude(i) PROVE (MarksAreExclusions /\ OwnerCancelIsFinal)'
  <2>1. \A k \in Job : lastError'[k] = "ITEM_EXCLUDED" => status'[k] = "CANCELLED"
    BY <1>5 DEF Exclude, EndRow
  <2>2. \A k \in ownerCancelled' : lastError'[k] # "ITEM_EXCLUDED" /\ status'[k] = "CANCELLED"
    BY <1>5 DEF Exclude, EndRow
  <2> QED
    BY <2>1, <2>2
<1>6. ASSUME NEW i \in Item, NEW P \in SUBSET Item, Restore(i, P)
      PROVE (MarksAreExclusions /\ OwnerCancelIsFinal)'
  BY <1>6 DEF Restore, Command, Higher, Resumable
<1>7. ASSUME SetEnabled PROVE (MarksAreExclusions /\ OwnerCancelIsFinal)'
  BY <1>7 DEF SetEnabled, Command
<1>8. ASSUME NEW w \in Worker, Snapshot(w) PROVE (MarksAreExclusions /\ OwnerCancelIsFinal)'
  BY <1>8 DEF Snapshot
<1>9. ASSUME NEW w \in Worker, NEW lag \in 0..MaxLag, NEW j \in Job, Claim(w, lag, j)
      PROVE (MarksAreExclusions /\ OwnerCancelIsFinal)'
  <2>1. \A k \in Job : status[k] = "CANCELLED" => status'[k] = "CANCELLED"
    BY <1>9 DEF Claim, Claimable, Expired
  <2>2. UNCHANGED <<lastError, ownerCancelled>>
    BY <1>9 DEF Claim
  <2> QED
    BY <2>1, <2>2
<1>10. ASSUME NEW w \in Worker, NEW lag \in 0..MaxLag, ClaimNothing(w, lag)
      PROVE (MarksAreExclusions /\ OwnerCancelIsFinal)'
  BY <1>10 DEF ClaimNothing
<1>11. ASSUME NEW w \in Worker, FallAsleep(w) PROVE (MarksAreExclusions /\ OwnerCancelIsFinal)'
  BY <1>11 DEF FallAsleep, SleepFor, Deadlines, Higher
<1>12. ASSUME NEW w \in Worker, WakeUp(w) PROVE (MarksAreExclusions /\ OwnerCancelIsFinal)'
  BY <1>12 DEF WakeUp
<1>13. ASSUME NEW w \in Worker, NEW lag \in 0..MaxLag, Heartbeat(w, lag)
      PROVE (MarksAreExclusions /\ OwnerCancelIsFinal)'
  BY <1>13 DEF Heartbeat
<1>14. ASSUME NEW w \in Worker, ReadItem(w) PROVE (MarksAreExclusions /\ OwnerCancelIsFinal)'
  BY <1>14 DEF ReadItem
<1>15. ASSUME NEW w \in Worker, Succeed(w) PROVE (MarksAreExclusions /\ OwnerCancelIsFinal)'
  BY <1>15 DEF Succeed, Insert, Higher
<1>16. ASSUME NEW w \in Worker, NEW k \in Outcome, Err(w, k) PROVE (MarksAreExclusions /\ OwnerCancelIsFinal)'
  BY <1>16 DEF Err
<1>17. ASSUME NEW w \in Worker, Complete(w) PROVE (MarksAreExclusions /\ OwnerCancelIsFinal)'
  <2>1. \A k \in Job : status[k] = "CANCELLED" => status'[k] = "CANCELLED"
    BY <1>17 DEF Complete, Holds, EndRow
  <2>2. UNCHANGED <<lastError, ownerCancelled>>
    BY <1>17 DEF Complete
  <2> QED
    BY <2>1, <2>2
<1>18. ASSUME NEW w \in Worker, Fail(w) PROVE (MarksAreExclusions /\ OwnerCancelIsFinal)'
  BY <1>18 DEF Fail, Final, EndRow, NextRound, Holds
<1>19. ASSUME NEW w \in Worker, Refused(w) PROVE (MarksAreExclusions /\ OwnerCancelIsFinal)'
  BY <1>19 DEF Refused, NextRound
<1>20. ASSUME NEW w \in Worker, RecordError(w) PROVE (MarksAreExclusions /\ OwnerCancelIsFinal)'
  BY <1>20 DEF RecordError, NextRound
<1>21. ASSUME Tick PROVE (MarksAreExclusions /\ OwnerCancelIsFinal)'
  BY <1>21 DEF Tick, Stalls
<1>22. ASSUME Restart PROVE (MarksAreExclusions /\ OwnerCancelIsFinal)'
  BY <1>22 DEF Restart
<1>23. ASSUME NEW w \in Worker, ClaimFails(w) \/ NextWakeFails(w) PROVE (MarksAreExclusions /\ OwnerCancelIsFinal)'
  BY <1>23 DEF ClaimFails, NextWakeFails
<1> QED
  BY <1>1, <1>2, <1>3, <1>4, <1>5, <1>6, <1>7, <1>8, <1>9, <1>10, <1>11, <1>12, <1>13, <1>14, <1>15, <1>16,
        <1>17, <1>18, <1>19, <1>20, <1>21, <1>22, <1>23
     DEF Next, Commands, Step, ClaimNext, Process, Record, Beat, Outcome

\* A job the owner cancelled stays cancelled until the owner requeues it: neither
\* scans, nor restoring its item after an exclusion, nor a worker that was still
\* running it brings it back.
THEOREM CancelFinal == Spec => []OwnerCancelIsFinal
<1> DEFINE Inv == TypeOK /\ MarksAreExclusions /\ OwnerCancelIsFinal
<1>1. Init => Inv
  BY TypeInit DEF Init, MarksAreExclusions, OwnerCancelIsFinal
<1>2. Inv /\ [Next]_vars => Inv'
  <2> SUFFICES ASSUME Inv, [Next]_vars PROVE Inv'
    OBVIOUS
  <2>1. CASE UNCHANGED vars
    BY <2>1, TypeStep DEF vars, rows, history, MarksAreExclusions, OwnerCancelIsFinal
  <2>2. CASE Next
    BY <2>2, TypeStep, CancelStep
  <2> QED
    BY <2>1, <2>2
<1> QED
  BY <1>1, <1>2, PTL DEF Spec

==============================================================================

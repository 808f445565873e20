------------------------ MODULE RestoreProtocolProofs ------------------------
(***************************************************************************)
(* Theorems about RestoreProtocol, for any loops and numbers of            *)
(* restorations, writes and disturbances.                                  *)
(***************************************************************************)
EXTENDS RestoreProtocol, TLAPS

(* What a restoration has at each of its steps.                             *)

HandleOpen == Early \cup Staging \cup {"stop", "drain", "close", "abandon"}
HandleClosed == Swapping \cup Undoing \cup {"serve"}
Parked == Staging \cup Swapping \cup Undoing \cup {"abandon", "close", "serve", "clean"}

\* Nothing runs in a process that is down, and a request holds an open database.
Alive ==
  /\ ~up => pc = "idle" /\ ~handle /\ Drained
  /\ request => handle /\ live.data < MaxWrites
\* The database is closed from CloseLive to Serve, and the loops are away meanwhile.
Handle ==
  /\ pc \in HandleOpen => handle
  /\ pc \in HandleClosed => ~handle
Away ==
  /\ pc \in Parked => Drained
  /\ ~handle => Drained
\* A loop at the mutex has a section left to do.
HasWork == \A l \in Loop : loop[l] \in {"waiting", "inside"} => todo[l] > 0
\* While a restoration is under way, no mapping is pending.
NothingPending ==
  /\ aside.vetted # "unmapped"
  /\ pc \notin {"idle", "lock", "serve", "clean"} => live.vetted # "unmapped"

IInv == TypeOK /\ Alive /\ Handle /\ Away /\ HasWork /\ NothingPending

\* A server that has just started, with its original database, meets the invariant.
LEMMA InvInit == Init => IInv
<1> SUFFICES ASSUME Init PROVE IInv
  OBVIOUS
<1> USE RestoreAssumption DEF Init, Original, NoDatabase, Gens
<1>1. ProcessTypes
  <2>1. loop \in [Loop -> {"off", "out", "waiting", "inside"}] /\ todo \in [Loop -> 0..2]
    OBVIOUS
  <2> QED BY <2>1 DEF ProcessTypes
<1>2. CallTypes
  <2>1. before \in Gens \X Gens
    OBVIOUS
  <2>2. written \in 0..MaxWrites /\ restores \in 0..MaxRestores /\ used \in 0..MaxEvents
    OBVIOUS
  <2> QED BY <2>1, <2>2 DEF CallTypes, Steps
<1>3. DiskTypes /\ Pending
  BY DEF DiskTypes, Pending, Database
<1>4. MutexHeld
  BY DEF MutexHeld
<1>5. Alive /\ Handle /\ Away /\ HasWork /\ NothingPending
  BY DEF Alive, Handle, Away, HasWork, NothingPending, HandleOpen, HandleClosed, Parked,
     Steps, Early, Staging, Swapping, Undoing
<1> QED BY <1>1, <1>2, <1>3, <1>4, <1>5 DEF IInv, TypeOK

(* Types.                                                                   *)

\* The loops are where they were or start anew.
LEMMA StartTypes ==
  ASSUME ProcessTypes, StartWorkers
  PROVE  /\ running' \in BOOLEAN
         /\ loop' \in [Loop -> {"off", "out", "waiting", "inside"}] /\ todo' \in [Loop -> 0..2]
<1>1. running' \in BOOLEAN
  BY DEF ProcessTypes, StartWorkers, loops
<1>2. loop' \in [Loop -> {"off", "out", "waiting", "inside"}]
  BY DEF ProcessTypes, StartWorkers, loops
<1>3. todo' \in [Loop -> 0..2]
  BY DEF ProcessTypes, StartWorkers, loops
<1> QED BY <1>1, <1>2, <1>3

\* The process, the mutex and the loops keep their types.
LEMMA ProcessStep == IInv /\ [Next]_vars => ProcessTypes'
<1> SUFFICES ASSUME IInv, [Next]_vars PROVE ProcessTypes'
  OBVIOUS
<1> USE RestoreAssumption DEF IInv, TypeOK, ProcessTypes, process, loops
<1>1. CASE Owner
  <2>1. CASE ResumeMaintenance
    BY <2>1, StartTypes DEF ResumeMaintenance
  <2>2. CASE Ask \/ ApplyRestorePathMappings \/ Admit \/ Write
    BY <2>2 DEF Ask, ApplyRestorePathMappings, Admit, Write
  <2> QED BY <1>1, <2>1, <2>2 DEF Owner
<1>2. CASE Begin
  BY <1>2 DEF Begin, Return
<1>3. CASE Proceed
  BY <1>3 DEF Proceed, Goes, Prepare, CreateSafetyFull, EnterMaintenance, CancelWorkers, AwaitWorkers,
     StageDatabase, StageCoser, CloseLive, MoveDatabaseAside, InstallDatabase, MoveCoserAside, InstallCoser,
     OpenReplacement, Register, Finalize, Serve, RemoveAside, Return
<1>4. CASE Fail
  <2>1. CASE Abandon
    BY <2>1, StartTypes DEF Abandon, Return
  <2>2. CASE FailClose
    <3>1. running' \in BOOLEAN /\ loop' \in [Loop -> {"off", "out", "waiting", "inside"}] /\ todo' \in [Loop -> 0..2]
      BY <2>2, StartTypes DEF FailClose
    <3> QED BY <2>2, <3>1 DEF FailClose, Return
  <2>3. CASE FailEarly \/ FailStaging \/ FailSwap
    BY <2>3 DEF FailEarly, FailStaging, FailSwap, Return
  <2> QED BY <1>4, <2>1, <2>2, <2>3 DEF Fail
<1>5. CASE Undo
  <2>1. CASE Recover
    BY <2>1, StartTypes DEF Recover, Return
  <2>2. CASE Undo /\ ~Recover
    BY <2>2 DEF Undo, RemoveDatabase, ReturnDatabase, RemoveCoser, ReturnCoser, Reopen, Return
  <2> QED BY <1>5, <2>1, <2>2
<1>6. ASSUME NEW l \in Loop, Iterate(l) \/ Work(l) \/ Lock(l) PROVE ProcessTypes'
  <2>1. CASE Iterate(l)
    BY <2>1 DEF Iterate
  <2>2. CASE Unlock(l)
    BY <2>2 DEF Unlock, Moves, HasWork
  <2>3. CASE WantLock(l) \/ Exit(l) \/ Lock(l)
    BY <2>3 DEF WantLock, Exit, Lock, Moves
  <2> QED BY <1>6, <2>1, <2>2, <2>3 DEF Work
<1>7. CASE HangUp \/ UNCHANGED vars
  BY <1>7 DEF HangUp, vars
<1>8. CASE Crash
  <2>1. loop' \in [Loop -> {"off", "out", "waiting", "inside"}] /\ todo' \in [Loop -> 0..2]
    BY <1>8 DEF Crash
  <2> QED BY <1>8, <2>1 DEF Crash
<1>9. CASE Start
  BY <1>9, StartTypes DEF Start
<1> QED BY <1>1, <1>2, <1>3, <1>4, <1>5, <1>6, <1>7, <1>8, <1>9 DEF Next, Restore

\* The call of RestoreBackup, its history and the counters keep their types.
LEMMA CallStep == IInv /\ [Next]_vars => CallTypes'
<1> SUFFICES ASSUME IInv, [Next]_vars PROVE CallTypes'
  OBVIOUS
<1> USE RestoreAssumption DEF IInv, TypeOK, CallTypes, Steps, Early, Staging, Swapping, Undoing,
      history, Spend, SpendSome, Return
<1>1. CASE Owner
  <2>1. CASE Ask
    <3>1. full' \in BOOLEAN /\ gone' \in BOOLEAN
      BY <2>1 DEF Ask
    <3>2. restores' \in 0..MaxRestores /\ used' \in 0..MaxEvents /\ written' \in 0..MaxWrites
      BY <2>1 DEF Ask
    <3> QED BY <2>1, <3>1, <3>2 DEF Ask
  <2>2. CASE Write
    <3>1. written' \in 0..MaxWrites
      BY <2>2 DEF Write, Alive, DiskTypes, Database
    <3> QED BY <2>2, <3>1 DEF Write
  <2>3. CASE ApplyRestorePathMappings \/ ResumeMaintenance \/ Admit
    BY <2>3 DEF ApplyRestorePathMappings, ResumeMaintenance, Admit
  <2> QED BY <1>1, <2>1, <2>2, <2>3 DEF Owner
<1>2. CASE Begin
  <2>1. before' \in Gens \X Gens /\ written' \in 0..MaxWrites
    BY <1>2 DEF Begin, DiskTypes, Database
  <2> QED BY <1>2, <2>1 DEF Begin
<1>3. CASE Proceed
  BY <1>3 DEF Proceed, Goes, Prepare, CreateSafetyFull, EnterMaintenance, CancelWorkers, AwaitWorkers,
     StageDatabase, StageCoser, CloseLive, MoveDatabaseAside, InstallDatabase, MoveCoserAside, InstallCoser,
     OpenReplacement, Register, Finalize, Serve, RemoveAside
<1>4. CASE Fail
  BY <1>4 DEF Fail, FailEarly, FailStaging, Abandon, FailClose, FailSwap, Fault
<1>5. CASE Undo
  BY <1>5 DEF Undo, Goes, RemoveDatabase, ReturnDatabase, RemoveCoser, ReturnCoser, Reopen, Recover, Ignored
<1>6. ASSUME NEW l \in Loop, Iterate(l) \/ Work(l) \/ Lock(l) PROVE CallTypes'
  BY <1>6 DEF Iterate, Work, WantLock, Unlock, Exit, Lock
<1>7. CASE HangUp
  BY <1>7 DEF HangUp
<1>8. CASE Crash
  <2>1. pc' \in Steps /\ full' \in BOOLEAN /\ gone' \in BOOLEAN /\ swapped' = {} /\ result' = "none"
    BY <1>8 DEF Crash
  <2>2. used' \in 0..MaxEvents
    BY <1>8 DEF Crash
  <2> QED BY <1>8, <2>1, <2>2 DEF Crash
<1>9. CASE Start \/ UNCHANGED vars
  BY <1>9 DEF Start, vars
<1> QED BY <1>1, <1>2, <1>3, <1>4, <1>5, <1>6, <1>7, <1>8, <1>9 DEF Next, Restore

\* Databases and metadata keep their types; a write is within its bound.
LEMMA DiskStep == IInv /\ [Next]_vars => DiskTypes'
<1> SUFFICES ASSUME IInv, [Next]_vars PROVE DiskTypes'
  OBVIOUS
<1> USE RestoreAssumption DEF IInv, TypeOK, DiskTypes, Database, Gens, disk, databases, metadata
<1>1. CASE Owner
  <2>1. CASE Write
    BY <2>1 DEF Write, Alive
  <2>2. CASE Ask \/ ApplyRestorePathMappings \/ ResumeMaintenance \/ Admit
    BY <2>2 DEF Ask, ApplyRestorePathMappings, ResumeMaintenance, Admit
  <2> QED BY <1>1, <2>1, <2>2 DEF Owner
<1>2. CASE Begin
  BY <1>2 DEF Begin, Return
<1>3. CASE Proceed
  <2>1. CASE Prepare \/ CreateSafetyFull \/ CancelWorkers \/ AwaitWorkers \/ CloseLive \/ OpenReplacement \/
        Serve
    BY <2>1 DEF Prepare, CreateSafetyFull, CancelWorkers, AwaitWorkers, CloseLive, OpenReplacement, Serve
  <2>2. CASE EnterMaintenance \/ Register \/ Finalize
    BY <2>2 DEF EnterMaintenance, Register, Finalize
  <2>3. CASE StageDatabase \/ StageCoser
    BY <2>3 DEF StageDatabase, StageCoser
  <2>4. CASE MoveDatabaseAside
    BY <2>4 DEF MoveDatabaseAside, NoDatabase
  <2>5. CASE InstallDatabase
    <3>1. Packed \in Database
      BY DEF Packed, CallTypes
    <3> QED BY <2>5, <3>1 DEF InstallDatabase
  <2>6. CASE MoveCoserAside
    BY <2>6 DEF MoveCoserAside
  <2>7. CASE InstallCoser
    BY <2>7 DEF InstallCoser, CallTypes
  <2>8. CASE RemoveAside
    BY <2>8 DEF RemoveAside, Return, NoDatabase
  <2> QED BY <1>3, <2>1, <2>2, <2>3, <2>4, <2>5, <2>6, <2>7, <2>8 DEF Proceed
<1>4. CASE Fail
  BY <1>4 DEF Fail, FailEarly, FailStaging, Abandon, FailClose, FailSwap, Return
<1>5. CASE Undo
  BY <1>5 DEF Undo, RemoveDatabase, ReturnDatabase, RemoveCoser, ReturnCoser, Reopen, Recover, Return,
     NoDatabase, Opened, Fresh
<1>6. ASSUME NEW l \in Loop, Iterate(l) \/ Work(l) \/ Lock(l) PROVE DiskTypes'
  BY <1>6 DEF Iterate, Work, WantLock, Unlock, Exit, Lock
<1>7. CASE HangUp \/ Crash \/ Start \/ UNCHANGED vars
  BY <1>7 DEF HangUp, Crash, Start, vars, NoDatabase, Opened, Fresh
<1> QED BY <1>1, <1>2, <1>3, <1>4, <1>5, <1>6, <1>7 DEF Next, Restore

(* The rest of the invariant.                                               *)

\* The mutex has one holder, and he knows it.
LEMMA MutexStep == IInv /\ [Next]_vars => MutexHeld'
<1> SUFFICES ASSUME IInv, [Next]_vars PROVE MutexHeld'
  OBVIOUS
<1> USE RestoreAssumption DEF IInv, TypeOK, MutexHeld, ProcessTypes, CallTypes,
      Steps, Early, Staging, Swapping, Undoing, Return, process, loops
<1>1. CASE Owner
  BY <1>1 DEF Owner, Ask, ApplyRestorePathMappings, ResumeMaintenance, Admit, Write, StartWorkers
<1>2. CASE Begin
  BY <1>2 DEF Begin
<1>3. CASE Proceed
  BY <1>3 DEF Proceed, Goes, Prepare, CreateSafetyFull, EnterMaintenance, CancelWorkers, AwaitWorkers,
     StageDatabase, StageCoser, CloseLive, MoveDatabaseAside, InstallDatabase, MoveCoserAside, InstallCoser,
     OpenReplacement, Register, Finalize, Serve, RemoveAside
<1>4. CASE Fail
  BY <1>4 DEF Fail, FailEarly, FailStaging, Abandon, FailClose, FailSwap, StartWorkers
<1>5. CASE Undo
  BY <1>5 DEF Undo, Goes, RemoveDatabase, ReturnDatabase, RemoveCoser, ReturnCoser, Reopen, Recover,
        StartWorkers
<1>6. ASSUME NEW l \in Loop, Iterate(l) \/ Work(l) \/ Lock(l) PROVE MutexHeld'
  BY <1>6 DEF Iterate, Work, WantLock, Unlock, Exit, Lock, Moves
<1>7. CASE HangUp \/ Crash \/ Start
  <2>1. CASE Crash
    <3>1. \A l \in Loop : mu' # l /\ loop'[l] # "inside"
      BY <2>1 DEF Crash
    <3> QED BY <2>1, <3>1 DEF Crash
  <2>2. CASE Start
    <3>1. \A l \in Loop : mu # l /\ loop'[l] # "inside"
      BY <2>2 DEF Start, StartWorkers, Alive, Drained
    <3> QED BY <2>2, <3>1 DEF Start
  <2>3. CASE HangUp
    BY <2>3 DEF HangUp
  <2> QED BY <1>7, <2>1, <2>2, <2>3
<1>8. CASE UNCHANGED vars
  BY <1>8 DEF vars
<1> QED BY <1>1, <1>2, <1>3, <1>4, <1>5, <1>6, <1>7, <1>8 DEF Next, Restore

\* A pending mapping keeps the maintenance mode.
LEMMA PendingStep == IInv /\ [Next]_vars => Pending'
<1> SUFFICES ASSUME IInv, [Next]_vars PROVE Pending'
  OBVIOUS
<1> USE RestoreAssumption DEF IInv, TypeOK, Pending, NothingPending, DiskTypes, Database, NoDatabase, Opened,
      Fresh,
      Serving, Return, process, disk, databases, metadata
<1>1. CASE Owner
  BY <1>1 DEF Owner, Ask, ApplyRestorePathMappings, ResumeMaintenance, Admit, Write, StartWorkers
<1>2. CASE Begin
  BY <1>2 DEF Begin
<1>3. CASE Proceed
  <2>1. CASE MoveDatabaseAside \/ InstallDatabase
    BY <2>1 DEF MoveDatabaseAside, InstallDatabase, Packed
  <2>2. CASE EnterMaintenance
    <3>1. live.vetted # "unmapped"
      BY <2>2 DEF EnterMaintenance, Goes
    <3>2. live'.vetted = live.vetted
      BY <2>2 DEF EnterMaintenance
    <3> QED BY <3>1, <3>2
  <2>3. CASE Register \/ Finalize
    BY <2>3 DEF Register, Finalize
  <2>4. CASE Proceed /\ UNCHANGED live
    BY <2>4
  <2> QED BY <1>3, <2>1, <2>2, <2>3, <2>4 DEF Proceed, Prepare, CreateSafetyFull, CancelWorkers, AwaitWorkers,
         StageDatabase, StageCoser, CloseLive, MoveCoserAside, InstallCoser, OpenReplacement, Serve, RemoveAside
<1>4. CASE Fail
  BY <1>4 DEF Fail, FailEarly, FailStaging, Abandon, FailClose, FailSwap, StartWorkers
<1>5. CASE Undo
  BY <1>5 DEF Undo, Goes, RemoveDatabase, ReturnDatabase, RemoveCoser, ReturnCoser, Reopen, Recover,
        StartWorkers
<1>6. ASSUME NEW l \in Loop, Iterate(l) \/ Work(l) \/ Lock(l) PROVE Pending'
  BY <1>6 DEF Iterate, Work, WantLock, Unlock, Exit, Lock, Moves
<1>7. CASE HangUp \/ Crash \/ Start
  BY <1>7 DEF HangUp, Crash, Start, StartWorkers
<1>8. CASE UNCHANGED vars
  BY <1>8 DEF vars
<1> QED BY <1>1, <1>2, <1>3, <1>4, <1>5, <1>6, <1>7, <1>8 DEF Next, Restore

\* A request is not there without an open database.
LEMMA AliveStep == IInv /\ [Next]_vars => Alive'
<1> SUFFICES ASSUME IInv, [Next]_vars PROVE Alive'
  OBVIOUS
<1> USE RestoreAssumption DEF IInv, TypeOK, Alive, ProcessTypes, DiskTypes, Database, Handle, HandleOpen,
      HandleClosed,
      Drained, Serving, Return, Steps, Early, Staging, Swapping, Undoing, process, loops, disk, databases, metadata
<1>1. CASE Owner
  BY <1>1 DEF Owner, Ask, ApplyRestorePathMappings, ResumeMaintenance, Admit, Write, StartWorkers
<1>2. CASE Begin
  BY <1>2 DEF Begin
<1>3. CASE Proceed
  BY <1>3 DEF Proceed, Goes, Prepare, CreateSafetyFull, EnterMaintenance, CancelWorkers, AwaitWorkers,
     StageDatabase, StageCoser, CloseLive, MoveDatabaseAside, InstallDatabase, MoveCoserAside, InstallCoser,
     OpenReplacement, Register, Finalize, Serve, RemoveAside
<1>4. CASE Fail
  BY <1>4 DEF Fail, FailEarly, FailStaging, Abandon, FailClose, FailSwap, StartWorkers
<1>5. CASE Undo
  BY <1>5 DEF Undo, Goes, RemoveDatabase, ReturnDatabase, RemoveCoser, ReturnCoser, Reopen, Recover,
        StartWorkers
<1>6. ASSUME NEW l \in Loop, Iterate(l) \/ Work(l) \/ Lock(l) PROVE Alive'
  BY <1>6 DEF Iterate, Work, WantLock, Unlock, Exit, Lock, Moves
<1>7. CASE HangUp \/ Crash \/ Start
  BY <1>7 DEF HangUp, Crash, Start, StartWorkers
<1>8. CASE UNCHANGED vars
  BY <1>8 DEF vars
<1> QED BY <1>1, <1>2, <1>3, <1>4, <1>5, <1>6, <1>7, <1>8 DEF Next, Restore

\* The database is closed at the steps of a restoration that replace it.
LEMMA HandleStep == IInv /\ [Next]_vars => Handle'
<1> SUFFICES ASSUME IInv, [Next]_vars PROVE Handle'
  OBVIOUS
<1> USE RestoreAssumption DEF IInv, TypeOK, Handle, HandleOpen, HandleClosed, ProcessTypes, Alive, MutexHeld,
      Return, Steps, Early, Staging, Swapping, Undoing, process, loops
<1>1. CASE Owner
  BY <1>1 DEF Owner, Ask, ApplyRestorePathMappings, ResumeMaintenance, Admit, Write, StartWorkers
<1>2. CASE Begin
  BY <1>2 DEF Begin
<1>3. CASE Proceed
  BY <1>3 DEF Proceed, Goes, Prepare, CreateSafetyFull, EnterMaintenance, CancelWorkers, AwaitWorkers,
     StageDatabase, StageCoser, CloseLive, MoveDatabaseAside, InstallDatabase, MoveCoserAside, InstallCoser,
     OpenReplacement, Register, Finalize, Serve, RemoveAside
<1>4. CASE Fail
  BY <1>4 DEF Fail, FailEarly, FailStaging, Abandon, FailClose, FailSwap, StartWorkers
<1>5. CASE Undo
  BY <1>5 DEF Undo, Goes, RemoveDatabase, ReturnDatabase, RemoveCoser, ReturnCoser, Reopen, Recover,
        StartWorkers
<1>6. ASSUME NEW l \in Loop, Iterate(l) \/ Work(l) \/ Lock(l) PROVE Handle'
  BY <1>6 DEF Iterate, Work, WantLock, Unlock, Exit, Lock, Moves
<1>7. CASE HangUp \/ Crash \/ Start
  BY <1>7 DEF HangUp, Crash, Start, StartWorkers
<1>8. CASE UNCHANGED vars
  BY <1>8 DEF vars
<1> QED BY <1>1, <1>2, <1>3, <1>4, <1>5, <1>6, <1>7, <1>8 DEF Next, Restore

\* The loops stay away: only StartWorkers brings them back, and it opens or finds the database open.
LEMMA AwayStep == IInv /\ [Next]_vars => Away'
<1> SUFFICES ASSUME IInv, [Next]_vars PROVE Away'
  OBVIOUS
<1> USE RestoreAssumption DEF IInv, TypeOK, Away, Parked, Drained, Handle, HandleOpen, HandleClosed, Alive,
      ProcessTypes, MutexHeld, Return, Steps, Early, Staging, Swapping, Undoing, process, loops
<1>1. CASE Owner
  BY <1>1 DEF Owner, Ask, ApplyRestorePathMappings, ResumeMaintenance, Admit, Write, StartWorkers
<1>2. CASE Begin
  BY <1>2 DEF Begin
<1>3. CASE Proceed
  BY <1>3 DEF Proceed, Goes, Prepare, CreateSafetyFull, EnterMaintenance, CancelWorkers, AwaitWorkers,
     StageDatabase, StageCoser, CloseLive, MoveDatabaseAside, InstallDatabase, MoveCoserAside, InstallCoser,
     OpenReplacement, Register, Finalize, Serve, RemoveAside
<1>4. CASE Fail
  BY <1>4 DEF Fail, FailEarly, FailStaging, Abandon, FailClose, FailSwap, StartWorkers
<1>5. CASE Undo
  BY <1>5 DEF Undo, Goes, RemoveDatabase, ReturnDatabase, RemoveCoser, ReturnCoser, Reopen, Recover,
        StartWorkers
<1>6. ASSUME NEW l \in Loop, Iterate(l) \/ Work(l) \/ Lock(l) PROVE Away'
  BY <1>6 DEF Iterate, Work, WantLock, Unlock, Exit, Lock, Moves
<1>7. CASE HangUp \/ Crash \/ Start
  BY <1>7 DEF HangUp, Crash, Start, StartWorkers
<1>8. CASE UNCHANGED vars
  BY <1>8 DEF vars
<1> QED BY <1>1, <1>2, <1>3, <1>4, <1>5, <1>6, <1>7, <1>8 DEF Next, Restore

\* A loop takes the mutex only for a section of its iteration.
LEMMA HasWorkStep == IInv /\ [Next]_vars => HasWork'
<1> SUFFICES ASSUME IInv, [Next]_vars PROVE HasWork'
  OBVIOUS
<1> USE RestoreAssumption DEF IInv, TypeOK, HasWork, ProcessTypes, Away, Drained, Return, process, loops
<1>1. CASE Owner
  BY <1>1 DEF Owner, Ask, ApplyRestorePathMappings, ResumeMaintenance, Admit, Write, StartWorkers
<1>2. CASE Begin
  BY <1>2 DEF Begin
<1>3. CASE Proceed
  BY <1>3 DEF Proceed, Goes, Prepare, CreateSafetyFull, EnterMaintenance, CancelWorkers, AwaitWorkers,
     StageDatabase, StageCoser, CloseLive, MoveDatabaseAside, InstallDatabase, MoveCoserAside, InstallCoser,
     OpenReplacement, Register, Finalize, Serve, RemoveAside
<1>4. CASE Fail
  BY <1>4 DEF Fail, FailEarly, FailStaging, Abandon, FailClose, FailSwap, StartWorkers
<1>5. CASE Undo
  BY <1>5 DEF Undo, Goes, RemoveDatabase, ReturnDatabase, RemoveCoser, ReturnCoser, Reopen, Recover,
        StartWorkers
<1>6. ASSUME NEW l \in Loop, Iterate(l) \/ Work(l) \/ Lock(l) PROVE HasWork'
  BY <1>6 DEF Iterate, Work, WantLock, Unlock, Exit, Lock, Moves
<1>7. CASE HangUp \/ Crash \/ Start
  BY <1>7 DEF HangUp, Crash, Start, StartWorkers
<1>8. CASE UNCHANGED vars
  BY <1>8 DEF vars
<1> QED BY <1>1, <1>2, <1>3, <1>4, <1>5, <1>6, <1>7, <1>8 DEF Next, Restore

\* A restoration begins and works on databases without a pending mapping.
LEMMA NothingPendingStep == IInv /\ [Next]_vars => NothingPending'
<1> SUFFICES ASSUME IInv, [Next]_vars PROVE NothingPending'
  OBVIOUS
<1> USE RestoreAssumption DEF IInv, TypeOK, NothingPending, Pending, NoDatabase, Packed, Opened, Fresh,
      MutexHeld,
      ProcessTypes, DiskTypes, Database, Return, Steps, Early, Staging, Swapping, Undoing, process, loops,
      disk, databases, metadata
<1>1. CASE Owner
  BY <1>1 DEF Owner, Ask, ApplyRestorePathMappings, ResumeMaintenance, Admit, Write, StartWorkers
<1>2. CASE Begin
  BY <1>2 DEF Begin
<1>3. CASE Proceed
  BY <1>3 DEF Proceed, Goes, Prepare, CreateSafetyFull, EnterMaintenance, CancelWorkers, AwaitWorkers,
     StageDatabase, StageCoser, CloseLive, MoveDatabaseAside, InstallDatabase, MoveCoserAside, InstallCoser,
     OpenReplacement, Register, Finalize, Serve, RemoveAside
<1>4. CASE Fail
  BY <1>4 DEF Fail, FailEarly, FailStaging, Abandon, FailClose, FailSwap, StartWorkers
<1>5. CASE Undo
  BY <1>5 DEF Undo, Goes, RemoveDatabase, ReturnDatabase, RemoveCoser, ReturnCoser, Reopen, Recover,
        StartWorkers
<1>6. ASSUME NEW l \in Loop, Iterate(l) \/ Work(l) \/ Lock(l) PROVE NothingPending'
  BY <1>6 DEF Iterate, Work, WantLock, Unlock, Exit, Lock, Moves
<1>7. CASE HangUp \/ Crash \/ Start
  BY <1>7 DEF HangUp, Crash, Start, StartWorkers
<1>8. CASE UNCHANGED vars
  BY <1>8 DEF vars
<1> QED BY <1>1, <1>2, <1>3, <1>4, <1>5, <1>6, <1>7, <1>8 DEF Next, Restore

\* The strengthening is inductive.
LEMMA InvStep == IInv /\ [Next]_vars => IInv'
BY ProcessStep, CallStep, DiskStep, MutexStep, PendingStep, AliveStep, HandleStep, AwayStep, HasWorkStep,
   NothingPendingStep DEF IInv, TypeOK

\* It holds of every behaviour.
THEOREM InvAlways == Spec => []IInv
BY InvInit, InvStep, PTL DEF Spec

\* Types; the mutex has one holder, the one between Lock and Unlock; a database whose
\* mapping is pending waits for validation.
THEOREM TypeCorrect == Spec => []TypeOK
<1>1. IInv => TypeOK
  BY DEF IInv
<1> QED BY InvAlways, <1>1, PTL

\* No loop works while the database is closed and its file is replaced.
THEOREM AwayAlways == Spec => []WorkersAreAway
<1>1. IInv => WorkersAreAway
  BY DEF IInv, Away, WorkersAreAway
<1> QED BY InvAlways, <1>1, PTL

------------------------------------------------------------------------------
(* What is served after errors and hang-ups, without a crash. A database    *)
(* that was not finalized can be left at the live path only if the way back *)
(* was taken and failed twice: to remove it and to put the old one over it. *)

Raw(d) == d.vetted \in {"raw", "registered"}
Thrice == used >= 3
Installed == {"moveCoser", "installCoser", "open", "register", "finalize"}

\* What has cost a disturbance: the way back, a client that is gone, replaced metadata
\* that an earlier restoration has left behind.
Costs ==
  /\ pc \in Undoing => used >= 1
  /\ gone => used >= 1
  /\ asideCoser # 0 => \/ used >= 1
                       \/ pc = "installCoser"
                       \/ pc \in {"open", "register", "finalize", "serve", "clean"} /\ "coser" \in swapped
\* Where a raw database can be, and that the replaced one can be put over it.
RawIsReplaced ==
  /\ Raw(live) => \/ Thrice
                  \/ pc \in Installed \cup {"removeDatabase"} /\ "database" \in swapped /\ aside.gen # 0
                  \/ pc = "returnDatabase" /\ used >= 2 /\ aside.gen # 0
  /\ Raw(aside) => Thrice
\* There is a database wherever one is opened, moved or served.
DatabaseIsThere ==
  /\ handle => live.gen # 0
  /\ pc \in {"moveDatabase", "serve", "recover"} \cup Installed => live.gen # 0
  /\ pc \in {"installDatabase"} \cup Installed => aside.gen # 0
  /\ pc \in Installed => "database" \in swapped
\* Loops work on finalized and mapped databases.
LoopsOnMapped == live.vetted # "ok" => Drained \/ Thrice

\* No crash has happened.
Survives == up

FinalizedInv == IInv /\ Survives /\ Costs /\ RawIsReplaced /\ DatabaseIsThere /\ LoopsOnMapped

\* What is there is opened as it is, and what is not there is made.
LEMMA OpenedDatabase ==
  ASSUME MaxRestores \in Nat
  PROVE  /\ Opened.gen # 0
         /\ Opened = live \/ (Opened.vetted = "ok" /\ live.gen = 0)
<1>1. Fresh.gen = MaxRestores + 2 /\ Fresh.vetted = "ok"
  BY DEF Fresh, NoDatabase
<1> QED BY <1>1 DEF Opened

\* What has cost a disturbance still has.
LEMMA CostsStep ==
  ASSUME FinalizedInv, [Next]_vars, "crash" \notin Events
  PROVE  Costs'
<1>t. used \in Nat /\ restores \in Nat /\ live \in Database /\ aside \in Database
  BY RestoreAssumption DEF FinalizedInv, IInv, TypeOK, CallTypes, DiskTypes
<1> USE <1>t DEF FinalizedInv, Costs, process, loops, disk, databases, metadata, history, Early, Staging,
      Swapping, Undoing, Installed
<1>1. CASE Owner
  BY <1>1 DEF Owner, Ask, ApplyRestorePathMappings, ResumeMaintenance, Admit, Write, StartWorkers, Serving
<1>2. CASE Begin
  BY <1>2 DEF Begin, Return
<1>3. CASE Proceed
  BY <1>3 DEF Proceed, Prepare, CreateSafetyFull, EnterMaintenance, CancelWorkers, AwaitWorkers, StageDatabase,
     StageCoser, CloseLive, MoveDatabaseAside, InstallDatabase, MoveCoserAside, InstallCoser, OpenReplacement,
     Register, Finalize, Serve, RemoveAside, Goes, Return, Spend, SpendSome, Packed, NoDatabase
<1>4. CASE Fail
  BY <1>4 DEF Fail, FailEarly, FailStaging, Abandon, FailClose, FailSwap, Return, Fault, UsesContext, Spend,
     SpendSome, StartWorkers
<1>5. CASE Undo
  BY <1>5 DEF Undo, RemoveDatabase, ReturnDatabase, RemoveCoser, ReturnCoser, Reopen, Recover, Goes, Return,
     Ignored, Spend, SpendSome, StartWorkers, NoDatabase, Opened, Fresh
<1>6. ASSUME NEW l \in Loop, Iterate(l) \/ Work(l) \/ Lock(l) PROVE Costs'
  BY <1>6 DEF Iterate, Work, WantLock, Unlock, Exit, Lock, Moves
<1>7. CASE HangUp
  BY <1>7 DEF HangUp, Spend, SpendSome
<1>8. CASE Crash \/ Start
  BY <1>8 DEF Crash, Start, Spend, SpendSome, Survives
<1>9. CASE UNCHANGED vars
  BY <1>9 DEF vars
<1> QED BY <1>1, <1>2, <1>3, <1>4, <1>5, <1>6, <1>7, <1>8, <1>9 DEF Next, Restore

\* A raw database comes to the live path only when the replaced one can be put over it.
LEMMA RawStep ==
  ASSUME FinalizedInv, [Next]_vars, "crash" \notin Events
  PROVE  RawIsReplaced'
<1>t. used \in Nat /\ restores \in Nat /\ live \in Database /\ aside \in Database
  BY RestoreAssumption DEF FinalizedInv, IInv, TypeOK, CallTypes, DiskTypes
<1> USE <1>t DEF FinalizedInv, RawIsReplaced, Raw, Thrice, Database, process, loops, disk, databases, metadata,
      history, Early, Staging, Swapping, Undoing, Installed
<1>1. CASE Owner
  BY <1>1 DEF Owner, Ask, ApplyRestorePathMappings, ResumeMaintenance, Admit, Write, StartWorkers, Serving
<1>2. CASE Begin
  BY <1>2 DEF Begin, Return
<1>3. CASE Proceed
  <2>1. CASE InstallDatabase
    BY <2>1 DEF InstallDatabase, Goes, Packed, DatabaseIsThere
  <2>2. CASE MoveDatabaseAside
    BY <2>2 DEF MoveDatabaseAside, Goes, NoDatabase
  <2>3. CASE Register
    BY <2>3 DEF Register, Goes, DatabaseIsThere
  <2>4. CASE Finalize
    BY <2>4 DEF Finalize, Goes
  <2>5. CASE EnterMaintenance
    BY <2>5 DEF EnterMaintenance, Goes
  <2>6. CASE RemoveAside
    BY <2>6 DEF RemoveAside, Return, NoDatabase, Spend, SpendSome
  <2>7. CASE Prepare \/ CreateSafetyFull \/ CancelWorkers \/ AwaitWorkers \/ StageDatabase \/ StageCoser \/
        CloseLive \/ MoveCoserAside \/ InstallCoser \/ OpenReplacement \/ Serve
    BY <2>7 DEF Prepare, CreateSafetyFull, CancelWorkers, AwaitWorkers, StageDatabase, StageCoser, CloseLive,
       MoveCoserAside, InstallCoser, OpenReplacement, Serve, Goes
  <2> QED BY <1>3, <2>1, <2>2, <2>3, <2>4, <2>5, <2>6, <2>7 DEF Proceed
<1>4. CASE Fail
  BY <1>4 DEF Fail, FailEarly, FailStaging, Abandon, FailClose, FailSwap, Return, Fault, UsesContext, Spend,
     SpendSome, StartWorkers
<1>5. CASE Undo
  <2>1. CASE RemoveDatabase
    BY <2>1 DEF RemoveDatabase, Goes, Ignored, Spend, SpendSome, NoDatabase, Costs
  <2>2. CASE ReturnDatabase
    BY <2>2 DEF ReturnDatabase, Goes, Ignored, Spend, SpendSome, NoDatabase
  <2>3. CASE Reopen
    BY <2>3, OpenedDatabase, RestoreAssumption DEF Reopen, Return, Spend, SpendSome
  <2>4. CASE Recover
    BY <2>4 DEF Recover, Return, Ignored, Spend, SpendSome, StartWorkers
  <2>5. CASE RemoveCoser \/ ReturnCoser
    BY <2>5 DEF RemoveCoser, ReturnCoser, Goes, Ignored, Spend, SpendSome
  <2> QED BY <1>5, <2>1, <2>2, <2>3, <2>4, <2>5 DEF Undo
<1>6. ASSUME NEW l \in Loop, Iterate(l) \/ Work(l) \/ Lock(l) PROVE RawIsReplaced'
  BY <1>6 DEF Iterate, Work, WantLock, Unlock, Exit, Lock, Moves
<1>7. CASE HangUp
  BY <1>7 DEF HangUp, Spend, SpendSome
<1>8. CASE Crash \/ Start
  BY <1>8 DEF Crash, Start, Spend, SpendSome, Survives
<1>9. CASE UNCHANGED vars
  BY <1>9 DEF vars
<1> QED BY <1>1, <1>2, <1>3, <1>4, <1>5, <1>6, <1>7, <1>8, <1>9 DEF Next, Restore

\* A database is there before it is opened or moved.
LEMMA ThereStep ==
  ASSUME FinalizedInv, [Next]_vars, "crash" \notin Events
  PROVE  DatabaseIsThere'
<1>t. used \in Nat /\ restores \in Nat /\ live \in Database /\ aside \in Database
  BY RestoreAssumption DEF FinalizedInv, IInv, TypeOK, CallTypes, DiskTypes
<1> USE <1>t DEF FinalizedInv, DatabaseIsThere, Database, process, loops, disk, databases, metadata, history,
      Early, Staging, Swapping, Undoing, Installed
<1>1. CASE Owner
  BY <1>1 DEF Owner, Ask, ApplyRestorePathMappings, ResumeMaintenance, Admit, Write, StartWorkers, Serving
<1>2. CASE Begin
  BY <1>2 DEF Begin, Return
<1>3. CASE Proceed
  <2>1. CASE CloseLive
    BY <2>1 DEF CloseLive, Goes, IInv, Handle, HandleOpen
  <2>2. CASE InstallDatabase
    BY <2>2 DEF InstallDatabase, Goes, Packed
  <2>3. CASE MoveDatabaseAside
    BY <2>3 DEF MoveDatabaseAside, Goes, NoDatabase, IInv, Handle, HandleClosed
  <2>4. CASE Serve
    BY <2>4 DEF Serve, Goes
  <2>5. CASE Register
    BY <2>5 DEF Register, Goes
  <2>6. CASE Finalize
    BY <2>6 DEF Finalize, Goes
  <2>7. CASE EnterMaintenance
    BY <2>7 DEF EnterMaintenance, Goes
  <2>8. CASE RemoveAside
    BY <2>8 DEF RemoveAside, Return, NoDatabase, Spend, SpendSome
  <2>9. CASE Prepare \/ CreateSafetyFull \/ CancelWorkers \/ AwaitWorkers \/ StageDatabase \/ StageCoser \/
        MoveCoserAside \/ InstallCoser \/ OpenReplacement
    BY <2>9 DEF Prepare, CreateSafetyFull, CancelWorkers, AwaitWorkers, StageDatabase, StageCoser,
       MoveCoserAside, InstallCoser, OpenReplacement, Goes
  <2> QED BY <1>3, <2>1, <2>2, <2>3, <2>4, <2>5, <2>6, <2>7, <2>8, <2>9 DEF Proceed
<1>4. CASE Fail
  BY <1>4 DEF Fail, FailEarly, FailStaging, Abandon, FailClose, FailSwap, Return, Fault, UsesContext, Spend,
     SpendSome, StartWorkers
<1>5. CASE Undo
  <2>1. CASE RemoveDatabase
    BY <2>1 DEF RemoveDatabase, Goes, Ignored, Spend, SpendSome, NoDatabase, IInv, Handle, HandleClosed
  <2>2. CASE ReturnDatabase
    BY <2>2 DEF ReturnDatabase, Goes, Ignored, Spend, SpendSome, NoDatabase, IInv, Handle, HandleClosed
  <2>3. CASE Reopen
    BY <2>3, OpenedDatabase, RestoreAssumption DEF Reopen, Return
  <2>4. CASE Recover
    BY <2>4 DEF Recover, Return, Ignored, Spend, SpendSome, StartWorkers
  <2>5. CASE RemoveCoser \/ ReturnCoser
    BY <2>5 DEF RemoveCoser, ReturnCoser, Goes, Ignored, Spend, SpendSome
  <2> QED BY <1>5, <2>1, <2>2, <2>3, <2>4, <2>5 DEF Undo
<1>6. ASSUME NEW l \in Loop, Iterate(l) \/ Work(l) \/ Lock(l) PROVE DatabaseIsThere'
  BY <1>6 DEF Iterate, Work, WantLock, Unlock, Exit, Lock, Moves
<1>7. CASE HangUp
  BY <1>7 DEF HangUp, Spend, SpendSome
<1>8. CASE Crash \/ Start
  BY <1>8 DEF Crash, Start, Spend, SpendSome, Survives
<1>9. CASE UNCHANGED vars
  BY <1>9 DEF vars
<1> QED BY <1>1, <1>2, <1>3, <1>4, <1>5, <1>6, <1>7, <1>8, <1>9 DEF Next, Restore

\* Loops start on a database that is finalized and mapped, or raw after a third disturbance.
LEMMA MappedStep ==
  ASSUME FinalizedInv, [Next]_vars, "crash" \notin Events
  PROVE  LoopsOnMapped'
<1>t. used \in Nat /\ restores \in Nat /\ live \in Database /\ aside \in Database
  BY RestoreAssumption DEF FinalizedInv, IInv, TypeOK, CallTypes, DiskTypes
<1>r. pc \in {"abandon", "close", "recover"} => live.vetted = "ok" \/ Thrice
  BY <1>t DEF FinalizedInv, RawIsReplaced, Raw, IInv, NothingPending, Database, Installed
<1> USE <1>t DEF FinalizedInv, LoopsOnMapped, Thrice, Drained, Database, process, loops, disk, databases,
      metadata, history, Early, Staging, Swapping, Undoing, Installed
<1>1. CASE Owner
  BY <1>1 DEF Owner, Ask, ApplyRestorePathMappings, ResumeMaintenance, Admit, Write, StartWorkers, Serving
<1>2. CASE Begin
  BY <1>2 DEF Begin, Return
<1>3. CASE Proceed
  <2>1. CASE EnterMaintenance
    BY <2>1 DEF EnterMaintenance, Goes
  <2>2. CASE InstallDatabase
    BY <2>2 DEF InstallDatabase, Goes, Packed, IInv, Away, Parked
  <2>3. CASE Register
    BY <2>3 DEF Register, Goes, IInv, Away, Parked
  <2>4. CASE Finalize
    BY <2>4 DEF Finalize, Goes, IInv, Away, Parked
  <2>5. CASE MoveDatabaseAside
    BY <2>5 DEF MoveDatabaseAside, Goes, NoDatabase
  <2>6. CASE Prepare \/ CreateSafetyFull \/ CancelWorkers \/ AwaitWorkers \/ StageDatabase \/ StageCoser \/
        CloseLive \/ MoveCoserAside \/ InstallCoser \/ OpenReplacement \/ Serve \/ RemoveAside
    BY <2>6 DEF Prepare, CreateSafetyFull, CancelWorkers, AwaitWorkers, StageDatabase, StageCoser, CloseLive,
       MoveCoserAside, InstallCoser, OpenReplacement, Serve, RemoveAside, Goes, Return, NoDatabase, Spend,
       SpendSome
  <2> QED BY <1>3, <2>1, <2>2, <2>3, <2>4, <2>5, <2>6 DEF Proceed
<1>4. CASE Fail
  <2>1. CASE Abandon
    BY <2>1, <1>r DEF Abandon, Return, Spend, SpendSome, StartWorkers
  <2>2. CASE FailClose
    BY <2>2, <1>r DEF FailClose, Return, Spend, SpendSome, StartWorkers
  <2>3. CASE FailEarly \/ FailStaging \/ FailSwap
    BY <2>3 DEF FailEarly, FailStaging, FailSwap, Return, Fault, UsesContext, Spend, SpendSome
  <2> QED BY <1>4, <2>1, <2>2, <2>3 DEF Fail
<1>5. CASE Undo
  <2>1. CASE RemoveDatabase
    BY <2>1 DEF RemoveDatabase, Goes, Ignored, Spend, SpendSome, NoDatabase, IInv, Away, Parked
  <2>2. CASE ReturnDatabase
    BY <2>2 DEF ReturnDatabase, Goes, Ignored, Spend, SpendSome, NoDatabase, IInv, Away, Parked
  <2>3. CASE Reopen
    BY <2>3, OpenedDatabase, RestoreAssumption DEF Reopen, IInv, Away, Parked, Return, Spend, SpendSome
  <2>4. CASE Recover
    BY <2>4, <1>r DEF Recover, Return, Ignored, Spend, SpendSome, StartWorkers
  <2>5. CASE RemoveCoser \/ ReturnCoser
    BY <2>5 DEF RemoveCoser, ReturnCoser, Goes, Ignored, Spend, SpendSome
  <2> QED BY <1>5, <2>1, <2>2, <2>3, <2>4, <2>5 DEF Undo
<1>6. ASSUME NEW l \in Loop, Iterate(l) \/ Work(l) \/ Lock(l) PROVE LoopsOnMapped'
  BY <1>6 DEF Iterate, Work, WantLock, Unlock, Exit, Lock, Moves
<1>7. CASE HangUp
  BY <1>7 DEF HangUp, Spend, SpendSome
<1>8. CASE Crash \/ Start
  BY <1>8 DEF Crash, Start, Spend, SpendSome, Survives
<1>9. CASE UNCHANGED vars
  BY <1>9 DEF vars
<1> QED BY <1>1, <1>2, <1>3, <1>4, <1>5, <1>6, <1>7, <1>8, <1>9 DEF Next, Restore

\* A server that has just started serves its own, mapped database.
LEMMA FinalizedInit == Init => FinalizedInv
<1> SUFFICES ASSUME Init PROVE FinalizedInv
  OBVIOUS
<1> USE RestoreAssumption DEF Init, Original, NoDatabase, Early, Staging, Swapping, Undoing, Installed
<1>1. Costs /\ RawIsReplaced /\ DatabaseIsThere
  BY DEF Costs, RawIsReplaced, Raw, DatabaseIsThere
<1>2. Survives /\ LoopsOnMapped
  BY DEF Survives, LoopsOnMapped
<1> QED BY <1>1, <1>2, InvInit DEF FinalizedInv

\* Without a crash the process stays up.
LEMMA FinalizedStep ==
  ASSUME FinalizedInv, [Next]_vars, "crash" \notin Events
  PROVE  FinalizedInv'
<1>1. IInv'
  BY InvStep DEF FinalizedInv
<1>2. Survives'
  <2> USE DEF FinalizedInv, Survives, process, loops
  <2>1. CASE Owner \/ Begin
    BY <2>1 DEF Owner, Ask, ApplyRestorePathMappings, ResumeMaintenance, Admit, Write, Begin
  <2>2. CASE Proceed
    BY <2>2 DEF Proceed, Prepare, CreateSafetyFull, EnterMaintenance, CancelWorkers, AwaitWorkers,
          StageDatabase,
       StageCoser, CloseLive, MoveDatabaseAside, InstallDatabase, MoveCoserAside, InstallCoser, OpenReplacement,
       Register, Finalize, Serve, RemoveAside
  <2>3. CASE Fail \/ Undo
    BY <2>3 DEF Fail, FailEarly, FailStaging, Abandon, FailClose, FailSwap,
       Undo, RemoveDatabase, ReturnDatabase, RemoveCoser, ReturnCoser, Reopen, Recover
  <2>4. ASSUME NEW l \in Loop, Iterate(l) \/ Work(l) \/ Lock(l) PROVE Survives'
    BY <2>4 DEF Iterate, Work, WantLock, Unlock, Exit, Lock
  <2>5. CASE HangUp \/ Crash \/ Start \/ UNCHANGED vars
    BY <2>5 DEF HangUp, Crash, Start, Spend, SpendSome, vars
  <2> QED BY <2>1, <2>2, <2>3, <2>4, <2>5 DEF Next, Restore
<1> QED BY <1>1, <1>2, CostsStep, RawStep, ThereStep, MappedStep DEF FinalizedInv

\* With at most two errors or hang-ups and no crash, no handler and no loop ever works on a
\* database that was not finalized and mapped: a third disturbance can leave a raw one at
\* the live path, that the way back could neither remove nor replace.
THEOREM FinalizedAlways ==
  ASSUME "crash" \notin Events, MaxEvents <= 2
  PROVE  Spec => []FinalizedBeforeServed
<1>1. FinalizedInv => FinalizedBeforeServed
  <2> SUFFICES ASSUME FinalizedInv PROVE FinalizedBeforeServed
    OBVIOUS
  <2>1. ~Thrice /\ live \in Database
    BY RestoreAssumption DEF FinalizedInv, IInv, TypeOK, CallTypes, DiskTypes, Thrice
  <2>2. ASSUME Serving PROVE live.vetted = "ok"
    <3>1. handle /\ live.mode = "NORMAL"
      BY <2>2 DEF Serving
    <3>2. live.vetted # "unmapped"
      BY <3>1 DEF FinalizedInv, IInv, TypeOK, Pending
    <3>3. pc \notin Installed \cup {"removeDatabase", "returnDatabase"}
      BY <3>1 DEF FinalizedInv, IInv, Handle, HandleClosed, Installed, Swapping, Undoing
    <3>4. ~Raw(live)
      BY <2>1, <3>3 DEF FinalizedInv, RawIsReplaced
    <3> QED BY <2>1, <3>2, <3>4 DEF Raw, Database
  <2>3. (\E l \in Loop : loop[l] # "off") => live.vetted = "ok"
    BY <2>1 DEF FinalizedInv, LoopsOnMapped, Drained
  <2> QED BY <2>2, <2>3 DEF FinalizedBeforeServed
<1> QED BY FinalizedInit, FinalizedStep, <1>1, PTL DEF Spec

------------------------------------------------------------------------------
(* With one error or one client that hangs up.                              *)

\* The database that the restoration found, and its metadata.
IsFound(d) == before = <<d.gen, d.pair>> /\ d.data = written
BeforeSwap == Early \cup Staging \cup {"stop", "drain", "close", "abandon", "moveDatabase"}
Outside == BeforeSwap \cup {"idle", "lock"}

\* What is left behind has cost the disturbance, so nothing else goes wrong.
Leftovers ==
  /\ pc \in Outside /\ aside.gen # 0 => used >= 1
  /\ stage = "partial" \/ stageCoser = "partial" => used >= 1
  /\ pc \in {"idle", "lock", "stop", "drain", "stageDatabase"} \cup Early => stage # "whole"
  /\ pc \in {"idle", "lock", "stop", "drain", "stageDatabase", "stageCoser"} \cup Early => stageCoser # "whole"
  /\ pc = "abandon" => used >= 1
\* Where no restoration replaces anything the database and the metadata belong together.
Together ==
  /\ pc \in Outside \cup {"open", "register", "finalize", "serve", "clean"} =>
       live.gen # 0 /\ coser # 0 /\ live.pair = coser
  /\ pc \in {"moveCoser", "installCoser"} => live.pair = restores + 1
  /\ pc \in {"idle", "lock", "clean"} => handle
\* What a restoration has found is at the live paths or beside them.
Kept ==
  /\ pc \in BeforeSwap => IsFound(live)
  /\ pc \in {"installDatabase"} \cup Installed => IsFound(aside)
  /\ pc = "removeDatabase" =>
       IsFound(aside) \/ (aside.gen = 0 /\ IsFound(live) /\ "database" \notin swapped)
  /\ pc = "returnDatabase" => IsFound(aside) \/ (aside.gen = 0 /\ IsFound(live))
  /\ pc \in {"removeCoser", "returnCoser", "reopen", "recover"} => IsFound(live)
  /\ pc \in BeforeSwap \cup Swapping \cup Undoing => before[1] # 0 /\ before[2] # 0
CoserKept ==
  /\ pc \in Outside \cup {"installDatabase"} => swapped = {}
  /\ pc \in {"moveCoser", "installCoser"} => "coser" \notin swapped
  /\ pc \in {"installDatabase", "moveCoser", "reopen", "recover"} => coser = before[2]
  /\ pc = "installCoser" => coser = 0 /\ asideCoser = before[2]
  /\ pc \in {"open", "register", "finalize", "removeDatabase", "returnDatabase", "removeCoser"} =>
       \/ "coser" \in swapped /\ asideCoser = before[2]
       \/ "coser" \notin swapped /\ coser = before[2]
       \/ "coser" \notin swapped /\ coser = 0 /\ asideCoser = before[2] /\ pc \in Undoing
  /\ pc = "returnCoser" => coser = before[2] \/ (coser = 0 /\ asideCoser = before[2])
\* A failed restoration.
Undone ==
  /\ pc \in {"idle", "lock"} /\ result = "failed" => IsFound(live)
  /\ pc = "idle" /\ result = "failed" /\ ~gone => live.mode = "NORMAL"
  /\ pc \in Early => live.mode = "NORMAL"

OneInv == FinalizedInv /\ Leftovers /\ Together /\ Kept /\ CoserKept /\ Undone

\* The only disturbance can come once.
LEMMA OneDisturbance ==
  ASSUME FinalizedInv, "crash" \notin Events, MaxEvents <= 1
  PROVE  /\ used \in {0, 1} /\ restores \in Nat /\ live \in Database /\ aside \in Database
         /\ \A k : Spend(k) => used = 0 /\ used' = 1
         /\ ~SpendSome("fault", 2) /\ ~Spend("crash") /\ Survives
BY RestoreAssumption DEF FinalizedInv, IInv, TypeOK, CallTypes, DiskTypes, Spend, SpendSome

\* Something stays behind only after the disturbance.
LEMMA LeftoversStep ==
  ASSUME OneInv, [Next]_vars, "crash" \notin Events, MaxEvents <= 1
  PROVE  Leftovers'
<1>t. /\ used \in {0, 1} /\ restores \in Nat /\ live \in Database /\ aside \in Database
      /\ \A k : Spend(k) => used = 0 /\ used' = 1
      /\ ~SpendSome("fault", 2) /\ ~Spend("crash") /\ Survives
  BY OneDisturbance DEF OneInv
<1> USE <1>t DEF OneInv, Leftovers, process, loops, disk, databases, metadata, history, Early, Staging,
      Swapping, Undoing, Installed, BeforeSwap, Outside
<1>1. CASE Owner
  BY <1>1 DEF Owner, Ask, ApplyRestorePathMappings, ResumeMaintenance, Admit, Write, StartWorkers, Serving
<1>2. CASE Begin
  BY <1>2 DEF Begin, Return
<1>3. CASE Proceed
  BY <1>3 DEF Proceed, Prepare, CreateSafetyFull, EnterMaintenance, CancelWorkers, AwaitWorkers, StageDatabase,
     StageCoser, CloseLive, MoveDatabaseAside, InstallDatabase, MoveCoserAside, InstallCoser, OpenReplacement,
     Register, Finalize, Serve, RemoveAside, Goes, Return, Packed, NoDatabase
<1>4. CASE Fail
  <2>1. CASE FailEarly
    BY <2>1 DEF FailEarly, Return, Fault, UsesContext, FinalizedInv, Costs
  <2>2. CASE FailStaging
    BY <2>2 DEF FailStaging, Fault, UsesContext, FinalizedInv, IInv, TypeOK, DiskTypes, Costs
  <2>3. CASE FailSwap
    BY <2>3 DEF FailSwap, Fault, UsesContext, FinalizedInv, Costs
  <2>4. CASE Abandon \/ FailClose
    BY <2>4 DEF Abandon, FailClose, Return, StartWorkers
  <2> QED BY <1>4, <2>1, <2>2, <2>3, <2>4 DEF Fail
<1>5. CASE Undo
  <2>1. CASE Reopen
    BY <2>1 DEF Reopen, Return, Opened, Fresh, FinalizedInv, Costs
  <2>2. CASE Recover
    BY <2>2 DEF Recover, Return, Ignored, StartWorkers, FinalizedInv, Costs
  <2>3. CASE RemoveDatabase \/ ReturnDatabase \/ RemoveCoser \/ ReturnCoser
    BY <2>3 DEF RemoveDatabase, ReturnDatabase, RemoveCoser, ReturnCoser, Goes, Ignored, NoDatabase
  <2> QED BY <1>5, <2>1, <2>2, <2>3 DEF Undo
<1>6. ASSUME NEW l \in Loop, Iterate(l) \/ Work(l) \/ Lock(l) PROVE Leftovers'
  BY <1>6 DEF Iterate, Work, WantLock, Unlock, Exit, Lock, Moves
<1>7. CASE HangUp
  BY <1>7 DEF HangUp
<1>8. CASE Crash \/ Start
  BY <1>8 DEF Crash, Start, Survives
<1>9. CASE UNCHANGED vars
  BY <1>9 DEF vars
<1> QED BY <1>1, <1>2, <1>3, <1>4, <1>5, <1>6, <1>7, <1>8, <1>9 DEF Next, Restore

\* The database and the metadata are replaced together and put back together.
LEMMA TogetherStep ==
  ASSUME OneInv, [Next]_vars, "crash" \notin Events, MaxEvents <= 1
  PROVE  Together'
<1>t. /\ used \in {0, 1} /\ restores \in Nat /\ live \in Database /\ aside \in Database
      /\ \A k : Spend(k) => used = 0 /\ used' = 1
      /\ ~SpendSome("fault", 2) /\ ~Spend("crash") /\ Survives
  BY OneDisturbance DEF OneInv
<1> USE <1>t DEF OneInv, Together, Database, process, loops, disk, databases, metadata, history, Early, Staging,
      Swapping, Undoing, Installed, BeforeSwap, Outside
<1>1. CASE Owner
  <2>1. CASE ApplyRestorePathMappings
    BY <2>1 DEF ApplyRestorePathMappings
  <2>2. CASE ResumeMaintenance
    BY <2>2 DEF ResumeMaintenance, StartWorkers
  <2>3. CASE Write
    BY <2>3 DEF Write
  <2>4. CASE Ask \/ Admit
    BY <2>4 DEF Ask, Admit, Serving
  <2> QED BY <1>1, <2>1, <2>2, <2>3, <2>4 DEF Owner
<1>2. CASE Begin
  BY <1>2 DEF Begin, Return
<1>3. CASE Proceed
  <2>1. CASE EnterMaintenance
    BY <2>1 DEF EnterMaintenance, Goes
  <2>2. CASE InstallDatabase
    BY <2>2 DEF InstallDatabase, Goes, Packed, CoserKept, Kept
  <2>3. CASE MoveCoserAside
    BY <2>3 DEF MoveCoserAside, Goes
  <2>4. CASE InstallCoser
    BY <2>4 DEF InstallCoser, Goes, FinalizedInv, DatabaseIsThere
  <2>5. CASE Register
    BY <2>5 DEF Register, Goes
  <2>6. CASE Finalize
    BY <2>6 DEF Finalize, Goes
  <2>7. CASE RemoveAside
    BY <2>7 DEF RemoveAside, Return, NoDatabase
  <2>8. CASE Prepare \/ CreateSafetyFull \/ CancelWorkers \/ AwaitWorkers \/ StageDatabase \/ StageCoser \/
        CloseLive \/ MoveDatabaseAside \/ OpenReplacement \/ Serve
    BY <2>8 DEF Prepare, CreateSafetyFull, CancelWorkers, AwaitWorkers, StageDatabase, StageCoser, CloseLive,
       MoveDatabaseAside, OpenReplacement, Serve, Goes, NoDatabase
  <2> QED BY <1>3, <2>1, <2>2, <2>3, <2>4, <2>5, <2>6, <2>7, <2>8 DEF Proceed
<1>4. CASE Fail
  <2>1. CASE FailEarly
    BY <2>1 DEF FailEarly, Return, Fault, UsesContext, FinalizedInv, IInv, Handle, HandleOpen, HandleClosed
  <2>2. CASE Abandon
    BY <2>2 DEF Abandon, Return, StartWorkers, FinalizedInv, IInv, Handle, HandleOpen, HandleClosed
  <2>3. CASE FailClose
    BY <2>3 DEF FailClose, Return, StartWorkers, FinalizedInv, IInv, Handle, HandleOpen, HandleClosed
  <2>4. CASE FailSwap
    BY <2>4 DEF FailSwap, Fault, UsesContext
  <2>5. CASE FailStaging
    BY <2>5 DEF FailStaging, Fault, UsesContext
  <2> QED BY <1>4, <2>1, <2>2, <2>3, <2>4, <2>5 DEF Fail
<1>5. CASE Undo
  <2>1. CASE ReturnDatabase
    BY <2>1 DEF ReturnDatabase, Goes, Ignored, NoDatabase
  <2>2. CASE Reopen
    BY <2>2 DEF Reopen, Return, Opened, Fresh, FinalizedInv, Costs
  <2>3. CASE Recover
    BY <2>3 DEF Recover, Return, Ignored, StartWorkers, FinalizedInv, Costs, DatabaseIsThere, CoserKept, Kept,
       IsFound
  <2>4. CASE RemoveDatabase \/ RemoveCoser \/ ReturnCoser
    BY <2>4 DEF RemoveDatabase, RemoveCoser, ReturnCoser, Goes, Ignored, NoDatabase
  <2> QED BY <1>5, <2>1, <2>2, <2>3, <2>4 DEF Undo
<1>6. ASSUME NEW l \in Loop, Iterate(l) \/ Work(l) \/ Lock(l) PROVE Together'
  BY <1>6 DEF Iterate, Work, WantLock, Unlock, Exit, Lock, Moves
<1>7. CASE HangUp
  BY <1>7 DEF HangUp
<1>8. CASE Crash \/ Start
  BY <1>8 DEF Crash, Start, Survives
<1>9. CASE UNCHANGED vars
  BY <1>9 DEF vars
<1> QED BY <1>1, <1>2, <1>3, <1>4, <1>5, <1>6, <1>7, <1>8, <1>9 DEF Next, Restore

\* The replaced database stays what the restoration found.
LEMMA KeptStep ==
  ASSUME OneInv, [Next]_vars, "crash" \notin Events, MaxEvents <= 1
  PROVE  Kept'
<1>t. /\ used \in {0, 1} /\ restores \in Nat /\ live \in Database /\ aside \in Database
      /\ \A k : Spend(k) => used = 0 /\ used' = 1
      /\ ~SpendSome("fault", 2) /\ ~Spend("crash") /\ Survives
  BY OneDisturbance DEF OneInv
<1> USE <1>t DEF OneInv, Kept, IsFound, Database, process, loops, disk, databases, metadata, history, Early,
      Staging, Swapping, Undoing, Installed, BeforeSwap, Outside
<1>1. CASE Owner
  <2>1. CASE ApplyRestorePathMappings
    BY <2>1 DEF ApplyRestorePathMappings, FinalizedInv, IInv, TypeOK, DiskTypes, CallTypes, MutexHeld, Steps
  <2>2. CASE ResumeMaintenance
    BY <2>2 DEF ResumeMaintenance, StartWorkers, FinalizedInv, IInv, TypeOK, DiskTypes, CallTypes, MutexHeld,
       Steps
  <2>3. CASE Write
    BY <2>3 DEF Write, FinalizedInv, IInv, Handle, HandleOpen, HandleClosed
  <2>4. CASE Ask \/ Admit
    BY <2>4 DEF Ask, Admit, Serving
  <2> QED BY <1>1, <2>1, <2>2, <2>3, <2>4 DEF Owner
<1>2. CASE Begin
  BY <1>2 DEF Begin, Return, Together
<1>3. CASE Proceed
  <2>1. CASE EnterMaintenance
    BY <2>1 DEF EnterMaintenance, Goes
  <2>2. CASE MoveDatabaseAside
    BY <2>2 DEF MoveDatabaseAside, Goes, NoDatabase
  <2>3. CASE InstallDatabase
    BY <2>3 DEF InstallDatabase, Goes, Packed
  <2>4. CASE Prepare \/ CreateSafetyFull \/ CancelWorkers \/ AwaitWorkers \/ StageDatabase \/ StageCoser \/
        CloseLive \/ MoveCoserAside \/ InstallCoser \/ OpenReplacement \/ Register \/ Finalize \/ Serve \/ RemoveAside
    BY <2>4 DEF Prepare, CreateSafetyFull, CancelWorkers, AwaitWorkers, StageDatabase, StageCoser, CloseLive,
       MoveCoserAside, InstallCoser, OpenReplacement, Register, Finalize, Serve, RemoveAside, Goes, Return,
       NoDatabase
  <2> QED BY <1>3, <2>1, <2>2, <2>3, <2>4 DEF Proceed
<1>4. CASE Fail
  <2>1. CASE FailSwap
    BY <2>1 DEF FailSwap, Fault, UsesContext, Leftovers, CoserKept
  <2>2. CASE FailEarly \/ FailStaging \/ Abandon \/ FailClose
    BY <2>2 DEF FailEarly, FailStaging, Abandon, FailClose, Return, Fault, UsesContext, StartWorkers
  <2> QED BY <1>4, <2>1, <2>2 DEF Fail
<1>5. CASE Undo
  <2>1. CASE RemoveDatabase
    BY <2>1 DEF RemoveDatabase, Goes, Ignored, NoDatabase, FinalizedInv, Costs
  <2>2. CASE ReturnDatabase
    BY <2>2 DEF ReturnDatabase, Goes, Ignored, NoDatabase, FinalizedInv, Costs
  <2>3. CASE Reopen
    BY <2>3 DEF Reopen, Return, Opened, Fresh, FinalizedInv, Costs
  <2>4. CASE RemoveCoser \/ ReturnCoser \/ Recover
    BY <2>4 DEF RemoveCoser, ReturnCoser, Recover, Goes, Ignored, Return, StartWorkers
  <2> QED BY <1>5, <2>1, <2>2, <2>3, <2>4 DEF Undo
<1>6. ASSUME NEW l \in Loop, Iterate(l) \/ Work(l) \/ Lock(l) PROVE Kept'
  BY <1>6 DEF Iterate, Work, WantLock, Unlock, Exit, Lock, Moves
<1>7. CASE HangUp
  BY <1>7 DEF HangUp
<1>8. CASE Crash \/ Start
  BY <1>8 DEF Crash, Start, Survives
<1>9. CASE UNCHANGED vars
  BY <1>9 DEF vars
<1> QED BY <1>1, <1>2, <1>3, <1>4, <1>5, <1>6, <1>7, <1>8, <1>9 DEF Next, Restore

\* The replaced metadata stays what the restoration found.
LEMMA CoserKeptStep ==
  ASSUME OneInv, [Next]_vars, "crash" \notin Events, MaxEvents <= 1
  PROVE  CoserKept'
<1>t. /\ used \in {0, 1} /\ restores \in Nat /\ live \in Database /\ aside \in Database
      /\ \A k : Spend(k) => used = 0 /\ used' = 1
      /\ ~SpendSome("fault", 2) /\ ~Spend("crash") /\ Survives
  BY OneDisturbance DEF OneInv
<1> USE <1>t DEF OneInv, CoserKept, process, loops, disk, databases, metadata, history, Early, Staging,
      Swapping, Undoing, Installed, BeforeSwap, Outside
<1>1. CASE Owner
  BY <1>1 DEF Owner, Ask, ApplyRestorePathMappings, ResumeMaintenance, Admit, Write, StartWorkers, Serving
<1>2. CASE Begin
  BY <1>2 DEF Begin, Return
<1>3. CASE Proceed
  <2>1. CASE MoveDatabaseAside
    BY <2>1 DEF MoveDatabaseAside, Goes, NoDatabase, Kept, IsFound, Together
  <2>2. CASE InstallDatabase
    BY <2>2 DEF InstallDatabase, Goes, Packed
  <2>3. CASE MoveCoserAside
    BY <2>3 DEF MoveCoserAside, Goes, Kept
  <2>4. CASE InstallCoser
    BY <2>4 DEF InstallCoser, Goes
  <2>5. CASE RemoveAside
    BY <2>5 DEF RemoveAside, Return, NoDatabase
  <2>6. CASE Prepare \/ CreateSafetyFull \/ EnterMaintenance \/ CancelWorkers \/ AwaitWorkers \/
        StageDatabase \/ StageCoser \/ CloseLive \/ OpenReplacement \/ Register \/ Finalize \/ Serve
    BY <2>6 DEF Prepare, CreateSafetyFull, EnterMaintenance, CancelWorkers, AwaitWorkers, StageDatabase,
       StageCoser, CloseLive, OpenReplacement, Register, Finalize, Serve, Goes
  <2> QED BY <1>3, <2>1, <2>2, <2>3, <2>4, <2>5, <2>6 DEF Proceed
<1>4. CASE Fail
  <2>1. CASE FailSwap
    BY <2>1 DEF FailSwap, Fault, UsesContext, Kept, IsFound, Together
  <2>2. CASE FailEarly \/ FailStaging \/ Abandon \/ FailClose
    BY <2>2 DEF FailEarly, FailStaging, Abandon, FailClose, Return, Fault, UsesContext, StartWorkers
  <2> QED BY <1>4, <2>1, <2>2 DEF Fail
<1>5. CASE Undo
  <2>1. CASE RemoveCoser
    BY <2>1 DEF RemoveCoser, Goes, Ignored, FinalizedInv, Costs
  <2>2. CASE ReturnCoser
    BY <2>2 DEF ReturnCoser, Goes, Ignored, FinalizedInv, Costs, Kept
  <2>3. CASE Reopen
    BY <2>3 DEF Reopen, Return, Opened, Fresh, FinalizedInv, Costs
  <2>4. CASE RemoveDatabase \/ ReturnDatabase \/ Recover
    BY <2>4 DEF RemoveDatabase, ReturnDatabase, Recover, Goes, Ignored, NoDatabase, Return, StartWorkers
  <2> QED BY <1>5, <2>1, <2>2, <2>3, <2>4 DEF Undo
<1>6. ASSUME NEW l \in Loop, Iterate(l) \/ Work(l) \/ Lock(l) PROVE CoserKept'
  BY <1>6 DEF Iterate, Work, WantLock, Unlock, Exit, Lock, Moves
<1>7. CASE HangUp
  BY <1>7 DEF HangUp
<1>8. CASE Crash \/ Start
  BY <1>8 DEF Crash, Start, Survives
<1>9. CASE UNCHANGED vars
  BY <1>9 DEF vars
<1> QED BY <1>1, <1>2, <1>3, <1>4, <1>5, <1>6, <1>7, <1>8, <1>9 DEF Next, Restore

\* A failed restoration has left what it found.
LEMMA UndoneStep ==
  ASSUME OneInv, [Next]_vars, "crash" \notin Events, MaxEvents <= 1
  PROVE  Undone'
<1>t. /\ used \in {0, 1} /\ restores \in Nat /\ live \in Database /\ aside \in Database
      /\ \A k : Spend(k) => used = 0 /\ used' = 1
      /\ ~SpendSome("fault", 2) /\ ~Spend("crash") /\ Survives
  BY OneDisturbance DEF OneInv
<1> USE <1>t DEF OneInv, Undone, IsFound, Database, process, loops, disk, databases, metadata, history, Early,
      Staging, Swapping, Undoing, Installed, BeforeSwap, Outside
<1>1. CASE Owner
  <2>1. CASE ApplyRestorePathMappings
    BY <2>1 DEF ApplyRestorePathMappings
  <2>2. CASE ResumeMaintenance
    BY <2>2 DEF ResumeMaintenance, StartWorkers
  <2>3. CASE Write
    BY <2>3 DEF Write
  <2>4. CASE Ask \/ Admit
    BY <2>4 DEF Ask, Admit, Serving
  <2> QED BY <1>1, <2>1, <2>2, <2>3, <2>4 DEF Owner
<1>2. CASE Begin
  BY <1>2 DEF Begin, Return
<1>3. CASE Proceed
  <2>1. CASE EnterMaintenance
    BY <2>1 DEF EnterMaintenance, Goes
  <2>2. CASE RemoveAside
    BY <2>2 DEF RemoveAside, Return, NoDatabase
  <2>3. CASE Prepare \/ CreateSafetyFull \/ CancelWorkers \/ AwaitWorkers \/ StageDatabase \/ StageCoser \/
        CloseLive \/ MoveDatabaseAside \/ InstallDatabase \/ MoveCoserAside \/ InstallCoser \/ OpenReplacement \/ Register \/ Finalize \/ Serve
    BY <2>3 DEF Prepare, CreateSafetyFull, CancelWorkers, AwaitWorkers, StageDatabase, StageCoser, CloseLive,
       MoveDatabaseAside, InstallDatabase, MoveCoserAside, InstallCoser, OpenReplacement, Register, Finalize,
       Serve, Goes, NoDatabase, Packed
  <2> QED BY <1>3, <2>1, <2>2, <2>3 DEF Proceed
<1>4. CASE Fail
  <2>1. CASE FailEarly
    BY <2>1 DEF FailEarly, Return, Fault, UsesContext, Kept
  <2>2. CASE Abandon
    BY <2>2 DEF Abandon, Return, StartWorkers, Kept, Leftovers
  <2>3. CASE FailClose
    BY <2>3 DEF FailClose, Return, StartWorkers, Kept
  <2>4. CASE FailStaging \/ FailSwap
    BY <2>4 DEF FailStaging, FailSwap, Fault, UsesContext
  <2> QED BY <1>4, <2>1, <2>2, <2>3, <2>4 DEF Fail
<1>5. CASE Undo
  <2>1. CASE Reopen
    BY <2>1 DEF Reopen, Return, Opened, Fresh, FinalizedInv, Costs
  <2>2. CASE Recover
    BY <2>2 DEF Recover, Return, Ignored, StartWorkers, FinalizedInv, Costs, Kept
  <2>3. CASE RemoveDatabase \/ ReturnDatabase \/ RemoveCoser \/ ReturnCoser
    BY <2>3 DEF RemoveDatabase, ReturnDatabase, RemoveCoser, ReturnCoser, Goes, Ignored, NoDatabase
  <2> QED BY <1>5, <2>1, <2>2, <2>3 DEF Undo
<1>6. ASSUME NEW l \in Loop, Iterate(l) \/ Work(l) \/ Lock(l) PROVE Undone'
  BY <1>6 DEF Iterate, Work, WantLock, Unlock, Exit, Lock, Moves
<1>7. CASE HangUp
  BY <1>7 DEF HangUp
<1>8. CASE Crash \/ Start
  BY <1>8 DEF Crash, Start, Survives
<1>9. CASE UNCHANGED vars
  BY <1>9 DEF vars
<1> QED BY <1>1, <1>2, <1>3, <1>4, <1>5, <1>6, <1>7, <1>8, <1>9 DEF Next, Restore

\* Nothing is replaced or left behind at the start.
LEMMA OneInit == Init => OneInv
<1> SUFFICES ASSUME Init PROVE OneInv
  OBVIOUS
<1> USE DEF Init, Original, NoDatabase, Early, Staging, Swapping, Undoing, Installed, BeforeSwap, Outside
<1>1. Leftovers /\ Together /\ Kept /\ CoserKept /\ Undone
  BY DEF Leftovers, Together, Kept, CoserKept, Undone
<1> QED BY <1>1, FinalizedInit DEF OneInv

\* The strengthening for one disturbance is inductive.
LEMMA OneStep ==
  ASSUME OneInv, [Next]_vars, "crash" \notin Events, MaxEvents <= 1
  PROVE  OneInv'
BY FinalizedStep, LeftoversStep, TogetherStep, KeptStep, CoserKeptStep, UndoneStep DEF OneInv

\* It holds of every behaviour.
LEMMA OneAlways ==
  ASSUME "crash" \notin Events, MaxEvents <= 1
  PROVE  Spec => []OneInv
BY OneInit, OneStep, PTL DEF Spec

\* With one error or one hang-up at any step, and no crash, handlers never see the database
\* of one state with the metadata of another.
THEOREM NeverMixed ==
  ASSUME "crash" \notin Events, MaxEvents <= 1
  PROVE  Spec => []NoMixture
<1>1. OneInv => NoMixture
  <2> SUFFICES ASSUME OneInv, Serving PROVE live.pair = coser
    BY DEF NoMixture
  <2>1. handle /\ live.mode = "NORMAL" /\ pc \in Steps
    BY DEF Serving, OneInv, FinalizedInv, IInv, TypeOK, CallTypes
  <2>2. pc \notin Swapping \cup Undoing \cup {"serve"}
    BY <2>1 DEF OneInv, FinalizedInv, IInv, Handle, HandleClosed
  <2> QED BY <2>1, <2>2 DEF OneInv, Together, Outside, BeforeSwap, Steps
<1> QED BY OneAlways, <1>1, PTL

\* A restoration that failed by one error or hang-up, at whatever step, has put back the
\* database and the metadata that it found, with every write that came before it closed them.
THEOREM FailuresAreUndone ==
  ASSUME "crash" \notin Events, MaxEvents <= 1
  PROVE  Spec => []FailureIsUndone
<1>1. OneInv => FailureIsUndone
  BY DEF OneInv, Undone, Together, IsFound, Outside, FailureIsUndone
<1> QED BY OneAlways, <1>1, PTL

\* And it has set the mode back, unless its client is gone.
THEOREM FailuresReopen ==
  ASSUME "crash" \notin Events, MaxEvents <= 1
  PROVE  Spec => []FailureReopens
<1>1. OneInv => FailureReopens
  BY DEF OneInv, Undone, FailureReopens
<1> QED BY OneAlways, <1>1, PTL

------------------------------------------------------------------------------
(* The restoration implements AtomicRestore.                                *)

\* A restoration brings a generation of its own.
Newer ==
  /\ pc = "idle" => live.gen <= restores + 1
  /\ pc \in BeforeSwap \cup {"lock"} => live.gen <= restores
  /\ pc \in BeforeSwap \cup Swapping \cup Undoing => before[1] <= restores
  /\ pc \in Installed \cup {"serve", "clean"} => live.gen = restores + 1
  /\ pc \in Installed => live.data = 0
  /\ pc \in {"open", "register", "finalize"} =>
       coser = IF "coser" \in swapped THEN restores + 1 ELSE before[2]
\* The mode tells how far a restoration is, and whom a request meets.
Modes ==
  /\ pc \in Staging \cup {"stop", "drain", "close", "abandon"} => live.mode = "RESTORING"
  /\ pc \in {"serve", "clean"} => live.mode = "WAITING" /\ live.vetted = "unmapped"
  /\ request => live.mode # "WAITING"

AtomicInv == OneInv /\ Newer /\ Modes

\* A restoration brings a generation of its own.
LEMMA NewerStep ==
  ASSUME AtomicInv, [Next]_vars, "crash" \notin Events, MaxEvents <= 1
  PROVE  Newer'
<1>t. /\ used \in {0, 1} /\ restores \in Nat /\ live \in Database /\ aside \in Database
      /\ \A k : Spend(k) => used = 0 /\ used' = 1
      /\ ~SpendSome("fault", 2) /\ ~Spend("crash") /\ Survives
  BY OneDisturbance DEF AtomicInv, OneInv
<1>g. live.gen \in Nat
  BY <1>t DEF Database, Gens
<1> USE <1>t, <1>g DEF AtomicInv, OneInv, Newer, Database, process, loops, disk, databases, metadata, history,
      Early, Staging, Swapping, Undoing, Installed, BeforeSwap, Outside
<1>1. CASE Owner
  <2>1. CASE ApplyRestorePathMappings
    BY <2>1 DEF ApplyRestorePathMappings, FinalizedInv, IInv, TypeOK, CallTypes, MutexHeld, Steps
  <2>2. CASE ResumeMaintenance
    BY <2>2 DEF ResumeMaintenance, StartWorkers, FinalizedInv, IInv, TypeOK, CallTypes, MutexHeld, Steps
  <2>3. CASE Write
    BY <2>3 DEF Write, FinalizedInv, IInv, Handle, HandleOpen, HandleClosed, Alive
  <2>4. CASE Ask \/ Admit
    BY <2>4 DEF Ask, Admit, Serving
  <2> QED BY <1>1, <2>1, <2>2, <2>3, <2>4 DEF Owner
<1>2. CASE Begin
  BY <1>2 DEF Begin, Return
<1>3. CASE Proceed
  <2>1. CASE EnterMaintenance
    BY <2>1 DEF EnterMaintenance, Goes
  <2>2. CASE MoveDatabaseAside
    BY <2>2 DEF MoveDatabaseAside, Goes, NoDatabase
  <2>3. CASE InstallDatabase
    BY <2>3 DEF InstallDatabase, Goes, Packed, CoserKept
  <2>4. CASE MoveCoserAside
    BY <2>4 DEF MoveCoserAside, Goes, CoserKept
  <2>5. CASE InstallCoser
    BY <2>5 DEF InstallCoser, Goes, CoserKept
  <2>6. CASE Register
    BY <2>6 DEF Register, Goes
  <2>7. CASE Finalize
    BY <2>7 DEF Finalize, Goes
  <2>8. CASE RemoveAside
    BY <2>8 DEF RemoveAside, Return, NoDatabase
  <2>9. CASE Prepare \/ CreateSafetyFull \/ CancelWorkers \/ AwaitWorkers \/ StageDatabase \/ StageCoser \/
        CloseLive \/ OpenReplacement \/ Serve
    BY <2>9 DEF Prepare, CreateSafetyFull, CancelWorkers, AwaitWorkers, StageDatabase, StageCoser, CloseLive,
       OpenReplacement, Serve, Goes
  <2> QED BY <1>3, <2>1, <2>2, <2>3, <2>4, <2>5, <2>6, <2>7, <2>8, <2>9 DEF Proceed
<1>4. CASE Fail
  <2>1. CASE FailEarly
    BY <2>1 DEF FailEarly, Return, Fault, UsesContext
  <2>2. CASE FailStaging
    BY <2>2 DEF FailStaging, Fault, UsesContext
  <2>3. CASE Abandon
    BY <2>3 DEF Abandon, Return, StartWorkers
  <2>4. CASE FailClose
    BY <2>4 DEF FailClose, Return, StartWorkers
  <2>5. CASE FailSwap
    BY <2>5 DEF FailSwap, Fault, UsesContext
  <2> QED BY <1>4, <2>1, <2>2, <2>3, <2>4, <2>5 DEF Fail
<1>5. CASE Undo
  <2>1. CASE Reopen
    BY <2>1 DEF Reopen, Return, Opened, Fresh, FinalizedInv, Costs
  <2>2. CASE Recover
    BY <2>2 DEF Recover, Return, Ignored, StartWorkers, Kept, IsFound
  <2>3. CASE RemoveDatabase \/ ReturnDatabase \/ RemoveCoser \/ ReturnCoser
    BY <2>3 DEF RemoveDatabase, ReturnDatabase, RemoveCoser, ReturnCoser, Goes, Ignored, NoDatabase
  <2> QED BY <1>5, <2>1, <2>2, <2>3 DEF Undo
<1>6. ASSUME NEW l \in Loop, Iterate(l) \/ Work(l) \/ Lock(l) PROVE Newer'
  BY <1>6 DEF Iterate, Work, WantLock, Unlock, Exit, Lock, Moves
<1>7. CASE HangUp
  BY <1>7 DEF HangUp
<1>8. CASE Crash \/ Start
  BY <1>8 DEF Crash, Start, Survives
<1>9. CASE UNCHANGED vars
  BY <1>9 DEF vars
<1> QED BY <1>1, <1>2, <1>3, <1>4, <1>5, <1>6, <1>7, <1>8, <1>9 DEF Next, Restore

\* The mode tells how far a restoration is.
LEMMA ModesStep ==
  ASSUME AtomicInv, [Next]_vars, "crash" \notin Events, MaxEvents <= 1
  PROVE  Modes'
<1>t. /\ used \in {0, 1} /\ restores \in Nat /\ live \in Database /\ aside \in Database
      /\ \A k : Spend(k) => used = 0 /\ used' = 1
      /\ ~SpendSome("fault", 2) /\ ~Spend("crash") /\ Survives
  BY OneDisturbance DEF AtomicInv, OneInv
<1>g. live.gen \in Nat
  BY <1>t DEF Database, Gens
<1> USE <1>t, <1>g DEF AtomicInv, OneInv, Modes, Database, process, loops, disk, databases, metadata, history,
      Early, Staging, Swapping, Undoing, Installed, BeforeSwap, Outside
<1>1. CASE Owner
  <2>1. CASE ApplyRestorePathMappings
    BY <2>1, RestoreAssumption DEF ApplyRestorePathMappings, FinalizedInv, IInv, TypeOK, CallTypes, MutexHeld,
       Steps
  <2>2. CASE ResumeMaintenance
    BY <2>2 DEF ResumeMaintenance, StartWorkers, FinalizedInv, IInv, TypeOK, CallTypes, MutexHeld, Steps
  <2>3. CASE Write
    BY <2>3 DEF Write
  <2>4. CASE Ask \/ Admit
    BY <2>4 DEF Ask, Admit, Serving
  <2> QED BY <1>1, <2>1, <2>2, <2>3, <2>4 DEF Owner
<1>2. CASE Begin
  BY <1>2 DEF Begin, Return
<1>3. CASE Proceed
  <2>1. CASE EnterMaintenance
    BY <2>1 DEF EnterMaintenance, Goes
  <2>2. CASE MoveDatabaseAside
    BY <2>2 DEF MoveDatabaseAside, Goes, NoDatabase, FinalizedInv, IInv, Handle, HandleOpen, HandleClosed, Alive
  <2>3. CASE InstallDatabase
    BY <2>3 DEF InstallDatabase, Goes, Packed, FinalizedInv, IInv, Handle, HandleOpen, HandleClosed, Alive
  <2>4. CASE Register
    BY <2>4 DEF Register, Goes
  <2>5. CASE Finalize
    BY <2>5 DEF Finalize, Goes, FinalizedInv, IInv, Handle, HandleOpen, HandleClosed, Alive
  <2>6. CASE Serve
    BY <2>6 DEF Serve, Goes, FinalizedInv, IInv, Handle, HandleOpen, HandleClosed, Alive
  <2>7. CASE RemoveAside
    BY <2>7 DEF RemoveAside, Return, NoDatabase
  <2>8. CASE Prepare \/ CreateSafetyFull \/ CancelWorkers \/ AwaitWorkers \/ StageDatabase \/ StageCoser \/
        CloseLive \/ MoveCoserAside \/ InstallCoser \/ OpenReplacement
    BY <2>8 DEF Prepare, CreateSafetyFull, CancelWorkers, AwaitWorkers, StageDatabase, StageCoser, CloseLive,
       MoveCoserAside, InstallCoser, OpenReplacement, Goes
  <2> QED BY <1>3, <2>1, <2>2, <2>3, <2>4, <2>5, <2>6, <2>7, <2>8 DEF Proceed
<1>4. CASE Fail
  <2>1. CASE FailEarly
    BY <2>1 DEF FailEarly, Return, Fault, UsesContext
  <2>2. CASE FailStaging
    BY <2>2 DEF FailStaging, Fault, UsesContext
  <2>3. CASE Abandon
    BY <2>3 DEF Abandon, Return, StartWorkers
  <2>4. CASE FailClose
    BY <2>4 DEF FailClose, Return, StartWorkers
  <2>5. CASE FailSwap
    BY <2>5 DEF FailSwap, Fault, UsesContext
  <2> QED BY <1>4, <2>1, <2>2, <2>3, <2>4, <2>5 DEF Fail
<1>5. CASE Undo
  <2>1. CASE RemoveDatabase
    BY <2>1 DEF RemoveDatabase, Goes, Ignored, NoDatabase, FinalizedInv, IInv, Handle, HandleOpen, HandleClosed,
       Alive
  <2>2. CASE ReturnDatabase
    BY <2>2 DEF ReturnDatabase, Goes, Ignored, NoDatabase, FinalizedInv, IInv, Handle, HandleOpen, HandleClosed,
       Alive
  <2>3. CASE Reopen
    BY <2>3 DEF Reopen, Return, Opened, Fresh, FinalizedInv, Costs, NoDatabase
  <2>4. CASE Recover
    BY <2>4 DEF Recover, Return, Ignored, StartWorkers, FinalizedInv, IInv, Handle, HandleOpen, HandleClosed,
       Alive
  <2>5. CASE RemoveCoser \/ ReturnCoser
    BY <2>5 DEF RemoveCoser, ReturnCoser, Goes, Ignored
  <2> QED BY <1>5, <2>1, <2>2, <2>3, <2>4, <2>5 DEF Undo
<1>6. ASSUME NEW l \in Loop, Iterate(l) \/ Work(l) \/ Lock(l) PROVE Modes'
  BY <1>6 DEF Iterate, Work, WantLock, Unlock, Exit, Lock, Moves
<1>7. CASE HangUp
  BY <1>7 DEF HangUp
<1>8. CASE Crash \/ Start
  BY <1>8 DEF Crash, Start, Survives
<1>9. CASE UNCHANGED vars
  BY <1>9 DEF vars
<1> QED BY <1>1, <1>2, <1>3, <1>4, <1>5, <1>6, <1>7, <1>8, <1>9 DEF Next, Restore

\* The strengthening for the refinement is inductive.
LEMMA AtomicAlways ==
  ASSUME "crash" \notin Events, MaxEvents <= 1
  PROVE  Spec => []AtomicInv
<1>1. Init => AtomicInv
  <2> SUFFICES ASSUME Init PROVE AtomicInv
    OBVIOUS
  <2> USE DEF Init, Original, NoDatabase, Early, Staging, Swapping, Undoing, Installed, BeforeSwap
  <2>1. Newer /\ Modes
    BY DEF Newer, Modes
  <2> QED BY <2>1, OneInit DEF AtomicInv
<1>2. AtomicInv /\ [Next]_vars => AtomicInv'
  <2> SUFFICES ASSUME AtomicInv, [Next]_vars PROVE AtomicInv'
    OBVIOUS
  <2>1. OneInv'
    BY OneStep DEF AtomicInv
  <2> QED BY <2>1, NewerStep, ModesStep DEF AtomicInv
<1> QED BY <1>1, <1>2, PTL DEF Spec

\* What AtomicRestore sees of a state.
Seen ==
  /\ Outcome = IF pc \in {"idle", "lock"} THEN result ELSE "pending"
  /\ pc \in Closed =>
       Service = "closed" /\ Stored = [database |-> before[1], metadata |-> before[2], writes |-> written]
  /\ pc \notin Closed =>
       /\ Stored = [database |-> live.gen, metadata |-> coser, writes |-> live.data]
       /\ live.mode = "NORMAL" => Service = "serving"
       /\ live.mode = "RESTORING" => Service = "draining"
       /\ live.mode = "WAITING" /\ live.vetted = "unmapped" => Service = "unmapped"
       /\ live.mode = "WAITING" /\ live.vetted = "ok" /\ pc \in {"idle", "lock"} => Service = "mapped"

\* A server that has not crashed is open to handlers unless a restoration has closed it.
LEMMA SeenIs == AtomicInv => Seen
<1> SUFFICES ASSUME AtomicInv PROVE Seen
  OBVIOUS
<1>1. pc \in Steps /\ (pc \in {"idle", "lock", "clean"} => handle)
  BY DEF AtomicInv, OneInv, FinalizedInv, IInv, TypeOK, CallTypes, Together
<1>2. (pc \in HandleOpen => handle) /\ (pc \in HandleClosed => ~handle)
  BY DEF AtomicInv, OneInv, FinalizedInv, IInv, Handle
<1>3. pc \in Closed => ~handle
  BY <1>2 DEF HandleClosed, Closed
<1>4. pc \notin Closed => handle \/ pc = "serve"
  BY <1>1, <1>2 DEF HandleOpen, Closed, Steps
<1>5. Serving <=> handle /\ live.mode = "NORMAL"
  BY DEF Serving, AtomicInv, OneInv, FinalizedInv, Survives
<1>6. pc = "serve" => live.mode = "WAITING" /\ live.vetted = "unmapped"
  BY DEF AtomicInv, Modes
<1>7. CASE pc \in Closed
  BY <1>3, <1>5, <1>7 DEF Seen, Outcome, Stored, Service
<1>8. CASE pc \notin Closed
  BY <1>4, <1>5, <1>6, <1>8 DEF Seen, Outcome, Stored, Service
<1> QED BY <1>7, <1>8

\* Each step is one of AtomicRestore, or changes nothing that it sees.
LEMMA AtomicStep ==
  ASSUME AtomicInv, AtomicInv', [Next]_vars, "crash" \notin Events, MaxEvents <= 1
  PROVE  Atomic!Next \/ UNCHANGED Atomic!vars
<1>t. /\ used \in {0, 1} /\ restores \in 0..MaxRestores /\ live \in Database /\ aside \in Database
      /\ \A k : Spend(k) => used = 0 /\ used' = 1
      /\ ~SpendSome("fault", 2) /\ ~Spend("crash") /\ Survives
  BY OneDisturbance DEF AtomicInv, OneInv, FinalizedInv, IInv, TypeOK, CallTypes
<1>i. Newer /\ Modes /\ Together /\ Kept /\ CoserKept /\ Undone /\ Costs /\ Handle /\ MutexHeld /\ Undone' /\ Modes'
  BY DEF AtomicInv, OneInv, FinalizedInv, IInv, TypeOK
<1>s. Seen /\ Seen'
  BY SeenIs, PTL
<1>r. result # "pending" /\ result' # "pending" /\ Restorer # Nobody
  BY RestoreAssumption DEF AtomicInv, OneInv, FinalizedInv, IInv, TypeOK, CallTypes
<1> USE <1>t, <1>s DEF Seen, Closed, Early, Staging, Swapping, Undoing, Installed, BeforeSwap, Database,
      process, loops, disk, databases, metadata, history
<1>q. UNCHANGED <<Stored, Service, Outcome>> => UNCHANGED Atomic!vars
  BY DEF Atomic!vars
<1>u. UNCHANGED <<up, handle, live>> /\ pc \notin Closed /\ pc' \notin Closed => UNCHANGED Service
  BY DEF Service, Serving
<1>1. CASE Owner
  <2>1. CASE Ask
    BY <2>1, <1>q, <1>u DEF Ask
  <2>2. CASE ApplyRestorePathMappings
    <3>1. Atomic!Map
      BY <2>2, <1>i, <1>r DEF ApplyRestorePathMappings, MutexHeld, Atomic!Map, Atomic!Moves
    <3> QED BY <3>1 DEF Atomic!Next
  <2>3. CASE ResumeMaintenance
    <3>1. Atomic!Resume
      BY <2>3, <1>i, <1>r DEF ResumeMaintenance, MutexHeld, Atomic!Resume, Atomic!Moves
    <3> QED BY <3>1 DEF Atomic!Next
  <2>4. CASE Admit
    BY <2>4, <1>q DEF Admit, Stored, Service, Outcome, Serving
  <2>5. CASE Write
    <3>1. Atomic!Write
      BY <2>5, <1>i DEF Write, Modes, Handle, HandleClosed, Atomic!Write
    <3> QED BY <3>1 DEF Atomic!Next
  <2> QED BY <1>1, <2>1, <2>2, <2>3, <2>4, <2>5 DEF Owner
<1>2. CASE Begin
  <2>1. CASE pc' = "prepare"
    <3>1. Atomic!Begin
      BY <1>2, <1>r, <2>1 DEF Begin, Return, Atomic!Begin
    <3> QED BY <3>1 DEF Atomic!Next
  <2>2. CASE pc' = "idle"
    <3>1. Atomic!Refuse
      BY <1>2, <1>r, <1>u, <2>2 DEF Begin, Return, Atomic!Refuse
    <3> QED BY <3>1 DEF Atomic!Next
  <2> QED BY <1>2, <2>1, <2>2 DEF Begin, Return
<1>3. CASE Proceed
  <2>1. CASE Prepare \/ CreateSafetyFull
    BY <2>1, <1>i, <1>q DEF Prepare, CreateSafetyFull, Goes, Undone
  <2>2. CASE EnterMaintenance
    <3>1. Atomic!Drain
      BY <2>2, <1>i DEF EnterMaintenance, Goes, Undone, Atomic!Drain, Atomic!Moves
    <3> QED BY <3>1 DEF Atomic!Next
  <2>3. CASE CancelWorkers \/ AwaitWorkers \/ StageDatabase \/ StageCoser
    BY <2>3, <1>i, <1>q DEF CancelWorkers, AwaitWorkers, StageDatabase, StageCoser, Goes, Modes
  <2>4. CASE CloseLive
    <3>1. Atomic!Close
      BY <2>4, <1>i DEF CloseLive, Goes, Modes, Kept, IsFound, Together, Outside, Atomic!Close, Atomic!Moves
    <3> QED BY <3>1 DEF Atomic!Next
  <2>5. CASE MoveDatabaseAside \/ InstallDatabase \/ MoveCoserAside \/ InstallCoser \/ OpenReplacement \/
        Register
    BY <2>5, <1>q DEF MoveDatabaseAside, InstallDatabase, MoveCoserAside, InstallCoser, OpenReplacement,
          Register, Goes
  <2>6. CASE Finalize
    <3>1. restores + 1 \in Gens /\ before[1] <= restores /\ before[1] \in Gens /\ before[2] \in Gens
      BY <2>6, <1>i, RestoreAssumption DEF Finalize, Goes, Newer, Gens, AtomicInv, OneInv, FinalizedInv,
            IInv, TypeOK,
         CallTypes
    <3>2. /\ Stored = [database |-> before[1], metadata |-> before[2], writes |-> written]
          /\ Stored' = [database |-> restores + 1, metadata |-> coser, writes |-> 0]
          /\ coser \in {restores + 1, before[2]}
      BY <2>6, <1>i DEF Finalize, Goes, Newer
    <3>3. Atomic!Moves("closed", "unmapped") /\ Outcome = "pending" /\ Outcome' = "pending"
      BY <2>6 DEF Finalize, Goes, Atomic!Moves
    <3>4. Atomic!Exchange
      BY <3>1, <3>2, <3>3 DEF Atomic!Exchange, Gens
    <3> QED BY <3>4 DEF Atomic!Next
  <2>7. CASE Serve
    BY <2>7, <1>i, <1>q DEF Serve, Goes, Modes
  <2>8. CASE RemoveAside
    <3>1. Atomic!Succeed
      BY <2>8, <1>i DEF RemoveAside, Return, Modes, Atomic!Succeed
    <3> QED BY <3>1 DEF Atomic!Next
  <2> QED BY <1>3, <2>1, <2>2, <2>3, <2>4, <2>5, <2>6, <2>7, <2>8 DEF Proceed
<1>4. CASE Fail
  <2>1. CASE FailEarly
    <3>1. Atomic!Fail
      BY <2>1, <1>i DEF FailEarly, Return, Undone, Atomic!Fail
    <3> QED BY <3>1 DEF Atomic!Next
  <2>2. CASE FailStaging
    BY <2>2, <1>i, <1>q DEF FailStaging, Modes
  <2>3. CASE Abandon
    <3>1. Atomic!Fail
      BY <2>3, <1>i DEF Abandon, Return, Modes, Atomic!Fail
    <3> QED BY <3>1 DEF Atomic!Next
  <2>4. CASE FailClose
    <3>1. Atomic!Fail
      BY <2>4, <1>i DEF FailClose, Return, Modes, Atomic!Fail
    <3> QED BY <3>1 DEF Atomic!Next
  <2>5. CASE FailSwap
    BY <2>5, <1>q DEF FailSwap
  <2> QED BY <1>4, <2>1, <2>2, <2>3, <2>4, <2>5 DEF Fail
<1>5. CASE Undo
  <2>1. CASE RemoveDatabase \/ ReturnDatabase \/ RemoveCoser \/ ReturnCoser
    BY <2>1, <1>q DEF RemoveDatabase, ReturnDatabase, RemoveCoser, ReturnCoser, Goes
  <2>2. CASE Reopen
    BY <2>2, <1>i, <1>q DEF Reopen, Costs
  <2>3. CASE Recover
    <3>1. Atomic!Fail
      BY <2>3, <1>i DEF Recover, Return, Ignored, Costs, Kept, IsFound, CoserKept, Atomic!Fail
    <3> QED BY <3>1 DEF Atomic!Next
  <2> QED BY <1>5, <2>1, <2>2, <2>3 DEF Undo
<1>6. ASSUME NEW l \in Loop, Iterate(l) \/ Work(l) \/ Lock(l) PROVE UNCHANGED Atomic!vars
  <2>1. pc' = pc /\ live' = live /\ coser' = coser /\ before' = before /\ written' = written /\ result' = result
        /\ up' = up /\ handle' = handle
    BY <1>6 DEF Iterate, Work, WantLock, Unlock, Exit, Lock
  <2> QED BY <2>1, <1>q DEF Stored, Service, Outcome, Serving
<1>7. CASE HangUp \/ UNCHANGED vars
  <2>1. pc' = pc /\ live' = live /\ coser' = coser /\ before' = before /\ written' = written /\ result' = result
        /\ up' = up /\ handle' = handle
    BY <1>7 DEF HangUp, vars
  <2> QED BY <2>1, <1>q DEF Stored, Service, Outcome, Serving
<1>8. CASE Crash \/ Start
  BY <1>8 DEF Crash, Start, Survives
<1> QED BY <1>1, <1>2, <1>3, <1>4, <1>5, <1>6, <1>7, <1>8 DEF Next, Restore

\* With one error or one hang-up, and no crash, a restoration is one that exchanges the
\* database and its metadata in one step or gives back what it found, and that says which.
THEOREM RestoreIsAtomic ==
  ASSUME "crash" \notin Events, MaxEvents <= 1
  PROVE  Spec => ImplementsAtomicRestore
<1>1. Init => Atomic!Init
  <2> SUFFICES ASSUME Init PROVE Atomic!Init
    OBVIOUS
  <2>1. Stored = [database |-> 1, metadata |-> 1, writes |-> 0] /\ Service = "serving" /\ Outcome = "none"
    BY DEF Init, Original, Stored, Service, Outcome, Serving, Closed, Swapping, Undoing
  <2>2. 1 \in Gens
    BY RestoreAssumption DEF Gens
  <2> QED BY <2>1, <2>2 DEF Atomic!Init
<1>2. AtomicInv /\ AtomicInv' /\ [Next]_vars => [Atomic!Next]_(Atomic!vars)
  BY AtomicStep
<1> QED BY <1>1, <1>2, AtomicAlways, PTL DEF Spec, ImplementsAtomicRestore, Atomic!Spec
==============================================================================

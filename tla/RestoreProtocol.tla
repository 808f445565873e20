--------------------------- MODULE RestoreProtocol ---------------------------
(***************************************************************************)
(* The restoration of a backup: RestoreBackup, its rollback, the mapping   *)
(* of library paths, the resumption of work, and what goes on beside them: *)
(* loops that share its mutex, requests that have passed the maintenance   *)
(* gate, a client that hangs up, errors of the disk or the database, and   *)
(* crashes.                                                                *)
(*                                                                         *)
(* The live database and the directory of Coser metadata are replaced one  *)
(* after the other by renames; what they replace is kept beside them until *)
(* the end.  A database is a record of what matters here:                  *)
(*   gen     which restoration brought it (1: the original), 0: no file    *)
(*   pair    the metadata it goes with                                     *)
(*   data    what has been written to it since                             *)
(*   mode    maintenance_state.state                                       *)
(*   vetted  "raw" as it comes from a package, which knows its own backup  *)
(*           as CREATING, "registered" once it knows it as READY,          *)
(*           "unmapped" once finalized, "ok" once mapped                   *)
(* All restorations are of one backup: the names of the staged and of the  *)
(* replaced files, which contain its ID, are the same.                     *)
(***************************************************************************)
EXTENDS Integers

CONSTANTS
  Loop,        \* loops of workers that take operationMu (scheduler, automation)
  Sections,    \* how often an iteration of a loop takes it
  Restorer,    \* RestoreBackup as a holder of operationMu
  Nobody,      \* the mutex is free
  Packages,    \* whether the package has metadata: TRUE full, FALSE daily snapshot
  MaxRestores, \* bound: calls of RestoreBackup
  MaxWrites,   \* bound: writes to a database
  Events,      \* kinds of disturbances: "fault", "hangup", "crash"
  MaxEvents    \* bound: disturbances in a behaviour

ASSUME RestoreAssumption ==
  /\ Sections \in [Loop -> 1..2]
  /\ Restorer \notin Loop /\ Nobody \notin Loop \cup {Restorer}
  /\ Packages \subseteq BOOLEAN
  /\ MaxRestores \in Nat /\ MaxWrites \in Nat
  /\ Events \subseteq {"fault", "hangup", "crash"} /\ MaxEvents \in Nat

VARIABLES
  up,          \* the process runs
  handle,      \* the handlers' database is open
  mu,          \* holder of operationMu
  running,     \* workerCancel is set
  loop, todo,  \* where a loop is, and the locked sections left in its iteration
  request,     \* a writing request is past the maintenance gate
  pc, full,    \* the restoration: its next step, whether the package is full,
  gone, swapped, \* its context is cancelled, what is replaced
  live, aside, stage,      \* the database, the replaced and the staged one
  coser, asideCoser, stageCoser, \* likewise the metadata: its generation, 0 if none
  before, result, \* gen and metadata a restoration found, and how it ended
  written,     \* what has been written to the database that a restoration found
  restores, used  \* calls and disturbances so far

databases == <<live, aside, stage>>
metadata == <<coser, asideCoser, stageCoser>>
disk == <<databases, metadata>>
loops == <<running, loop, todo>>
process == <<up, handle, loops, request>>
history == <<before, written, result, restores>>
vars == <<process, mu, pc, full, gone, swapped, disk, history, used>>

Early == {"prepare", "safety", "enter"}
Staging == {"stageDatabase", "stageCoser"}
Swapping == {"moveDatabase", "installDatabase", "moveCoser", "installCoser",
             "open", "register", "finalize"}
Undoing == {"removeDatabase", "returnDatabase", "removeCoser", "returnCoser", "reopen", "recover"}
Steps == {"idle", "lock", "stop", "drain", "close", "serve", "clean", "abandon"}
         \cup Early \cup Staging \cup Swapping \cup Undoing
Gens == 0..(MaxRestores + 2)
Database == [gen : Gens, pair : Gens, data : 0..MaxWrites,
             mode : {"NORMAL", "RESTORING", "WAITING"},
             vetted : {"raw", "registered", "unmapped", "ok"}]
NoDatabase == [gen |-> 0, pair |-> 0, data |-> 0, mode |-> "NORMAL", vetted |-> "ok"]

ProcessTypes ==
  /\ up \in BOOLEAN /\ handle \in BOOLEAN /\ running \in BOOLEAN /\ request \in BOOLEAN
  /\ mu \in Loop \cup {Restorer, Nobody}
  /\ loop \in [Loop -> {"off", "out", "waiting", "inside"}] /\ todo \in [Loop -> 0..2]
CallTypes ==
  /\ pc \in Steps /\ full \in BOOLEAN /\ gone \in BOOLEAN /\ swapped \subseteq {"database", "coser"}
  /\ before \in Gens \X Gens /\ written \in 0..MaxWrites
  /\ result \in {"none", "restored", "failed", "refused"}
  /\ restores \in 0..MaxRestores /\ used \in 0..MaxEvents
DiskTypes ==
  /\ live \in Database /\ aside \in Database /\ stage \in {"none", "partial", "whole"}
  /\ coser \in Gens /\ asideCoser \in Gens /\ stageCoser \in {"none", "partial", "whole"}
\* The mutex is held by who is between Lock and Unlock.
MutexHeld ==
  /\ mu = Restorer <=> pc \notin {"idle", "lock"}
  /\ \A l \in Loop : mu = l <=> loop[l] = "inside"
\* The mapping is pending only in a database that waits for validation.
Pending == live.vetted = "unmapped" => live.mode = "WAITING"
TypeOK == ProcessTypes /\ CallTypes /\ DiskTypes /\ MutexHeld /\ Pending

Original == [gen |-> 1, pair |-> 1, data |-> 0, mode |-> "NORMAL", vetted |-> "ok"]
Init ==
  /\ up = TRUE /\ handle = TRUE /\ running = TRUE /\ request = FALSE /\ mu = Nobody
  /\ loop = [l \in Loop |-> "out"] /\ todo = [l \in Loop |-> 0]
  /\ pc = "idle" /\ full = TRUE /\ gone = FALSE /\ swapped = {}
  /\ live = Original /\ aside = NoDatabase /\ stage = "none"
  /\ coser = 1 /\ asideCoser = 0 /\ stageCoser = "none"
  /\ before = <<0, 0>> /\ written = 0 /\ result = "none"
  /\ restores = 0 /\ used = 0

------------------------------------------------------------------------------
SpendSome(k, n) == k \in Events /\ used + n <= MaxEvents /\ used' = used + n
Spend(k) == SpendSome(k, 1)
Goes(from, to) == pc = from /\ pc' = to

\* The maintenance gate: the handlers' database answers, and answers NORMAL.
Serving == up /\ handle /\ live.mode = "NORMAL"

\* A database was opened: one that is not there is created.
Fresh == [NoDatabase EXCEPT !.gen = MaxRestores + 2]
Opened == IF live.gen = 0 THEN Fresh ELSE live

StartWorkers ==
  IF running THEN UNCHANGED loops
  ELSE /\ running' = TRUE
       /\ loop' = [l \in Loop |-> "out"] /\ todo' = [l \in Loop |-> 0]

\* RestoreBackup returns: the mutex is released, and what was staged is removed,
\* but not a copy that was broken off.
Return(r) ==
  /\ pc' = "idle" /\ mu' = Nobody /\ result' = r /\ swapped' = {}
  /\ stage' = IF stage = "partial" THEN "partial" ELSE "none"
  /\ stageCoser' = IF stageCoser = "partial" THEN "partial" ELSE "none"

------------------------------------------------------------------------------
\* The restoration.

Ask ==
  /\ up /\ pc = "idle" /\ restores < MaxRestores
  /\ pc' = "lock" /\ restores' = restores + 1
  /\ gone' = FALSE /\ full' \in Packages
  /\ UNCHANGED <<process, mu, swapped, disk, before, written, result, used>>

\* The mutex, then the mode of the database that is open by now.
Begin ==
  /\ pc = "lock" /\ mu = Nobody
  /\ IF handle /\ live.mode = "NORMAL" /\ ~gone
       THEN /\ pc' = "prepare" /\ mu' = Restorer
            /\ before' = <<live.gen, coser>> /\ written' = live.data /\ result' = "none"
            /\ UNCHANGED <<swapped, stage, stageCoser>>
       ELSE Return("refused") /\ UNCHANGED <<before, written>>
  /\ UNCHANGED <<process, full, gone, live, aside, coser, asideCoser, restores, used>>

\* PrepareRestore asks for a READY record: a new database has none, a raw one not yet.
Known == live.gen # Fresh.gen /\ live.vetted # "raw"
Prepare ==
  /\ Goes("prepare", "safety") /\ ~gone
  /\ Known
  /\ UNCHANGED <<process, mu, full, gone, swapped, disk, history, used>>

CreateSafetyFull ==
  /\ Goes("safety", "enter") /\ ~gone
  /\ UNCHANGED <<process, mu, full, gone, swapped, disk, history, used>>

EnterMaintenance ==
  /\ Goes("enter", "stop") /\ ~gone
  /\ live' = [live EXCEPT !.mode = "RESTORING"]
  /\ UNCHANGED <<process, mu, full, gone, swapped, aside, stage, metadata, history, used>>

\* stopWorkers cancels the context of the loops and waits for all of them.
CancelWorkers ==
  /\ Goes("stop", "drain")
  /\ running' = FALSE
  /\ UNCHANGED <<up, handle, loop, todo, request, mu, full, gone, swapped, disk, history, used>>
Drained == \A l \in Loop : loop[l] = "off"
\* Faulty variant: nobody waits.
AwaitNobody ==
  /\ Goes("drain", "stageDatabase")
  /\ UNCHANGED <<process, mu, full, gone, swapped, disk, history, used>>
AwaitWorkers ==
  /\ Goes("drain", "stageDatabase") /\ Drained
  /\ UNCHANGED <<process, mu, full, gone, swapped, disk, history, used>>

\* Copied under a name that must be free, then opened once to validate it.
StageDatabase ==
  /\ Goes("stageDatabase", IF full THEN "stageCoser" ELSE "close") /\ ~gone
  /\ stage = "none" /\ stage' = "whole"
  /\ UNCHANGED <<process, mu, full, gone, swapped, live, aside, metadata, history, used>>
StageCoser ==
  /\ Goes("stageCoser", "close")
  /\ stageCoser = "none" /\ stageCoser' = "whole"
  /\ UNCHANGED <<process, mu, full, gone, swapped, databases, coser, asideCoser, history, used>>

\* Faulty variant: a request that waits for the database is given the next one.
CloseSparingRequests ==
  /\ Goes("close", "moveDatabase")
  /\ handle' = FALSE
  /\ UNCHANGED <<up, loops, request, mu, full, gone, swapped, disk, history, used>>
\* The live database closes; requests that still hold it fail from here on.
CloseLive ==
  /\ Goes("close", "moveDatabase")
  /\ handle' = FALSE /\ request' = FALSE
  /\ UNCHANGED <<up, loops, mu, full, gone, swapped, disk, history, used>>

MoveDatabaseAside ==
  /\ Goes("moveDatabase", "installDatabase")
  /\ aside' = live /\ live' = NoDatabase
  /\ UNCHANGED <<process, mu, full, gone, swapped, stage, metadata, history, used>>
\* What the package holds. It was made in NORMAL mode.
Packed == [gen |-> restores + 1, pair |-> IF full THEN restores + 1 ELSE coser, data |-> 0,
           mode |-> "NORMAL", vetted |-> "raw"]
InstallDatabase ==
  /\ Goes("installDatabase", IF full THEN "moveCoser" ELSE "open")
  /\ live' = Packed /\ stage' = "none"
  /\ swapped' = swapped \cup {"database"}
  /\ UNCHANGED <<process, mu, full, gone, aside, metadata, history, used>>
\* A directory is not renamed onto one that is not empty.
MoveCoserAside ==
  /\ Goes("moveCoser", "installCoser")
  /\ coser = 0 \/ asideCoser = 0
  /\ asideCoser' = IF coser = 0 THEN asideCoser ELSE coser
  /\ coser' = 0
  /\ UNCHANGED <<process, mu, full, gone, swapped, databases, stageCoser, history, used>>
InstallCoser ==
  /\ Goes("installCoser", "open")
  /\ coser' = restores + 1 /\ stageCoser' = "none"
  /\ swapped' = swapped \cup {"coser"}
  /\ UNCHANGED <<process, mu, full, gone, databases, asideCoser, history, used>>

\* Faulty variant: the handlers get the new database as soon as it is open.
OpenAndServe ==
  /\ Goes("open", "register") /\ ~gone
  /\ handle' = TRUE
  /\ UNCHANGED <<up, loops, request, mu, full, gone, swapped, disk, history, used>>
OpenReplacement ==
  /\ Goes("open", "register") /\ ~gone
  /\ UNCHANGED <<process, mu, full, gone, swapped, disk, history, used>>
\* The roots of this machine are put in, then the two packages are made known.
Register ==
  /\ Goes("register", "finalize") /\ ~gone
  /\ live' = [live EXCEPT !.vetted = "registered"]
  /\ UNCHANGED <<process, mu, full, gone, swapped, aside, stage, metadata, history, used>>
\* FinalizeRestore: sessions revoked, jobs and leases cancelled, schedules
\* suspended, WAITING_VALIDATION with RESTORE_PATH_MAPPING_REQUIRED.
Finalize ==
  /\ Goes("finalize", "serve") /\ ~gone
  /\ live' = [live EXCEPT !.mode = "WAITING", !.vetted = "unmapped"]
  /\ UNCHANGED <<process, mu, full, gone, swapped, aside, stage, metadata, history, used>>
Serve ==
  /\ Goes("serve", "clean")
  /\ handle' = TRUE
  /\ UNCHANGED <<up, loops, request, mu, full, gone, swapped, disk, history, used>>
\* What was replaced is removed; errors are ignored.
RemoveAside ==
  /\ pc = "clean"
  /\ \/ /\ aside' = NoDatabase
        /\ asideCoser' = IF "coser" \in swapped THEN 0 ELSE asideCoser
        /\ UNCHANGED used
     \/ /\ Spend("fault")
        /\ \/ UNCHANGED aside /\ asideCoser' = IF "coser" \in swapped THEN 0 ELSE asideCoser
           \/ aside' = NoDatabase /\ UNCHANGED asideCoser
  /\ Return("restored")
  /\ UNCHANGED <<process, full, gone, live, coser, before, written, restores>>

------------------------------------------------------------------------------
\* Failures. A step that is given the caller's context fails once that is cancelled.

UsesContext == pc \in Early \cup {"stageDatabase", "open", "register", "finalize"}
Fault == IF UsesContext /\ gone THEN UNCHANGED used ELSE Spend("fault")

\* Before anything has changed.
FailEarly ==
  /\ pc \in Early
  /\ Fault \/ (pc = "prepare" /\ ~Known /\ UNCHANGED used)
  /\ Return("failed")
  /\ UNCHANGED <<process, full, gone, live, aside, coser, asideCoser, before, written, restores>>

\* A copy that breaks off stays; a database that turns out invalid is removed.
FailStaging ==
  /\ pc' = "abandon"
  /\ \/ /\ pc = "stageDatabase"
        /\ IF stage # "none" THEN UNCHANGED <<stage, used>>
           ELSE \/ Fault /\ UNCHANGED stage
                \/ Spend("fault") /\ stage' = "partial"
        /\ UNCHANGED stageCoser
     \/ /\ pc = "stageCoser"
        /\ IF stageCoser # "none" THEN UNCHANGED <<stageCoser, used>>
           ELSE Spend("fault") /\ stageCoser' \in {"none", "partial"}
        /\ UNCHANGED stage
  /\ UNCHANGED <<process, mu, full, gone, swapped, live, aside, coser, asideCoser, history>>

\* Faulty variant: the mode is not set back.
AbandonRestoring ==
  /\ pc = "abandon" /\ StartWorkers /\ Return("failed")
  /\ UNCHANGED <<up, handle, request, full, gone, live, aside>>
  /\ UNCHANGED <<coser, asideCoser, before, written, restores, used>>
\* Faulty variant: RestoreBackup keeps the mutex.
AbandonLocked ==
  /\ pc = "abandon" /\ live' = [live EXCEPT !.mode = "NORMAL"] /\ StartWorkers
  /\ pc' = "idle" /\ result' = "failed" /\ UNCHANGED <<used, mu, swapped, stage, stageCoser>>
  /\ UNCHANGED <<up, handle, request, full, gone, aside, coser, asideCoser, before, written, restores>>
\* restoreBeforeSwapFailed: back to NORMAL, by the same context; errors are ignored.
Abandon ==
  /\ pc = "abandon"
  /\ \/ live' = [live EXCEPT !.mode = "NORMAL"] /\ ~gone /\ UNCHANGED used
     \/ UNCHANGED live /\ IF gone THEN UNCHANGED used ELSE Spend("fault")
  /\ StartWorkers
  /\ Return("failed")
  /\ UNCHANGED <<up, handle, request, full, gone, aside, coser, asideCoser, before, written, restores>>

\* The live database fails to close cleanly and is opened again, or not even that.
FailClose ==
  /\ pc = "close"
  /\ request' = FALSE
  /\ \/ /\ Spend("fault") /\ live' = [live EXCEPT !.mode = "NORMAL"]
        /\ StartWorkers /\ UNCHANGED handle
     \/ /\ SpendSome("fault", 2)
        /\ handle' = FALSE /\ UNCHANGED <<live, loops>>
  /\ Return("failed")
  /\ UNCHANGED <<up, full, gone, aside, coser, asideCoser, before, written, restores>>

FailSwap ==
  /\ pc \in Swapping
  /\ Fault \/ (pc = "moveCoser" /\ coser # 0 /\ asideCoser # 0 /\ UNCHANGED used)
  /\ pc' = "removeDatabase"
  /\ UNCHANGED <<process, mu, full, gone, swapped, disk, history>>

\* rollbackRestore. Every error but that of the last Open is ignored.
Ignored == Spend("fault")
RemoveDatabase ==
  /\ Goes("removeDatabase", "returnDatabase")
  /\ \/ live' = (IF "database" \in swapped THEN NoDatabase ELSE live) /\ UNCHANGED used
     \/ Ignored /\ UNCHANGED live
  /\ UNCHANGED <<process, mu, full, gone, swapped, aside, stage, metadata, history>>
\* Faulty variant: only a database that was replaced is put back.
ReturnDatabaseIfSwapped ==
  /\ Goes("returnDatabase", "removeCoser")
  /\ IF aside.gen # 0 /\ "database" \in swapped THEN live' = aside /\ aside' = NoDatabase
     ELSE UNCHANGED <<live, aside>>
  /\ UNCHANGED <<process, mu, full, gone, swapped, stage, metadata, history, used>>
ReturnDatabase ==
  /\ Goes("returnDatabase", "removeCoser")
  /\ \/ /\ IF aside.gen # 0 THEN live' = aside /\ aside' = NoDatabase ELSE UNCHANGED <<live, aside>>
        /\ UNCHANGED used
     \/ Ignored /\ UNCHANGED <<live, aside>>
  /\ UNCHANGED <<process, mu, full, gone, swapped, stage, metadata, history>>
\* Faulty variant: metadata that was replaced is left where it is.
RemoveCoserNever ==
  /\ Goes("removeCoser", "returnCoser")
  /\ UNCHANGED <<process, mu, full, gone, swapped, disk, history, used>>
RemoveCoser ==
  /\ Goes("removeCoser", "returnCoser")
  /\ \/ coser' = (IF "coser" \in swapped THEN 0 ELSE coser) /\ UNCHANGED used
     \/ Ignored /\ UNCHANGED coser
  /\ UNCHANGED <<process, mu, full, gone, swapped, databases, asideCoser, stageCoser, history>>
ReturnCoser ==
  /\ Goes("returnCoser", "reopen")
  /\ \/ /\ IF asideCoser # 0 /\ coser = 0 THEN coser' = asideCoser /\ asideCoser' = 0
           ELSE UNCHANGED <<coser, asideCoser>>
        /\ UNCHANGED used
     \/ Ignored /\ UNCHANGED <<coser, asideCoser>>
  /\ UNCHANGED <<process, mu, full, gone, swapped, databases, stageCoser, history>>
Reopen ==
  /\ pc = "reopen"
  /\ \/ /\ pc' = "recover" /\ live' = Opened
        /\ UNCHANGED <<used, mu, swapped, stage, stageCoser, result>>
     \/ Spend("fault") /\ Return("failed") /\ UNCHANGED live
  /\ UNCHANGED <<process, full, gone, aside, coser, asideCoser, before, written, restores>>
Recover ==
  /\ pc = "recover"
  /\ \/ live' = [live EXCEPT !.mode = "NORMAL"] /\ UNCHANGED used
     \/ Ignored /\ UNCHANGED live
  /\ handle' = TRUE
  /\ StartWorkers
  /\ Return("failed")
  /\ UNCHANGED <<up, request, full, gone, aside, coser, asideCoser, before, written, restores>>

------------------------------------------------------------------------------
\* The owner, after a restoration.

ApplyRestorePathMappings ==
  /\ up /\ handle /\ mu = Nobody
  /\ live.mode = "WAITING" /\ live.vetted = "unmapped"
  /\ live' = [live EXCEPT !.vetted = "ok"]
  /\ UNCHANGED <<process, mu, pc, full, gone, swapped, aside, stage, metadata, history, used>>
\* ResumeMaintenance, once its look at the environment is content.
ResumeMaintenance ==
  /\ up /\ handle /\ mu = Nobody
  /\ live.mode = "WAITING" /\ live.vetted = "ok"
  /\ live' = [live EXCEPT !.mode = "NORMAL"]
  /\ StartWorkers
  /\ UNCHANGED <<up, handle, request, mu, pc, full, gone, swapped, aside, stage, metadata, history, used>>

\* A request passes the gate and writes later, as long as its database is open.
Admit ==
  /\ Serving /\ ~request /\ live.data < MaxWrites
  /\ request' = TRUE
  /\ UNCHANGED <<up, handle, loops, mu, pc, full, gone, swapped, disk, history, used>>
Write ==
  /\ request /\ handle
  /\ request' = FALSE
  /\ live' = [live EXCEPT !.data = @ + 1] /\ written' = live.data + 1
  /\ UNCHANGED <<up, handle, loops, mu, pc, full, gone, swapped, aside, stage, metadata>>
  /\ UNCHANGED <<before, result, restores, used>>

------------------------------------------------------------------------------
\* The loops. The context is looked at between iterations, not at the mutex.

Moves(l, from, to) == loop[l] = from /\ loop' = [loop EXCEPT ![l] = to]
Iterate(l) ==
  /\ loop[l] = "out" /\ todo[l] = 0 /\ running
  /\ todo' = [todo EXCEPT ![l] = Sections[l]]
  /\ UNCHANGED <<up, handle, running, loop, request, mu, pc, full, gone, swapped, disk, history, used>>
WantLock(l) ==
  /\ Moves(l, "out", "waiting") /\ todo[l] > 0
  /\ UNCHANGED <<up, handle, running, todo, request, mu, pc, full, gone, swapped, disk, history, used>>
Lock(l) ==
  /\ Moves(l, "waiting", "inside") /\ mu = Nobody /\ mu' = l
  /\ UNCHANGED <<up, handle, running, todo, request, pc, full, gone, swapped, disk, history, used>>
Unlock(l) ==
  /\ Moves(l, "inside", "out") /\ mu' = Nobody
  /\ todo' = [todo EXCEPT ![l] = @ - 1]
  /\ UNCHANGED <<up, handle, running, request, pc, full, gone, swapped, disk, history, used>>
Exit(l) ==
  /\ Moves(l, "out", "off") /\ todo[l] = 0 /\ ~running
  /\ UNCHANGED <<up, handle, running, todo, request, mu, pc, full, gone, swapped, disk, history, used>>

------------------------------------------------------------------------------
\* The environment.

HangUp ==
  /\ pc # "idle" /\ ~gone /\ Spend("hangup")
  /\ gone' = TRUE
  /\ UNCHANGED <<process, mu, pc, full, swapped, disk, history>>

Crash ==
  /\ up /\ Spend("crash")
  /\ up' = FALSE /\ handle' = FALSE /\ running' = FALSE /\ request' = FALSE
  /\ loop' = [l \in Loop |-> "off"] /\ todo' = [l \in Loop |-> 0]
  /\ mu' = Nobody /\ pc' = "idle" /\ gone' = FALSE /\ swapped' = {} /\ result' = "none"
  /\ UNCHANGED <<full, disk, before, written, restores>>

\* The process starts: no step of a restoration is looked for.
Start ==
  /\ ~up /\ up' = TRUE /\ handle' = TRUE
  /\ live' = Opened
  /\ IF Opened.mode = "NORMAL" THEN StartWorkers ELSE UNCHANGED loops
  /\ UNCHANGED <<request, mu, pc, full, gone, swapped, aside, stage, metadata, history, used>>

------------------------------------------------------------------------------
Proceed ==
  \/ Prepare \/ CreateSafetyFull \/ EnterMaintenance \/ CancelWorkers \/ AwaitWorkers
  \/ StageDatabase \/ StageCoser \/ CloseLive
  \/ MoveDatabaseAside \/ InstallDatabase \/ MoveCoserAside \/ InstallCoser
  \/ OpenReplacement \/ Register \/ Finalize \/ Serve \/ RemoveAside
Fail == FailEarly \/ FailStaging \/ Abandon \/ FailClose \/ FailSwap
Undo == RemoveDatabase \/ ReturnDatabase \/ RemoveCoser \/ ReturnCoser \/ Reopen \/ Recover
Restore == Proceed \/ Fail \/ Undo
Owner == Ask \/ ApplyRestorePathMappings \/ ResumeMaintenance \/ Admit \/ Write
Work(l) == WantLock(l) \/ Unlock(l) \/ Exit(l)

Next ==
  \/ Owner \/ Begin \/ Restore
  \/ \E l \in Loop : Iterate(l) \/ Work(l) \/ Lock(l)
  \/ HangUp \/ Crash \/ Start
Spec == Init /\ [][Next]_vars

\* Steps of a call and of a loop are taken; the mutex is handed to who has waited
\* for long. Nothing is assumed of the owner or of new iterations.
FairSpec ==
  /\ Spec
  /\ WF_vars(Restore) /\ SF_vars(Begin)
  /\ \A l \in Loop : WF_vars(Work(l)) /\ SF_vars(Lock(l))

------------------------------------------------------------------------------
\* Properties.

\* FinalizeRestore "invalidates state copied from the backup before normal
\* handlers or workers are allowed to operate on the restored database", and
\* normal work waits until every library has been mapped.
FinalizedBeforeServed ==
  /\ Serving => live.vetted = "ok"
  /\ (\E l \in Loop : loop[l] # "off") => live.vetted = "ok"

\* What is served is never the database of one state with the metadata of another.
NoMixture == Serving => live.pair = coser

\* No loop works while the database is closed and its file is replaced.
WorkersAreAway == ~handle => Drained

\* A restoration that failed has left the database and the metadata it found, with
\* what requests have written meanwhile.
FailureIsUndone ==
  pc = "idle" /\ result = "failed" =>
    before = <<live.gen, coser>> /\ live.data = written

\* A restoration that failed has left the maintenance mode that let it begin,
\* unless its client is gone: then the way back has no context to set it in.
FailureReopens ==
  pc = "idle" /\ result = "failed" /\ ~gone => live.mode = "NORMAL"

\* The restoration implements one that exchanges everything at its commit point, where
\* Finalize has prepared the new database: from CloseLive to there, and on the way back,
\* what counts as installed is what the restoration found.
Closed == Swapping \cup Undoing
Stored ==
  IF pc \in Closed THEN [database |-> before[1], metadata |-> before[2], writes |-> written]
  ELSE [database |-> live.gen, metadata |-> coser, writes |-> live.data]
Service ==
  CASE Serving -> "serving"
    [] pc \in Closed /\ ~handle -> "closed"
    [] pc \notin Closed /\ handle /\ live.mode = "RESTORING" -> "draining"
    [] pc \notin Closed /\ live.mode = "WAITING" /\ live.vetted = "unmapped" -> "unmapped"
    [] pc \notin Closed /\ handle /\ live.mode = "WAITING" /\ live.vetted = "ok" -> "mapped"
    [] OTHER -> "down"
Outcome == IF pc \in {"idle", "lock"} THEN result ELSE "pending"
Atomic == INSTANCE AtomicRestore WITH
  Generation <- Gens, installed <- Stored, service <- Service, outcome <- Outcome
ImplementsAtomicRestore == Atomic!Spec

\* A restoration that was asked for ends.
RestoreEnds == pc # "idle" ~> pc = "idle"
==============================================================================

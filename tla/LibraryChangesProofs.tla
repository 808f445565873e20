-------------------------- MODULE LibraryChangesProofs --------------------------
(***************************************************************************)
(* Theorems about LibraryChanges, for any sources and any numbers of       *)
(* changes and disturbances.                                               *)
(***************************************************************************)
EXTENDS LibraryChanges, TLAPS

\* The present is later than every stamp of a path.
LEMMA NowIsLater ==
  ASSUME NEW p \in Path, pending[p] \in Nat, rows[p] \in Nat, batch[p] \in Nat
  PROVE  Now(p) \in Nat /\ Now(p) > pending[p] /\ Now(p) > rows[p] /\ Now(p) > batch[p]
<1> DEFINE Later(t) == t > pending[p] /\ t > rows[p] /\ t > batch[p]
           Times == {pending[p] + 1, rows[p] + 1, batch[p] + 1}
<1>1. \E t \in Times : Later(t)
  <2>1. CASE pending[p] >= rows[p] /\ pending[p] >= batch[p]
    BY <2>1
  <2>2. CASE rows[p] >= pending[p] /\ rows[p] >= batch[p]
    BY <2>2
  <2>3. CASE batch[p] >= pending[p] /\ batch[p] >= rows[p]
    BY <2>3
  <2> QED BY <2>1, <2>2, <2>3
<1>2. Now(p) = CHOOSE t \in Times : Later(t)
  BY DEF Now
<1>3. Now(p) \in Times /\ Later(Now(p))
  <2> HIDE DEF Times, Later
  <2> QED BY <1>1, <1>2
<1>4. Times \subseteq Nat
  OBVIOUS
<1> QED BY <1>3, <1>4

-------------------------------------------------------------------------------
(* Types. *)

LEMMA CollectTypes ==
  ASSUME RowTypes, MonitorTypes, PassTypes, NEW p \in Path, Collect(p)
  PROVE  pending' \in [Path -> Nat]
<1>1. \A q \in Path : Now(q) \in Nat
  BY NowIsLater DEF RowTypes, MonitorTypes, PassTypes, Stamp
<1>2. Root \in Path
  BY DEF Path
<1> QED BY <1>1, <1>2 DEF Collect, NoPath, MonitorTypes, Stamp

LEMMA ObserveTypes ==
  ASSUME ChangesTypeOK, NEW p \in Path, Observe(p)
  PROVE  pending' \in [Path -> Nat] /\ lost' \in BOOLEAN /\ edits' \in 0..MaxEdits
         /\ used' \in 0..MaxEvents /\ UNCHANGED <<monitored, watching>>
<1> USE ChangesAssumption DEF ChangesTypeOK, DiskTypes, MonitorTypes
<1>1. UNCHANGED <<monitored, watching>> /\ edits' \in 0..MaxEdits
  BY DEF Observe
<1>2. pending' \in [Path -> Nat] /\ lost' \in BOOLEAN /\ used' \in 0..MaxEvents
  <2>1. CASE Collect(p) /\ UNCHANGED <<lost, used>>
    BY <2>1, CollectTypes
  <2>2. CASE ~(Collect(p) /\ UNCHANGED <<lost, used>>)
    <3>1. pending' = pending
      BY <2>2 DEF Observe
    <3>2. lost' = lost \/ lost' = TRUE
      BY <2>2 DEF Observe
    <3>3. used' = used \/ (used < MaxEvents /\ used' = used + 1)
      BY <2>2 DEF Observe, Disturb
    <3>4. used' \in 0..MaxEvents
      BY <3>3
    <3> QED BY <3>1, <3>2, <3>4 DEF Stamp
  <2> QED BY <2>1, <2>2
<1> QED BY <1>1, <1>2

LEMMA MonitorStepTypes ==
  ASSUME ChangesTypeOK, MonitorStep
  PROVE  ChangesTypeOK'
<1> USE DEF ChangesTypeOK
<1>1. \A q \in Path : Now(q) \in Nat
  BY NowIsLater DEF RowTypes, MonitorTypes, PassTypes, Stamp
<1>2. CASE WatcherFailed \/ Refresh
  <2>1. /\ UNCHANGED <<disk, sources, durable, pass, scan, history, used, up, monitored>>
        /\ pending' \in [Path -> Nat] /\ watching' \in BOOLEAN /\ lost' \in BOOLEAN
    <3>1. /\ UNCHANGED <<disk, sources, durable, pass, scan, history, used, up, monitored>>
          /\ lost' = FALSE /\ (watching' = watching \/ watching' = monitored)
      BY <1>2 DEF WatcherFailed, Refresh
    <3>2. pending' \in [Path -> Nat]
      <4>1. CASE WatcherFailed
        BY <1>1, <4>1 DEF WatcherFailed, MonitorTypes, Stamp
      <4>2. CASE Refresh
        BY <1>1, <4>2 DEF Refresh, NoPath, Path
      <4> QED BY <1>2, <4>1, <4>2
    <3>3. watching' \in BOOLEAN
      BY <3>1 DEF MonitorTypes
    <3> QED BY <3>1, <3>2, <3>3
  <2> QED BY <2>1 DEF disk, sources, durable, pass, comparison, scan, history, DiskTypes, SourceTypes,
       RowTypes, MonitorTypes, PassTypes, CompareTypes, ScanTypes, Stamp
<1>3. ASSUME NEW p \in Path, Flush(p) PROVE ChangesTypeOK'
  <2>1. rows' \in [Path -> Nat] /\ later' \subseteq Path /\ pending' \in [Path -> Nat]
    BY <1>3 DEF Flush, QueueLibraryPathChange, RowTypes, MonitorTypes, Stamp
  <2> QED BY <1>3, <2>1 DEF Flush, disk, sources, pass, comparison, scan, history, DiskTypes,
       SourceTypes, RowTypes, MonitorTypes, PassTypes, CompareTypes, ScanTypes, Stamp
<1> QED BY <1>2, <1>3 DEF MonitorStep

LEMMA ScanTypesStep ==
  ASSUME ChangesTypeOK, NEW s \in Source,
         ScanStep(s) \/ Enter(s, Worker) \/ OwnerScan(s) \/ ScanRefused(s) \/ OwnerHangsUp(s) \/ ConfirmRebind(s)
  PROVE  ChangesTypeOK'
<1> USE DEF ChangesTypeOK, Stamp
<1>1. used' \in 0..MaxEvents
  BY ChangesAssumption DEF ScanStep, Enter, BeginScan, ScanRead, ScanVerify, ScanChanged, RecordUnreadable,
     ScanCommit, OwnerScan, ScanRefused, OwnerHangsUp, ConfirmRebind, Disturb
<1>2. ScanTypes'
  <2> DEFINE Kinds == {"none", "here", "old", "since"}
             Phases == {"begin", "read", "verify", "commit", "failed"}
  <2> USE DEF ScanTypes
  <2>1. ASSUME given' \in [Source -> [Caller -> Kinds]],
               UNCHANGED <<scanner, phase, read, expected>>
        PROVE  ScanTypes'
    BY <2>1
  <2>2. ASSUME NEW who \in Caller, NEW k \in Kinds
        PROVE  [given EXCEPT ![s][who] = k] \in [Source -> [Caller -> Kinds]]
    BY <2>2
  <2>3. CASE OwnerScan(s)
    <3>1. Owner \in Caller
      BY DEF Caller
    <3> QED BY <2>1, <2>2, <2>3, <3>1 DEF OwnerScan, LookUp
  <2>4. CASE ConfirmRebind(s)
    BY <2>1, <2>4 DEF ConfirmRebind
  <2>5. ASSUME NEW who \in Caller, Enter(s, who) PROVE ScanTypes'
    <3>1. CASE scanner[s] = Idle
      BY <2>5, <3>1 DEF Enter, SourceTypes
    <3>2. CASE scanner[s] # Idle
      BY <2>1, <2>2, <2>5, <3>2 DEF Enter
    <3> QED BY <3>1, <3>2
  <2>6. CASE BeginScan(s) \/ ScanVerify(s) \/ ScanChanged(s)
    BY <2>6 DEF BeginScan, ScanVerify, ScanChanged
  <2>7. CASE ScanRead(s)
    <3>1. PICK c \in 0..content[s] : read' = [read EXCEPT ![s] = c]
      BY <2>7 DEF ScanRead
    <3>2. read' \in [Source -> Nat]
      BY <3>1 DEF DiskTypes
    <3> QED BY <2>7, <3>2 DEF ScanRead
  <2>8. CASE RecordUnreadable(s) \/ ScanCommit(s) \/ ScanRefused(s) \/ OwnerHangsUp(s)
    <3>1. scanner[s] \in Caller /\ End(s)
      BY <2>8 DEF RecordUnreadable, ScanCommit, ScanRefused, OwnerHangsUp, Caller
    <3>2. given' \in [Source -> [Caller -> Kinds]]
      BY <2>2, <3>1 DEF End
    <3>3. /\ scanner' \in [Source -> Caller \cup {Idle}] /\ phase' \in [Source -> Phases]
          /\ read' \in [Source -> Nat] /\ expected' \in [Source -> Nat]
      BY <3>1 DEF End
    <3> QED BY <3>2, <3>3
  <2> QED BY <2>3, <2>4, <2>5, <2>6, <2>7, <2>8 DEF ScanStep, Caller
<1>3. SourceTypes'
  <2> USE DEF SourceTypes, Reconciles, Abort
  <2>1. CASE \/ ScanRead(s) \/ ScanVerify(s) \/ OwnerHangsUp(s) \/ OwnerScan(s)
             \/ Enter(s, Owner) \/ Enter(s, Worker)
    BY <2>1 DEF ScanRead, ScanVerify, OwnerHangsUp, OwnerScan, Enter, sources
  <2>2. CASE ScanChanged(s)
    BY <2>2 DEF ScanChanged
  <2>3. CASE RecordUnreadable(s)
    BY <2>3 DEF RecordUnreadable
  <2>4. CASE ScanCommit(s)
    <3>1. CASE revision[s] = expected[s]
      <4>1. /\ known' = [known EXCEPT ![s] = read[s]]
            /\ reconcile' = [reconcile EXCEPT ![s] = "IN_SYNC"]
            /\ available' = [available EXCEPT ![s] = TRUE]
            /\ revision' = [revision EXCEPT ![s] = @ + 1]
        BY <2>4, <3>1 DEF ScanCommit
      <4>2. read[s] \in Nat
        BY DEF ScanTypes
      <4> QED BY <4>1, <4>2
    <3>2. CASE revision[s] # expected[s]
      BY <2>4, <3>2 DEF ScanCommit
    <3> QED BY <3>1, <3>2
  <2>5. CASE BeginScan(s)
    BY <2>5 DEF BeginScan
  <2>6. CASE ScanRefused(s)
    BY <2>6 DEF ScanRefused
  <2>7. CASE ConfirmRebind(s)
    BY <2>7 DEF ConfirmRebind
  <2> QED BY <2>1, <2>2, <2>3, <2>4, <2>5, <2>6, <2>7 DEF ScanStep
<1>4. DiskTypes'
  BY DEF ScanStep, Enter, BeginScan, ScanRead, ScanVerify, ScanChanged, RecordUnreadable,
     ScanCommit, OwnerScan, ScanRefused, OwnerHangsUp, ConfirmRebind, disk, DiskTypes
<1>5. /\ UNCHANGED <<durable, up, monitor, pass, overlooked>>
      /\ misled' = misled \/ misled' = misled \cup {s} \/ misled' = misled \ {s}
  BY DEF ScanStep, Enter, BeginScan, ScanRead, ScanVerify, ScanChanged, RecordUnreadable,
     ScanCommit, OwnerScan, ScanRefused, OwnerHangsUp, ConfirmRebind, history
<1> QED BY <1>1, <1>2, <1>3, <1>4, <1>5 DEF durable, monitor, pass, comparison, RowTypes,
     MonitorTypes, PassTypes, CompareTypes

\* The steps of a pass, with what each of them changes.
LEMMA PassStepTypes ==
  ASSUME ChangesTypeOK, PassStep \/ DiscoveryFails \/ \E p \in Path : RetryDue(p)
  PROVE  ChangesTypeOK'
<1> USE DEF ChangesTypeOK, Stamp, history
<1> DEFINE Rest == DiskTypes' /\ MonitorTypes'
<1>0. ASSUME UNCHANGED <<disk, up, monitor>> PROVE Rest
  BY <1>0 DEF disk, monitor, DiskTypes, MonitorTypes
<1>1. CASE StartPass
  <2>1. PassTypes'
    BY <1>1 DEF StartPass, PassTypes, PendingLibraryPathChanges, Steps, RowTypes
  <2> QED BY <1>0, <1>1, <2>1 DEF StartPass, sources, durable, comparison, scan, SourceTypes,
       RowTypes, CompareTypes, ScanTypes
<1>2. CASE AllMarked \/ EndPass
  <2>1. PassTypes'
    BY <1>2 DEF AllMarked, EndPass, PassTypes, Steps
  <2> QED BY <1>0, <1>2, <2>1 DEF AllMarked, EndPass, sources, durable, comparison, scan,
       SourceTypes, RowTypes, CompareTypes, ScanTypes
<1>3. CASE LoadDirectories \/ Walk \/ StatArchives \/ AllCompared
  <2>1. PassTypes'
    BY <1>3 DEF LoadDirectories, Walk, StatArchives, AllCompared, PassTypes, Steps
  <2>2. \A set : Load(set) \in [Source -> [revision : Nat, known : Nat, loaded : BOOLEAN]]
    BY DEF Load, CompareTypes, SourceTypes
  <2>3. CompareTypes' /\ found' \in Nat
    BY <1>3, <2>2 DEF LoadDirectories, Walk, StatArchives, AllCompared, CompareTypes, DiskTypes,
       RowTypes, durable
  <2> QED BY <1>0, <1>3, <2>1, <2>3 DEF LoadDirectories, Walk, StatArchives, AllCompared,
       sources, durable, comparison, scan, SourceTypes, RowTypes, ScanTypes
<1>4. CASE CompleteChanges
  <2>1. PassTypes' /\ RowTypes'
    BY <1>4 DEF CompleteChanges, PassTypes, RowTypes, Steps, NoPath, ChangedSourceTargets
  <2> QED BY <1>0, <1>4, <2>1 DEF CompleteChanges, sources, comparison, scan, SourceTypes,
       CompareTypes, ScanTypes
<1>5. ASSUME NEW p \in Path, MarkChange(p) PROVE ChangesTypeOK'
  <2>1. PassTypes' /\ SourceTypes' /\ overlooked' \subseteq Source
    BY <1>5 DEF MarkChange, PassTypes, SourceTypes, Marked, Reconciles, Concerned
  <2> QED BY <1>0, <1>5, <2>1 DEF MarkChange, durable, comparison, scan, RowTypes,
       CompareTypes, ScanTypes
<1>6. ASSUME NEW s \in Source, CompareSource(s) PROVE ChangesTypeOK'
  <2>1. CompareTypes' /\ SourceTypes'
    BY <1>6 DEF CompareSource, CompareTypes, SourceTypes, Reconciles, Unread
  <2> QED BY <1>0, <1>6, <2>1 DEF CompareSource, durable, scan, RowTypes, PassTypes, ScanTypes
<1>7. ASSUME NEW s \in Source, WorkerScan(s) PROVE ChangesTypeOK'
  <2>1. ScanTypes' /\ SourceTypes' /\ targets' \subseteq Source
    BY <1>7 DEF WorkerScan, LookUp, ScanTypes, SourceTypes, sources, PassTypes, Caller
  <2> QED BY <1>0, <1>7, <2>1 DEF WorkerScan, durable, comparison, RowTypes, PassTypes,
       CompareTypes
<1>8. CASE DiscoveryFails
  <2>1. \A q \in Path : Now(q) \in Nat
    BY NowIsLater DEF RowTypes, MonitorTypes, PassTypes
  <2>2. RowTypes' /\ CompareTypes' /\ step' \in Steps
    BY <1>8, <2>1 DEF DiscoveryFails, BreaksOff, RowTypes, CompareTypes, Unread, Steps
  <2>3. used' \in 0..MaxEvents
    BY <1>8, ChangesAssumption DEF DiscoveryFails, BreaksOff, Disturb
  <2> QED BY <1>0, <1>8, <2>2, <2>3 DEF DiscoveryFails, BreaksOff, sources, scan, SourceTypes,
       PassTypes,
       ScanTypes
<1>9. ASSUME NEW p \in Path, RetryDue(p) PROVE ChangesTypeOK'
  BY <1>0, <1>9 DEF RetryDue, sources, pass, comparison, scan, RowTypes, SourceTypes, PassTypes,
       CompareTypes, ScanTypes
<1>10. ASSUME NEW s \in Source, Enter(s, Worker) PROVE ChangesTypeOK'
  BY <1>10, ScanTypesStep
<1> QED BY <1>1, <1>2, <1>3, <1>4, <1>5, <1>6, <1>7, <1>8, <1>9, <1>10 DEF PassStep

LEMMA ChangesTypesStep ==
  ASSUME ChangesTypeOK, [ChangesNext]_vars
  PROVE  ChangesTypeOK'
<1> USE DEF Stamp, history
<1>1. ASSUME NEW s \in Source, Edit(s) PROVE ChangesTypeOK'
  <2>1. s \in Path
    BY DEF Path
  <2>2. content' \in [Source -> Nat] /\ Observe(s)
    BY <1>1 DEF Edit, ChangesTypeOK, DiskTypes
  <2> QED BY <1>1, <2>1, <2>2, ObserveTypes DEF Edit, ChangesTypeOK, sources, durable, pass,
       comparison, scan, DiskTypes, SourceTypes, RowTypes, MonitorTypes, PassTypes,
       CompareTypes, ScanTypes
<1>2. CASE AddUnbound
  <2>1. Unbound \in Path
    BY DEF Path
  <2>2. files' \in Nat /\ Observe(Unbound)
    BY <1>2 DEF AddUnbound, ChangesTypeOK, DiskTypes
  <2> QED BY <1>2, <2>1, <2>2, ObserveTypes DEF AddUnbound, ChangesTypeOK, sources, durable,
       pass, comparison, scan, DiskTypes, SourceTypes, RowTypes, MonitorTypes, PassTypes,
       CompareTypes, ScanTypes
<1>3. CASE SwitchMonitor \/ Start
  <2>0. used' \in 0..MaxEvents
    BY <1>3, ChangesAssumption DEF SwitchMonitor, Start, Disturb, ChangesTypeOK
  <2>1. MonitorTypes'
    <3>1. UNCHANGED <<watching, pending, lost>>
      BY <1>3 DEF SwitchMonitor, Start, monitor
    <3>2. up' \in BOOLEAN /\ monitored' \in BOOLEAN
      BY <1>3 DEF SwitchMonitor, Start, monitor, ChangesTypeOK, MonitorTypes
    <3> QED BY <3>1, <3>2 DEF ChangesTypeOK, MonitorTypes
  <2> QED BY <1>3, <2>0, <2>1 DEF SwitchMonitor, Start, ChangesTypeOK, disk, sources, durable,
       pass,
       comparison, scan, DiskTypes, SourceTypes, RowTypes, PassTypes, CompareTypes, ScanTypes
<1>4. CASE Crash
  <2>0. used' \in 0..MaxEvents
    BY <1>4, ChangesAssumption DEF Crash, Disturb, ChangesTypeOK
  <2>1. MonitorTypes'
    <3>1. up' = FALSE /\ watching' = FALSE /\ lost' = FALSE /\ monitored' = monitored
      BY <1>4 DEF Crash
    <3>2. pending' \in [Path -> Nat]
      BY <1>4 DEF Crash, NoPath
    <3> QED BY <3>1, <3>2 DEF ChangesTypeOK, MonitorTypes
  <2>2. PassTypes' /\ CompareTypes' /\ ScanTypes'
    BY <1>4 DEF Crash, PassTypes, CompareTypes, ScanTypes, NoPath, NoCaller, Steps, Unread
  <2> QED BY <1>4, <2>0, <2>1, <2>2 DEF Crash, ChangesTypeOK, disk, sources, durable, DiskTypes,
       SourceTypes, RowTypes
<1>5. CASE UNCHANGED vars
  BY <1>5 DEF vars, ChangesTypeOK, disk, sources, durable, monitor, pass, comparison, scan,
       DiskTypes, SourceTypes, RowTypes, MonitorTypes, PassTypes, CompareTypes, ScanTypes
<1> QED BY <1>1, <1>2, <1>3, <1>4, <1>5, MonitorStepTypes, PassStepTypes, ScanTypesStep
        DEF ChangesNext

LEMMA ChangesInitTypes == ASSUME ChangesInit PROVE ChangesTypeOK
<1> USE ChangesAssumption DEF ChangesInit, NoPath, Stamp
<1>1. DiskTypes /\ SourceTypes /\ RowTypes
  BY DEF DiskTypes, SourceTypes, RowTypes, Reconciles
<1>2. MonitorTypes
  BY DEF MonitorTypes
<1>3. PassTypes /\ CompareTypes /\ ScanTypes
  BY DEF PassTypes, CompareTypes, ScanTypes, NoCaller, Unread, Steps
<1> QED BY <1>1, <1>2, <1>3 DEF ChangesTypeOK

\* ChangesTypeOK: every variable has its type; a source has one of the states
\* that the table allows.
THEOREM ChangesTypes == ChangesSpec => []ChangesTypeOK
<1>1. ChangesInit => ChangesTypeOK
  BY ChangesInitTypes
<1>2. ChangesTypeOK /\ [ChangesNext]_vars => ChangesTypeOK'
  BY ChangesTypesStep
<1> QED BY <1>1, <1>2, PTL DEF ChangesSpec

-------------------------------------------------------------------------------
(* What a discovery has loaded. *)

\* What was loaded of a directory is not newer than what is stored, and is
\* what is stored as long as the revision is the same.
LoadedIsStored ==
  \A s \in Directories : detector[s].loaded =>
    /\ detector[s].revision <= revision[s]
    /\ detector[s].revision = revision[s] => detector[s].known = known[s]

\* A revision never decreases, and another content comes with a later one.
LEMMA RevisionFrame ==
  ASSUME ChangesTypeOK, ChangesNext, NEW s \in Source
  PROVE  \/ revision'[s] = revision[s] /\ known'[s] = known[s]
         \/ revision'[s] = revision[s] + 1
<1> DEFINE Goal == \/ revision'[s] = revision[s] /\ known'[s] = known[s]
                   \/ revision'[s] = revision[s] + 1
<1> USE DEF ChangesTypeOK, SourceTypes
<1>1. ASSUME NEW t \in Source,
             RecordUnreadable(t) \/ ScanRefused(t) \/ ConfirmRebind(t)
      PROVE  Goal
  BY <1>1 DEF RecordUnreadable, ScanRefused, ConfirmRebind
<1>2. ASSUME NEW t \in Source, ScanCommit(t) PROVE Goal
  <2>1. CASE revision[t] = expected[t]
    BY <1>2, <2>1 DEF ScanCommit
  <2>2. CASE revision[t] # expected[t]
    BY <1>2, <2>2 DEF ScanCommit
  <2> QED BY <2>1, <2>2
<1>3. CASE UNCHANGED <<revision, known>>
  BY <1>3
<1>4. \/ UNCHANGED <<revision, known>>
      \/ \E t \in Source : \/ RecordUnreadable(t) \/ ScanRefused(t) \/ ConfirmRebind(t)
                           \/ ScanCommit(t)
  BY DEF ChangesNext, MonitorStep, WatcherFailed, Refresh, Flush, PassStep, StartPass, AllMarked,
     LoadDirectories, Walk, StatArchives, AllCompared, CompleteChanges, EndPass, MarkChange,
     CompareSource, WorkerScan, Enter, BeginScan, DiscoveryFails, BreaksOff, RetryDue, Edit, OwnerScan,
     ScanStep,
     ScanRead, ScanVerify, ScanChanged, OwnerHangsUp, AddUnbound, SwitchMonitor, Crash, Start,
     sources
<1> QED BY <1>1, <1>2, <1>3, <1>4

LEMMA LoadedStep ==
  ASSUME ChangesTypeOK, LoadedIsStored, ChangesNext
  PROVE  LoadedIsStored'
<1> SUFFICES ASSUME NEW s \in Directories, detector'[s].loaded
    PROVE  /\ detector'[s].revision <= revision'[s]
           /\ detector'[s].revision = revision'[s] => detector'[s].known = known'[s]
  BY DEF LoadedIsStored
<1> USE DEF ChangesTypeOK, SourceTypes, CompareTypes
<1>1. s \in Source
  BY DEF Source
<1>2. CASE detector'[s] = detector[s]
  <2>1. /\ detector[s].revision \in Nat /\ revision[s] \in Nat
        /\ detector[s].revision <= revision[s]
        /\ detector[s].revision = revision[s] => detector[s].known = known[s]
    BY <1>1, <1>2 DEF LoadedIsStored
  <2> QED BY <1>1, <1>2, <2>1, RevisionFrame
<1>3. CASE LoadDirectories \/ Walk
  <2>1. \/ detector'[s] = detector[s]
        \/ detector'[s].revision = revision[s] /\ detector'[s].known = known[s]
    BY <1>1, <1>3 DEF LoadDirectories, Walk, Load
  <2>2. UNCHANGED sources
    BY <1>3 DEF LoadDirectories, Walk
  <2>3. revision[s] \in Nat
    BY <1>1
  <2> QED BY <1>2, <2>1, <2>2, <2>3 DEF sources
<1>4. \/ UNCHANGED detector \/ LoadDirectories \/ Walk \/ DiscoveryFails \/ Crash
      \/ \E t \in Source : CompareSource(t)
  BY DEF ChangesNext, MonitorStep, WatcherFailed, Refresh, Flush, PassStep, StartPass, AllMarked,
     StatArchives, AllCompared, CompleteChanges, EndPass, MarkChange,
     WorkerScan, Enter, BeginScan, RetryDue, Edit, OwnerScan, ScanStep,
     ScanRead, ScanVerify, ScanChanged, RecordUnreadable, ScanCommit, ScanRefused, OwnerHangsUp,
     ConfirmRebind, AddUnbound, SwitchMonitor, Start, pass, comparison
<1>5. ASSUME DiscoveryFails \/ Crash PROVE FALSE
  BY <1>1, <1>5 DEF DiscoveryFails, BreaksOff, Crash, Unread
<1>6. ASSUME NEW t \in Source, CompareSource(t) PROVE detector'[s] = detector[s]
  BY <1>1, <1>6 DEF CompareSource, Unread
<1> QED BY <1>2, <1>3, <1>4, <1>5, <1>6

\* NoOutdatedMark: no source is marked for files that a scan has stored since
\* the discovery began.
THEOREM MarksAreNotOutdated == ChangesSpec => NoOutdatedMark
<1> DEFINE IInv == ChangesTypeOK /\ LoadedIsStored
           Marks == \A s \in Source :
             step = "suspect" /\ content' = content
             /\ reconcile[s] = "IN_SYNC" /\ reconcile'[s] = "NEEDS_RESCAN"
             => known[s] # seen[s]
<1>1. ChangesInit => IInv
  <2> SUFFICES ASSUME ChangesInit PROVE LoadedIsStored
    BY ChangesInitTypes
  <2>1. \A s \in Source : detector[s].loaded = FALSE
    BY DEF ChangesInit, Unread
  <2> QED BY <2>1 DEF LoadedIsStored, Source
<1>2. IInv /\ [ChangesNext]_vars => IInv'
  <2> SUFFICES ASSUME IInv, [ChangesNext]_vars PROVE LoadedIsStored'
    BY ChangesTypesStep
  <2>1. CASE ChangesNext
    BY <2>1, LoadedStep
  <2>2. CASE UNCHANGED vars
    BY <2>2 DEF vars, pass, comparison, sources, LoadedIsStored
  <2> QED BY <2>1, <2>2
<1>3. IInv /\ [ChangesNext]_vars => [Marks]_vars
  <2> SUFFICES ASSUME IInv, ChangesNext, NEW s \in Source, step = "suspect", content' = content,
                      reconcile[s] = "IN_SYNC", reconcile'[s] = "NEEDS_RESCAN"
      PROVE  known[s] # seen[s]
    OBVIOUS
  <2> USE DEF ChangesTypeOK, SourceTypes, DiskTypes
  <2>1. ASSUME NEW t \in Source, CompareSource(t) PROVE known[s] # seen[s]
    <3>1. t = s /\ detector[s].loaded /\ seen[s] # detector[s].known /\ Current(s)
      BY <2>1 DEF CompareSource
    <3> QED BY <3>1 DEF Current, LoadedIsStored, Source
  <2>2. ASSUME NEW t \in Source, ConfirmRebind(t) PROVE FALSE
    <3>1. content'[t] = content[t] + 1
      BY <2>2 DEF ConfirmRebind
    <3> QED BY <3>1
  <2>3. ASSUME NEW t \in Source,
               \/ ScanChanged(t) \/ RecordUnreadable(t) \/ ScanCommit(t) \/ ScanRefused(t)
               \/ BeginScan(t)
        PROVE  FALSE
    BY <2>3 DEF ScanChanged, RecordUnreadable, ScanCommit, ScanRefused, BeginScan, Abort
  <2>4. \/ UNCHANGED reconcile
        \/ \E t \in Source : \/ CompareSource(t) \/ ConfirmRebind(t) \/ ScanChanged(t)
                             \/ RecordUnreadable(t) \/ ScanCommit(t) \/ ScanRefused(t)
                             \/ BeginScan(t)
    BY DEF ChangesNext, MonitorStep, WatcherFailed, Refresh, Flush, PassStep, StartPass,
       AllMarked, LoadDirectories, Walk, StatArchives, AllCompared, CompleteChanges, EndPass,
       MarkChange, WorkerScan, Enter, OwnerScan, DiscoveryFails, BreaksOff, RetryDue, Edit, ScanStep, ScanRead,
       ScanVerify,
       OwnerHangsUp, AddUnbound, SwitchMonitor, Crash, Start, sources
  <2> QED BY <2>1, <2>2, <2>3, <2>4
<1> QED BY <1>1, <1>2, <1>3, PTL DEF ChangesSpec, NoOutdatedMark

-------------------------------------------------------------------------------
(* Changes on their way. *)

\* The stamp up to which a path's changes have been handed to its sources.
Handed(p) == IF p \in handled THEN batch[p] ELSE 0

\* A later change of the path is collected, or stored and not about to be
\* replaced by an earlier one that was collected.
Heard(p) == \/ pending[p] > Handed(p)
            \/ pending[p] = 0 /\ rows[p] > Handed(p)
Reached(s) == lost \/ Heard(s) \/ Heard(Root) \/ s \in overlooked

\* A source whose stored content differs, or will if its scan is committed.
Committable(s) == scanner[s] # Idle /\ revision[s] = expected[s]
Misleading(s) == given[s][scanner[s]] = "old"
Behind(s) ==
  \/ reconcile[s] = "IN_SYNC" /\ known[s] # content[s] /\ s \notin misled
  \/ /\ Committable(s) /\ phase[s] \in {"verify", "commit"} /\ read[s] # content[s]
     /\ ~Misleading(s)
BehindIsReached == watching => \A s \in Source : Behind(s) => Reached(s)

\* A scan that can still be committed shows in the state of its source; after a
\* rebind it can be committed only if it read the revision later.
Shows(s) ==
  /\ expected[s] <= revision[s]
  /\ scanner[s] = Idle => phase[s] = "begin"
  /\ \A who \in Caller :
       given[s][who] = "since" => scanner[s] = who /\ expected[s] < revision[s]
  /\ Committable(s) /\ phase[s] \notin {"begin", "failed"} => reconcile[s] = "SCANNING"
ScanShows == \A s \in Source : Shows(s)
BatchHandled ==
  step \in {"discover", "walk", "compare", "suspect", "complete"} =>
    \A p \in Path : batch[p] # 0 => p \in handled

LEMMA HandedBounds ==
  ASSUME ChangesTypeOK, NEW p \in Path
  PROVE  /\ Handed(p) \in Nat /\ Handed(p) <= batch[p]
         /\ pending[p] \in Nat /\ rows[p] \in Nat /\ batch[p] \in Nat
BY DEF ChangesTypeOK, MonitorTypes, RowTypes, PassTypes, Stamp, Handed

\* What is collected is heard of, and so is what was before.
LEMMA CollectHeard ==
  ASSUME ChangesTypeOK, NEW q \in Path, Collect(q), UNCHANGED <<rows, batch, handled>>,
         NEW p \in Path, Heard(p) \/ p = q
  PROVE  Heard(p)' \/ Heard(Root)'
<1>1. Root \in Path
  BY DEF Path
<1>2. /\ Now(p) > Handed(p) /\ Now(Root) > Handed(Root)
      /\ Now(p) \in Nat /\ Now(Root) \in Nat
  BY <1>1, NowIsLater, HandedBounds
<1>3. /\ \A r \in Path : Handed(r)' = Handed(r)
  BY DEF Handed
<1>4. CASE pending' = [NoPath EXCEPT ![Root] = Now(Root)]
  <2>1. pending'[Root] = Now(Root)
    BY <1>1, <1>4 DEF NoPath
  <2> QED BY <1>1, <1>2, <1>3, <2>1 DEF Heard
<1>5. CASE pending' = [pending EXCEPT ![q] = Now(q)]
  <2>1. pending'[p] = IF p = q THEN Now(p) ELSE pending[p]
    BY <1>5 DEF ChangesTypeOK, MonitorTypes
  <2> QED BY <1>2, <1>3, <2>1 DEF Heard
<1> QED BY <1>4, <1>5 DEF Collect

\* A change that is heard of is, or the root is, until its sources are marked.
LEMMA HeardFrame ==
  ASSUME ChangesTypeOK, BatchHandled, ChangesNext, watching, watching',
         NEW p \in Path, Heard(p), ~MarkChange(p)
  PROVE  Heard(p)' \/ Heard(Root)'
<1> DEFINE Goal == Heard(p)' \/ Heard(Root)'
<1>1. Root \in Path
  BY DEF Path
<1>2. /\ Handed(p) \in Nat /\ Handed(p) <= batch[p]
      /\ pending[p] \in Nat /\ rows[p] \in Nat /\ batch[p] \in Nat
  BY HandedBounds
<1>3. ASSUME NEW q \in Path, Observe(q), UNCHANGED <<rows, batch, handled>> PROVE Goal
  <2>1. CASE Collect(q)
    BY <1>3, <2>1, CollectHeard
  <2>2. CASE UNCHANGED pending
    BY <1>3, <2>2 DEF Heard, Handed
  <2> QED BY <1>3, <2>1, <2>2 DEF Observe
<1>4. CASE WatcherFailed
  <2>1. pending' = [pending EXCEPT ![Root] = Now(Root)] /\ UNCHANGED <<rows, batch, handled>>
    BY <1>4 DEF WatcherFailed, durable, pass
  <2>2. pending'[Root] = Now(Root) /\ Handed(Root)' = Handed(Root)
    BY <1>1, <2>1 DEF ChangesTypeOK, MonitorTypes, Handed
  <2>3. Now(Root) > Handed(Root)
    BY <1>1, NowIsLater, HandedBounds
  <2> QED BY <2>2, <2>3 DEF Heard
<1>5. ASSUME NEW q \in Path, Flush(q) PROVE Goal
  <2>1. UNCHANGED <<batch, handled>> /\ pending' = [pending EXCEPT ![q] = 0] /\ pending[q] # 0
    BY <1>5 DEF Flush, pass
  <2>2. CASE p # q
    <3>1. rows'[p] = rows[p] /\ pending'[p] = pending[p]
      BY <1>5, <2>1, <2>2 DEF Flush, QueueLibraryPathChange, ChangesTypeOK, RowTypes, MonitorTypes
    <3> QED BY <2>1, <3>1 DEF Heard, Handed
  <2>3. CASE p = q
    <3>1. pending'[p] = 0 /\ rows'[p] >= pending[p] /\ rows'[p] \in Nat
      BY <1>2, <1>5, <2>1, <2>3
         DEF Flush, QueueLibraryPathChange, ChangesTypeOK, RowTypes, MonitorTypes
    <3>2. pending[p] > Handed(p)
      BY <2>1, <2>3 DEF Heard
    <3> QED BY <1>2, <2>1, <3>1, <3>2 DEF Heard, Handed
  <2> QED BY <2>2, <2>3
<1>6. CASE StartPass
  <2>1. handled' = {} /\ UNCHANGED <<pending, rows>>
    BY <1>6 DEF StartPass, durable, monitor
  <2> QED BY <1>2, <2>1 DEF Heard, Handed
<1>7. ASSUME NEW q \in Path, MarkChange(q) PROVE Goal
  <2>1. p # q /\ handled' = handled \cup {q} /\ UNCHANGED <<pending, rows, batch>>
    BY <1>7 DEF MarkChange, durable, monitor
  <2> QED BY <2>1 DEF Heard, Handed
<1>8. CASE CompleteChanges
  <2>1. /\ handled' = {} /\ UNCHANGED pending
        /\ rows'[p] = IF batch[p] # 0 /\ rows[p] = batch[p] THEN 0 ELSE rows[p]
    BY <1>8 DEF CompleteChanges, monitor
  <2>2. batch[p] # 0 => p \in handled
    BY <1>8 DEF CompleteChanges, BatchHandled
  <2> QED BY <1>2, <2>1, <2>2 DEF Heard, Handed
<1>9. CASE DiscoveryFails
  <2>1. UNCHANGED <<batch, handled, pending>>
        /\ rows'[p] = IF batch[p] # 0 THEN Now(p) ELSE rows[p]
    BY <1>9 DEF DiscoveryFails, BreaksOff, monitor
  <2>2. Now(p) \in Nat /\ Now(p) > rows[p]
    BY <1>2, NowIsLater
  <2> QED BY <1>2, <2>1, <2>2 DEF Heard, Handed
<1>10. CASE UNCHANGED <<pending, rows, batch, handled>>
  BY <1>10 DEF Heard, Handed
<1>11. ASSUME Refresh \/ Crash PROVE FALSE
  <2>1. Refresh => watching # monitored /\ watching' = monitored
    BY DEF Refresh
  <2>2. Crash => watching' = FALSE
    BY DEF Crash
  <2> QED BY <1>11, <2>1, <2>2 DEF ChangesTypeOK, MonitorTypes
<1>12. \/ UNCHANGED <<pending, rows, batch, handled>>
       \/ Refresh \/ Crash \/ WatcherFailed \/ StartPass \/ CompleteChanges \/ DiscoveryFails
       \/ \E q \in Path : Flush(q) \/ MarkChange(q)
       \/ \E q \in Path : Observe(q) /\ UNCHANGED <<rows, batch, handled>>
  <2>1. \A s \in Source : s \in Path
    BY DEF Path
  <2>2. Unbound \in Path
    BY DEF Path
  <2> QED BY <2>1, <2>2
     DEF ChangesNext, MonitorStep, PassStep, AllMarked, LoadDirectories, Walk, StatArchives,
     AllCompared, EndPass, CompareSource, WorkerScan, Enter, BeginScan, RetryDue, Edit, OwnerScan, ScanStep,
     ScanRead, ScanVerify, ScanChanged, RecordUnreadable, ScanCommit, ScanRefused, OwnerHangsUp,
     ConfirmRebind, AddUnbound, SwitchMonitor, Start, pass, monitor, durable
<1> QED BY <1>3, <1>4, <1>5, <1>6, <1>7, <1>8, <1>9, <1>10, <1>11, <1>12

\* The rows of a pass are handled before it goes on.
LEMMA BatchHandledStep ==
  ASSUME ChangesTypeOK, BatchHandled, ChangesNext
  PROVE  BatchHandled'
<1> USE DEF BatchHandled
<1>1. CASE AllMarked
  BY <1>1 DEF AllMarked
<1>2. CASE StartPass \/ CompleteChanges \/ EndPass \/ Crash
  BY <1>2 DEF StartPass, CompleteChanges, EndPass, Crash
<1>3. CASE LoadDirectories \/ Walk \/ StatArchives \/ AllCompared \/ DiscoveryFails
  BY <1>3 DEF LoadDirectories, Walk, StatArchives, AllCompared, DiscoveryFails, BreaksOff
<1>4. ASSUME NEW p \in Path, MarkChange(p) PROVE BatchHandled'
  BY <1>4 DEF MarkChange
<1>5. CASE UNCHANGED <<step, batch, handled>>
  BY <1>5
<1>6. \/ UNCHANGED <<step, batch, handled>>
      \/ AllMarked \/ StartPass \/ CompleteChanges \/ EndPass \/ Crash
      \/ LoadDirectories \/ Walk \/ StatArchives \/ AllCompared \/ DiscoveryFails
      \/ \E p \in Path : MarkChange(p)
  BY DEF ChangesNext, MonitorStep, WatcherFailed, Refresh, Flush, PassStep, CompareSource,
     WorkerScan, Enter, BeginScan, RetryDue, Edit, OwnerScan, ScanStep, ScanRead, ScanVerify, ScanChanged,
     RecordUnreadable, ScanCommit, ScanRefused, OwnerHangsUp, ConfirmRebind, AddUnbound,
     SwitchMonitor, Start, pass
<1> QED BY <1>1, <1>2, <1>3, <1>4, <1>5, <1>6

\* The steps of scans, and those that mark sources.
ScanMoves(t) ==
  \/ WorkerScan(t) \/ OwnerScan(t) \/ Enter(t, Worker) \/ Enter(t, Owner) \/ BeginScan(t)
  \/ ScanRead(t) \/ ScanVerify(t) \/ ScanChanged(t)
  \/ RecordUnreadable(t) \/ ScanRefused(t) \/ ScanCommit(t) \/ OwnerHangsUp(t)
  \/ ConfirmRebind(t)
MarkStep == (\E p \in Path : MarkChange(p)) \/ (\E t \in Source : CompareSource(t))

LEMMA SourceSteps ==
  ASSUME ChangesNext
  PROVE  \/ \E t \in Source : Edit(t) \/ ScanMoves(t)
         \/ MarkStep \/ Crash
         \/ UNCHANGED <<content, sources, scan, misled>>
BY DEF ChangesNext, MonitorStep, WatcherFailed, Refresh, Flush, PassStep, StartPass, AllMarked,
   LoadDirectories, Walk, StatArchives, AllCompared, CompleteChanges, EndPass, DiscoveryFails,
   BreaksOff,
   RetryDue, ScanStep, AddUnbound, SwitchMonitor, Start, ScanMoves, MarkStep, disk, history

\* A step of the scan of one source leaves all others alone.
LEMMA OthersScans ==
  ASSUME ChangesTypeOK, NEW t \in Source, ScanMoves(t), NEW s \in Source, s # t
  PROVE  /\ content'[s] = content[s] /\ reconcile'[s] = reconcile[s] /\ known'[s] = known[s]
         /\ revision'[s] = revision[s] /\ scanner'[s] = scanner[s] /\ phase'[s] = phase[s]
         /\ read'[s] = read[s] /\ expected'[s] = expected[s] /\ given'[s] = given[s]
         /\ s \in misled' <=> s \in misled
<1> USE DEF ChangesTypeOK, DiskTypes, SourceTypes, ScanTypes, disk, sources, scan, history, End,
            Abort
<1>1. CASE WorkerScan(t) \/ OwnerScan(t)
  BY <1>1 DEF WorkerScan, OwnerScan, LookUp
<1>2. CASE Enter(t, Worker) \/ Enter(t, Owner) \/ BeginScan(t)
  BY <1>2 DEF Enter, BeginScan
<1>3. CASE ScanRead(t) \/ ScanVerify(t)
  BY <1>3 DEF ScanRead, ScanVerify
<1>4. CASE ScanChanged(t)
  BY <1>4 DEF ScanChanged
<1>5. CASE RecordUnreadable(t) \/ ScanRefused(t)
  BY <1>5 DEF RecordUnreadable, ScanRefused
<1>6. CASE ScanCommit(t)
  BY <1>6 DEF ScanCommit
<1>7. CASE OwnerHangsUp(t)
  BY <1>7 DEF OwnerHangsUp
<1>8. CASE ConfirmRebind(t)
  BY <1>8 DEF ConfirmRebind
<1> QED BY <1>1, <1>2, <1>3, <1>4, <1>5, <1>6, <1>7, <1>8 DEF ScanMoves

LEMMA ScanShowsStep ==
  ASSUME ChangesTypeOK, ScanShows, ChangesNext
  PROVE  ScanShows'
<1> USE DEF Shows, Committable
<1> SUFFICES ASSUME NEW s \in Source PROVE Shows(s)'
  BY DEF ScanShows
<1> DEFINE Goal == Shows(s)'
<1>1. /\ expected[s] \in Nat /\ revision[s] \in Nat /\ Shows(s)
      /\ Worker # Idle /\ Owner # Idle /\ Worker # Owner
  BY ChangesAssumption DEF ScanShows, ChangesTypeOK, SourceTypes, ScanTypes
<1>2. ASSUME NEW t \in Source, ScanMoves(t), t # s PROVE Goal
  BY <1>1, <1>2, OthersScans
<1>3. CASE ScanMoves(s)
  <2> USE <1>1 DEF ChangesTypeOK, SourceTypes, ScanTypes, Caller, sources, scan
  <2>1. CASE WorkerScan(s) \/ OwnerScan(s)
    <3>1. /\ UNCHANGED <<scanner, phase, read, expected, revision, reconcile>>
          /\ \E who \in Caller : given' = [given EXCEPT ![s][who] = "here"]
      BY <2>1 DEF WorkerScan, OwnerScan, LookUp
    <3> QED BY <3>1
  <2>2. ASSUME NEW who \in Caller, Enter(s, who) PROVE Goal
    <3>1. CASE scanner[s] = Idle
      BY <2>2, <3>1 DEF Enter
    <3>2. CASE scanner[s] # Idle
      BY <2>2, <3>2 DEF Enter
    <3> QED BY <3>1, <3>2
  <2>3. CASE BeginScan(s)
    BY <2>3 DEF BeginScan
  <2>4. CASE ScanRead(s) \/ ScanVerify(s)
    BY <2>4 DEF ScanRead, ScanVerify
  <2>5. CASE ScanChanged(s)
    BY <2>5 DEF ScanChanged, Abort
  <2>6. CASE RecordUnreadable(s) \/ ScanRefused(s)
    BY <2>6 DEF RecordUnreadable, ScanRefused, End
  <2>7. CASE ScanCommit(s) \/ OwnerHangsUp(s)
    BY <2>7 DEF ScanCommit, OwnerHangsUp, End
  <2>8. CASE ConfirmRebind(s)
    BY <2>8 DEF ConfirmRebind
  <2> QED BY <1>3, <2>1, <2>2, <2>3, <2>4, <2>5, <2>6, <2>7, <2>8 DEF ScanMoves
<1>4. ASSUME NEW p \in Path, MarkChange(p) PROVE Goal
  <2>1. reconcile[s] = "SCANNING" => reconcile'[s] = "SCANNING"
    BY <1>4 DEF MarkChange, Marked
  <2> QED BY <1>1, <1>4, <2>1 DEF MarkChange, scan
<1>5. ASSUME NEW t \in Source, CompareSource(t) PROVE Goal
  <2>1. reconcile[s] = "SCANNING" => reconcile'[s] = "SCANNING"
    BY <1>5 DEF CompareSource, Current, ChangesTypeOK, SourceTypes
  <2> QED BY <1>1, <1>5, <2>1 DEF CompareSource, scan
<1>6. CASE Crash
  BY <1>1, <1>6 DEF Crash, NoCaller, sources
<1>7. ASSUME NEW t \in Source, Edit(t) PROVE Goal
  BY <1>1, <1>7 DEF Edit, sources, scan
<1>8. CASE UNCHANGED <<content, sources, scan, misled>>
  BY <1>1, <1>8 DEF sources, scan
<1> QED BY <1>2, <1>3, <1>4, <1>5, <1>6, <1>7, <1>8, SourceSteps DEF MarkStep

\* A source falls behind by a change on disk only.
LEMMA BehindFrame ==
  ASSUME ChangesTypeOK, ScanShows, ChangesNext, NEW s \in Source, Behind(s)', ~Edit(s)
  PROVE  Behind(s)
<1> USE DEF ChangesTypeOK, DiskTypes, SourceTypes, ScanTypes
<1>1. expected[s] \in Nat /\ revision[s] \in Nat /\ Shows(s)
  BY DEF ScanShows
<1>2. ASSUME NEW t \in Source, ScanMoves(t), t # s PROVE Behind(s)
  BY <1>2, OthersScans DEF Behind, Committable, Misleading
<1>3. CASE ScanMoves(s)
  <2> USE <1>1 DEF Behind, Committable, Misleading, Shows, Caller, End, Abort, disk, sources, scan,
                   history
  <2>1. CASE WorkerScan(s) \/ OwnerScan(s)
    <3>1. /\ UNCHANGED <<scanner, phase, read, expected, sources, content, misled>>
          /\ \E who \in Caller :
               given[s][who] = "none" /\ given' = [given EXCEPT ![s][who] = "here"]
      BY <2>1 DEF WorkerScan, OwnerScan, LookUp
    <3> QED BY <3>1
  <2>2. ASSUME NEW who \in Caller, Enter(s, who) PROVE Behind(s)
    <3>1. CASE scanner[s] = Idle
      BY <2>2, <3>1 DEF Enter
    <3>2. CASE scanner[s] # Idle
      BY <2>2, <3>2 DEF Enter
    <3> QED BY <3>1, <3>2
  <2>3. CASE BeginScan(s)
    BY <2>3 DEF BeginScan
  <2>4. CASE ScanRead(s)
    <3>1. read'[s] # content[s] => given[s][scanner[s]] \in {"old", "since"}
      BY <2>4 DEF ScanRead, Astray
    <3>2. /\ UNCHANGED <<given, scanner, expected, sources, content, misled>>
          /\ scanner[s] \in Caller
      BY <2>4 DEF ScanRead
    <3> QED BY <3>1, <3>2
  <2>5. CASE ScanVerify(s)
    BY <2>5 DEF ScanVerify
  <2>6. CASE ScanChanged(s)
    BY <2>6 DEF ScanChanged
  <2>7. CASE RecordUnreadable(s) \/ ScanRefused(s)
    BY <2>7 DEF RecordUnreadable, ScanRefused
  <2>8. CASE ScanCommit(s)
    BY <2>8 DEF ScanCommit
  <2>9. CASE OwnerHangsUp(s)
    BY <2>9 DEF OwnerHangsUp
  <2>10. CASE ConfirmRebind(s)
    BY <2>10 DEF ConfirmRebind
  <2> QED BY <1>3, <2>1, <2>2, <2>3, <2>4, <2>5, <2>6, <2>7, <2>8, <2>9, <2>10 DEF ScanMoves
<1>4. ASSUME NEW p \in Path, MarkChange(p) PROVE Behind(s)
  <2>1. reconcile'[s] = "IN_SYNC" => reconcile[s] = "IN_SYNC"
    BY <1>4 DEF MarkChange, Marked
  <2> QED BY <1>4, <2>1 DEF MarkChange, disk, scan, Behind, Committable, Misleading
<1>5. ASSUME NEW t \in Source, CompareSource(t) PROVE Behind(s)
  <2>1. reconcile'[s] = "IN_SYNC" => reconcile[s] = "IN_SYNC"
    BY <1>5 DEF CompareSource
  <2> QED BY <1>5, <2>1 DEF CompareSource, history, disk, scan, Behind, Committable, Misleading
<1>6. CASE Crash
  BY <1>6, ChangesAssumption DEF Crash, history, disk, sources, Behind, Committable, Misleading
<1>7. ASSUME NEW t \in Source, Edit(t), t # s PROVE Behind(s)
  <2>1. content'[s] = content[s] /\ UNCHANGED <<sources, scan, misled>>
    BY <1>7 DEF Edit, history
  <2> QED BY <2>1 DEF sources, scan, Behind, Committable, Misleading
<1>8. CASE UNCHANGED <<content, sources, scan, misled>>
  BY <1>8 DEF sources, scan, Behind, Committable, Misleading
<1> QED BY <1>2, <1>3, <1>4, <1>5, <1>6, <1>7, <1>8, SourceSteps DEF MarkStep

\* A loss of events is known until the watcher reports it.
LEMMA LostFrame ==
  ASSUME ChangesTypeOK, ChangesNext, watching, watching', lost, ~WatcherFailed
  PROVE  lost'
<1>1. ASSUME Refresh PROVE FALSE
  BY <1>1 DEF Refresh, ChangesTypeOK, MonitorTypes
<1>2. ~Crash
  BY DEF Crash
<1>3. ASSUME NEW p \in Path, Observe(p) PROVE lost'
  BY <1>3 DEF Observe
<1>4. CASE UNCHANGED lost
  BY <1>4
<1>5. UNCHANGED lost \/ Refresh \/ \E p \in Path : Observe(p)
  <2>1. \A s \in Source : s \in Path
    BY DEF Path
  <2>2. Unbound \in Path
    BY DEF Path
  <2> QED BY <1>2, <2>1, <2>2
      DEF ChangesNext, MonitorStep, Flush, PassStep, StartPass,
         AllMarked, LoadDirectories, Walk, StatArchives, AllCompared, CompleteChanges, EndPass,
         MarkChange, CompareSource, WorkerScan, Enter, BeginScan, DiscoveryFails, BreaksOff, RetryDue, Edit,
         OwnerScan,
         ScanStep, ScanRead, ScanVerify, ScanChanged, RecordUnreadable, ScanCommit, ScanRefused,
         OwnerHangsUp, ConfirmRebind, AddUnbound, SwitchMonitor, Start, monitor
<1> QED BY <1>1, <1>3, <1>4, <1>5

\* The watcher is set up by refresh.
LEMMA WatchBegins ==
  ASSUME ChangesNext, ~watching, watching'
  PROVE  Refresh /\ monitored
<1>1. ASSUME NEW p \in Path, Observe(p) PROVE UNCHANGED watching
  BY <1>1 DEF Observe
<1>2. UNCHANGED watching \/ Refresh \/ Crash \/ \E p \in Path : Observe(p)
  <2>1. \A s \in Source : s \in Path
    BY DEF Path
  <2>2. Unbound \in Path
    BY DEF Path
  <2> QED BY <2>1, <2>2
      DEF ChangesNext, MonitorStep, WatcherFailed, Flush, PassStep, StartPass,
         AllMarked, LoadDirectories, Walk, StatArchives, AllCompared, CompleteChanges, EndPass,
         MarkChange, CompareSource, WorkerScan, Enter, BeginScan, DiscoveryFails, BreaksOff, RetryDue, Edit,
         OwnerScan,
         ScanStep, ScanRead, ScanVerify, ScanChanged, RecordUnreadable, ScanCommit, ScanRefused,
         OwnerHangsUp, ConfirmRebind, AddUnbound, SwitchMonitor, Start, monitor
<1>3. ~Crash
  BY DEF Crash
<1>4. Refresh => monitored
  BY DEF Refresh
<1> QED BY <1>1, <1>2, <1>3, <1>4

\* A change that is on its way stays so while its source is behind.
LEMMA ReachedFrame ==
  ASSUME ChangesTypeOK, ScanShows, BatchHandled, ChangesNext, watching, watching',
         NEW s \in Source, Reached(s), Behind(s), Behind(s)'
  PROVE  Reached(s)'
<1>1. s \in Path /\ Root \in Path /\ s # Root
  BY ChangesAssumption DEF Path
<1>2. ASSUME NEW p \in Path, MarkChange(p), p = s \/ p = Root \/ s \in overlooked
      PROVE  Reached(s)'
  <2>1. CASE s \notin Concerned(p)
    <3>1. p # s /\ p # Root
      BY <2>1 DEF Concerned
    <3> QED BY <1>2, <2>1, <3>1 DEF MarkChange, Reached
  <2>2. CASE s \in Concerned(p) /\ reconcile[s] = "SCANNING"
    BY <1>2, <2>2 DEF MarkChange, Reached
  <2>3. CASE s \in Concerned(p) /\ reconcile[s] # "SCANNING"
    <3>1. reconcile'[s] = "NEEDS_RESCAN" /\ UNCHANGED <<disk, revision, scan>>
      BY <1>2, <2>3 DEF MarkChange, Marked
    <3>2. Committable(s) /\ phase[s] \in {"verify", "commit"}
      BY <3>1 DEF Behind, Committable, scan
    <3> QED BY <2>3, <3>2 DEF ScanShows, Shows
  <2> QED BY <2>1, <2>2, <2>3
<1>3. CASE lost
  <2>1. CASE WatcherFailed
    <3>1. pending'[Root] = Now(Root) /\ Handed(Root)' = Handed(Root)
      BY <1>1, <2>1 DEF WatcherFailed, ChangesTypeOK, MonitorTypes, Handed, pass
    <3>2. Now(Root) > Handed(Root)
      BY <1>1, NowIsLater, HandedBounds
    <3> QED BY <3>1, <3>2 DEF Reached, Heard
  <2>2. CASE ~WatcherFailed
    <3>1. lost'
      BY <1>3, <2>2, LostFrame
    <3> QED BY <3>1 DEF Reached
  <2> QED BY <2>1, <2>2
<1>4. ASSUME NEW p \in {s, Root}, Heard(p) PROVE Reached(s)'
  <2>1. CASE MarkChange(p)
    BY <1>1, <1>2, <1>4, <2>1
  <2>2. CASE ~MarkChange(p)
    <3>1. Heard(p)' \/ Heard(Root)'
      BY <1>1, <1>4, <2>2, HeardFrame
    <3> QED BY <3>1 DEF Reached
  <2> QED BY <2>1, <2>2
<1>5. CASE s \in overlooked
  <2>1. CASE \E p \in Path : MarkChange(p)
    BY <1>2, <1>5, <2>1
  <2>2. CASE ~\E p \in Path : MarkChange(p)
    <3>1. overlooked' = overlooked
      BY <2>2 DEF ChangesNext, MonitorStep, WatcherFailed, Refresh, Flush, PassStep, StartPass,
         AllMarked, LoadDirectories, Walk, StatArchives, AllCompared, CompleteChanges, EndPass,
         CompareSource, WorkerScan, Enter, BeginScan, DiscoveryFails, BreaksOff, RetryDue, Edit, OwnerScan,
         ScanStep,
         ScanRead, ScanVerify, ScanChanged, RecordUnreadable, ScanCommit, ScanRefused,
         OwnerHangsUp, ConfirmRebind, AddUnbound, SwitchMonitor, Crash, Start, history
    <3> QED BY <1>5, <3>1 DEF Reached
  <2> QED BY <2>1, <2>2
<1> QED BY <1>3, <1>4, <1>5 DEF Reached

LEMMA BehindStep ==
  ASSUME ChangesTypeOK, ScanShows, BatchHandled, BehindIsReached, ChangesNext
  PROVE  BehindIsReached'
<1> SUFFICES ASSUME watching', NEW s \in Source, Behind(s)' PROVE Reached(s)'
  BY DEF BehindIsReached
<1>1. s \in Path /\ Root \in Path
  BY DEF Path
<1>2. CASE watching
  <2>1. CASE Edit(s)
    <3>1. Observe(s) /\ UNCHANGED <<rows, batch, handled>>
      BY <2>1 DEF Edit, durable, pass
    <3>2. CASE Collect(s)
      BY <1>1, <3>1, <3>2, CollectHeard DEF Reached
    <3>3. CASE lost' = TRUE
      BY <3>3 DEF Reached
    <3> QED BY <1>2, <3>1, <3>2, <3>3 DEF Observe
  <2>2. CASE ~Edit(s)
    <3>1. Behind(s)
      BY <2>2, BehindFrame
    <3>2. Reached(s)
      BY <1>2, <3>1 DEF BehindIsReached
    <3> QED BY <1>2, <3>1, <3>2, ReachedFrame
  <2> QED BY <2>1, <2>2
<1>3. CASE ~watching
  <2>1. Refresh /\ monitored
    BY <1>3, WatchBegins
  <2>2. pending' = [NoPath EXCEPT ![Root] = Now(Root)] /\ UNCHANGED <<batch, handled>>
    BY <2>1 DEF Refresh, pass
  <2>3. pending'[Root] = Now(Root) /\ Handed(Root)' = Handed(Root)
    BY <1>1, <2>2 DEF NoPath, Handed
  <2>4. Now(Root) > Handed(Root)
    BY <1>1, NowIsLater, HandedBounds
  <2> QED BY <2>3, <2>4 DEF Reached, Heard
<1> QED BY <1>2, <1>3

\* ChangesTracked: what differs from its scan has a change on its way to it.
THEOREM ChangesAreTracked == ChangesSpec => []ChangesTracked
<1> DEFINE IInv == ChangesTypeOK /\ ScanShows /\ BatchHandled /\ BehindIsReached
<1>1. ChangesInit => IInv
  <2> SUFFICES ASSUME ChangesInit PROVE IInv
    OBVIOUS
  <2>1. ScanShows /\ BatchHandled
    BY DEF ChangesInit, ScanShows, Shows, NoCaller, BatchHandled, Committable
  <2>2. \A s \in Source : ~Behind(s)
    BY DEF ChangesInit, Behind, Committable
  <2> QED BY <2>1, <2>2, ChangesInitTypes DEF BehindIsReached
<1>2. IInv /\ [ChangesNext]_vars => IInv'
  <2> SUFFICES ASSUME IInv, [ChangesNext]_vars PROVE IInv'
    OBVIOUS
  <2>1. CASE ChangesNext
    BY <2>1, ChangesTypesStep, ScanShowsStep, BatchHandledStep, BehindStep
  <2>2. CASE UNCHANGED vars
    <3> USE <2>2 DEF vars, disk, sources, durable, monitor, pass, scan, history
    <3>1. ScanShows' /\ BatchHandled'
      BY DEF ScanShows, Shows, BatchHandled, Committable
    <3>2. BehindIsReached'
      BY DEF BehindIsReached, Behind, Committable, Misleading, Reached, Heard, Handed
    <3> QED BY <3>1, <3>2, ChangesTypesStep
  <2> QED BY <2>1, <2>2
<1>3. IInv => ChangesTracked
  <2> SUFFICES ASSUME IInv, watching, NEW s \in Source, reconcile[s] = "IN_SYNC",
                      known[s] # content[s], s \notin overlooked \cup misled
      PROVE  Announced(s)
    BY DEF ChangesTracked
  <2>1. lost \/ Heard(s) \/ Heard(Root)
    BY DEF BehindIsReached, Behind, Reached
  <2>2. \A p \in Path : Heard(p) => Unhandled(p)
    <3> SUFFICES ASSUME NEW p \in Path, Heard(p) PROVE Unhandled(p)
      OBVIOUS
    <3> QED BY HandedBounds DEF Heard, Unhandled, Handed
  <2> QED BY <2>1, <2>2 DEF Announced, Path
<1> QED BY <1>1, <1>2, <1>3, PTL DEF ChangesSpec

===============================================================================

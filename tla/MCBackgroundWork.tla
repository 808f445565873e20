--------------------------- MODULE MCBackgroundWork ---------------------------
(* The processing queue on small instances: with commands and faults, and     *)
(* together with the automation of libraries, undisturbed, where a scan       *)
(* enqueues the jobs of its gallery and the automation waits until the queue  *)
(* has settled them.                                                          *)
EXTENDS MCProcessingQueue, LibraryAutomation

CONSTANTS l1, l2
VARIABLE together
all == <<vars, autoVars, together>>

MCLibraryOf == [g \in GalleryId |-> IF g = 1 THEN l1 ELSE l2]

AtRest == synced = {} /\ \A g \in GalleryId : stateOf[g] = "none"
WorkInit ==
  /\ together \in BOOLEAN
  /\ Init /\ AutomationInit
  /\ ~together => AtRest

(* galleryMediaPreparationPending *)
Pending == {g \in GalleryId : \E j \in Job : GalleryOf[ItemOf[j]] = g /\ status[j] \in Active}
QueueGoesOn == (\E w \in Worker : Step(w) \/ Beat(w)) \/ Tick
TogetherNext ==
  /\ \/ AutomationNext /\ preparing' = preparing /\ UNCHANGED vars
     \/ Scan /\ \E j \in BaseJobs(current) : Enqueue(j, ScanPriority)
     \/ QueueGoesOn /\ UNCHANGED <<stateOf, synced, blocked, run, retried, worker, runHistory,
                                   accidents>>
  /\ preparing' = Pending'
  /\ commands' + faults' + accidents' = 0

(* No job is gated here, and the switch stays as it is. *)
WorkNext ==
  \/ ~together /\ Next /\ UNCHANGED <<switch, autoVars, together>>
  \/ together /\ TogetherNext /\ UNCHANGED together

(* Nothing is assumed of MediaPrepared: the queue sees to it. *)
WorkFairness ==
  /\ Fairness
  /\ WF_autoVars(ProcessBatch) /\ \A r \in Run : WF_autoVars(LeaseExpires(r))
WorkSpec == WorkInit /\ [][WorkNext]_all /\ WorkFairness
===============================================================================

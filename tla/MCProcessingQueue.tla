-------------------------- MODULE MCProcessingQueue --------------------------
(* Small instances of ProcessingQueue: a probe with its follow-up on one item, *)
(* and a job of an item of another gallery that the runtime switch may gate.   *)
EXTENDS ProcessingQueue, TLC

MCItemOf == [j \in Job |-> IF j <= 2 THEN "video" ELSE "image"]
MCGalleryOf == [i \in {ItemOf[j] : j \in Job} |-> IF i = "video" THEN 1 ELSE 3]
MCFollowUp == [j \in Job |-> IF j = 1 /\ 2 \in Job THEN 2 ELSE Nobody]
MCBackoff == [n \in 0..MaxAttempts |-> n]
WorkerSymmetry == Permutations(Worker)
==============================================================================

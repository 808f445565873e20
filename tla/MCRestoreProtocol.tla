-------------------------- MODULE MCRestoreProtocol --------------------------
(* Small instances of RestoreProtocol. *)
EXTENDS RestoreProtocol

CONSTANTS scheduler, automation

\* A turn of the scheduler takes the mutex for the backup and for the scan.
MCSections == [l \in Loop |-> IF l = scheduler THEN 2 ELSE 1]

(* A server that does not crash. *)
LiveNext ==
  \/ Owner \/ Begin \/ Restore \/ HangUp
  \/ \E l \in Loop : Iterate(l) \/ Work(l) \/ Lock(l)
LiveSpec == Init /\ [][LiveNext]_vars
==============================================================================

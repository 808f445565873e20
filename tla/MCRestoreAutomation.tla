------------------------- MODULE MCRestoreAutomation -------------------------
(* Small instances of RestoreProtocol, for the command line tool, and of      *)
(* LibraryAutomation, for the server.  While a restoration is at work no loop *)
(* of the automation is, so a behaviour has work for one of them, and the     *)
(* other one is at rest.                                                      *)
EXTENDS MCRestoreProtocol, LibraryAutomation

CONSTANTS l1, l2
VARIABLE busy
all == <<vars, autoVars, busy>>

MCLibraryOf == [g \in GalleryId |-> IF g = 2 THEN l2 ELSE l1]

AtRest == synced = {} /\ \A g \in GalleryId : stateOf[g] = "none"
WorkInit ==
  /\ busy \in {"restoration", "automation"}
  /\ Init /\ AutomationInit
  /\ busy = "restoration" => AtRest
WorkNext ==
  \/ busy = "restoration" /\ Next /\ UNCHANGED <<autoVars, busy>>
  \/ busy = "automation" /\ AutomationNext /\ UNCHANGED <<vars, busy>>

(* The fairness of FairSpec and of AutomationFairSpec. *)
WorkFairness ==
  /\ WF_vars(Restore) /\ SF_vars(Begin)
  /\ \A l \in Loop : WF_vars(Work(l)) /\ SF_vars(Lock(l))
  /\ AutomationFairness
WorkSpec == WorkInit /\ [][WorkNext]_all /\ WorkFairness
==============================================================================

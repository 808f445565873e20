-------------------------- MODULE MCRestoreManifest --------------------------
(* Small instances of RestoreProtocol, for a server that does not crash, and  *)
(* of ManifestSync.  A call whose database is exchanged ends there (Restored) *)
(* and no call begins during a restoration, so a behaviour has work for one   *)
(* of them, and the other one is at rest.                                     *)
EXTENDS MCRestoreProtocol, ManifestSync, TLC

VARIABLE busy
both == <<vars, syncVars, busy>>

AtRest == sync = NoRow /\ sidecar = Missing /\ \E v \in Value : content = [f \in Field |-> v]
WorkInit ==
  /\ busy \in {"restoration", "manifest"}
  /\ Init /\ SyncInit
  /\ busy = "restoration" => AtRest
WorkNext ==
  \/ busy = "restoration" /\ LiveNext /\ UNCHANGED <<syncVars, busy>>
  \/ busy = "manifest" /\ SyncNext /\ UNCHANGED <<vars, busy>>
WorkSpec == WorkInit /\ [][WorkNext]_both

\* Neither the values nor the callers differ in anything.
Alike == Permutations(Value) \cup Permutations(Caller)
==============================================================================

---------------------------- MODULE AtomicRestore ----------------------------
(***************************************************************************)
(* What the restoration of a backup promises, whatever renames and copies  *)
(* implement it.  A server has one database and its metadata installed.    *)
(* A restoration that is begun while normal work goes on takes the server  *)
(* out of service, and then either exchanges both in one step, or gives    *)
(* back what was there, with all that was written until the database was   *)
(* closed.  What was exchanged is served once the owner has mapped and     *)
(* resumed it.  Only a restoration that says so has exchanged anything.    *)
(***************************************************************************)
EXTENDS Naturals

CONSTANT Generation   \* of databases and metadata: later ones are greater

VARIABLES
  installed,  \* the generations of the database and of the metadata, and the
              \* writes to the database since it is there
  service,    \* "serving", "draining": entered maintenance, writes may still come,
              \* "closed": no database is open, "unmapped" or "mapped": exchanged
  outcome     \* of the last restoration, or "pending"

vars == <<installed, service, outcome>>

Init ==
  /\ installed \in [database : Generation, metadata : Generation, writes : {0}]
  /\ service = "serving" /\ outcome = "none"

Moves(from, to) == service = from /\ service' = to

\* A restoration begins, or is refused.
Begin ==
  /\ outcome # "pending" /\ service = "serving"
  /\ outcome' = "pending"
  /\ UNCHANGED <<installed, service>>
Refuse ==
  /\ outcome # "pending" /\ outcome' = "refused"
  /\ UNCHANGED <<installed, service>>

Drain == outcome = "pending" /\ Moves("serving", "draining") /\ UNCHANGED <<installed, outcome>>
Close == outcome = "pending" /\ Moves("draining", "closed") /\ UNCHANGED <<installed, outcome>>

\* The commit point: a newer database, with metadata of its own or with what is there.
Exchange ==
  /\ outcome = "pending" /\ Moves("closed", "unmapped")
  /\ \E d \in Generation, m \in Generation :
       /\ d > installed.database /\ m \in {d, installed.metadata}
       /\ installed' = [database |-> d, metadata |-> m, writes |-> 0]
  /\ UNCHANGED outcome
Succeed ==
  /\ outcome = "pending" /\ service = "unmapped"
  /\ outcome' = "restored"
  /\ UNCHANGED <<installed, service>>

\* Nothing was exchanged. A server that is left in maintenance has not been closed.
Fail ==
  /\ outcome = "pending" /\ service \in {"serving", "draining", "closed"}
  /\ outcome' = "failed"
  /\ service' = "serving" \/ (service = "draining" /\ UNCHANGED service)
  /\ UNCHANGED installed

\* The owner, when no restoration is under way.
Map == outcome # "pending" /\ Moves("unmapped", "mapped") /\ UNCHANGED <<installed, outcome>>
Resume == outcome # "pending" /\ Moves("mapped", "serving") /\ UNCHANGED <<installed, outcome>>

\* Requests write until the database is closed.
Write ==
  /\ service \in {"serving", "draining"}
  /\ installed' = [installed EXCEPT !.writes = @ + 1]
  /\ UNCHANGED <<service, outcome>>

Next ==
  \/ Begin \/ Refuse \/ Drain \/ Close \/ Exchange \/ Succeed \/ Fail
  \/ Map \/ Resume \/ Write

Spec == Init /\ [][Next]_vars
==============================================================================

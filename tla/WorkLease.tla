------------------------------ MODULE WorkLease ------------------------------
(***************************************************************************)
(* What a lease queue promises, whatever table and clock implement it.     *)
(* A piece of work is open, is held by at most one worker at a time, and   *)
(* is closed as done or failed only by the worker that holds it at that    *)
(* moment: a worker whose hold was taken away (expiry, crash, cancel) can  *)
(* never close the work any more, even if the work is held again since.    *)
(***************************************************************************)

CONSTANTS Work, Holder, Nobody

VARIABLES state,   \* "absent", "open", "done", "failed" or "cancelled"
          holder   \* the worker that holds an open piece of work, or Nobody

vars == <<state, holder>>

States == {"absent", "open", "done", "failed", "cancelled"}

Init ==
  /\ state = [x \in Work |-> "absent"]
  /\ holder = [x \in Work |-> Nobody]

\* New work, or closed work that its owner opens again.
Open(S) ==
  /\ \A x \in S : state[x] # "open"
  /\ state' = [x \in Work |-> IF x \in S THEN "open" ELSE state[x]]
  /\ UNCHANGED holder

\* Holds are taken away from R and x is given to w, in one step.
Grant(x, w, R) ==
  /\ state[x] = "open" /\ x \in R \cup {y \in Work : holder[y] = Nobody}
  /\ \A y \in Work \ R : holder[y] # w
  /\ holder' = [y \in Work |-> IF y = x THEN w
                               ELSE IF y \in R THEN Nobody ELSE holder[y]]
  /\ UNCHANGED state

\* Holds end without closing the work: a retry later, or a crash.
Revoke(R) ==
  /\ holder' = [y \in Work |-> IF y \in R THEN Nobody ELSE holder[y]]
  /\ UNCHANGED state

\* The only way to "done" or "failed".
Finish(x, result) ==
  /\ state[x] = "open" /\ holder[x] # Nobody
  /\ result \in {"done", "failed"}
  /\ state' = [state EXCEPT ![x] = result]
  /\ holder' = [holder EXCEPT ![x] = Nobody]

\* The owner of the system withdraws work, held or not.
Withdraw(S) ==
  /\ \A x \in S : state[x] = "open"
  /\ state' = [x \in Work |-> IF x \in S THEN "cancelled" ELSE state[x]]
  /\ holder' = [x \in Work |-> IF x \in S THEN Nobody ELSE holder[x]]

Next ==
  \/ \E S \in SUBSET Work : Open(S) \/ Revoke(S) \/ Withdraw(S)
  \/ \E x \in Work, w \in Holder, R \in SUBSET Work : Grant(x, w, R)
  \/ \E x \in Work, result \in {"done", "failed"} : Finish(x, result)

Spec == Init /\ [][Next]_vars
==============================================================================

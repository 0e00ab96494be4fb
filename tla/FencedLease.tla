---------------------------- MODULE FencedLease ----------------------------
(***************************************************************************)
(* What the claim columns of the scheduler promise to the domain tables,   *)
(* without time, rows, locks or workers.  A workflow is held by at most    *)
(* one run; a claimed run may publish only while it is the holder, and a   *)
(* run ends once.  Manual runs are opened and ended outside the fence.     *)
(***************************************************************************)
CONSTANTS Workflows, Runs, None

VARIABLES
  holder,    \* the run that holds each workflow
  state,     \* how far each run is
  claimed,   \* the runs that were created by a claim
  published  \* the runs whose writes the domain tables hold

vars == <<holder, state, claimed, published>>

Init ==
  /\ holder = [w \in Workflows |-> None]
  /\ state = [r \in Runs |-> "absent"]
  /\ claimed = {}
  /\ published = {}

Without(D) == [w \in Workflows |-> IF holder[w] \in D THEN None ELSE holder[w]]

\* A claim may displace a holder, which then can never publish.
Acquire(w, r) ==
  /\ state[r] = "absent"
  /\ state' = [state EXCEPT ![r] = "started"]
  /\ holder' = [holder EXCEPT ![w] = r]
  /\ claimed' = claimed \cup {r}
  /\ UNCHANGED published

OpenManual(r) ==
  /\ state[r] = "absent"
  /\ state' = [state EXCEPT ![r] = "started"]
  /\ UNCHANGED <<holder, claimed, published>>

Publish(r) ==
  /\ state[r] = "started"
  /\ r \in claimed => \E w \in Workflows : holder[w] = r
  /\ state' = [state EXCEPT ![r] = "succeeded"]
  /\ holder' = Without({r})
  /\ published' = published \cup {r}
  /\ UNCHANGED claimed

Fail(D) ==
  /\ \A r \in D : state[r] = "started"
  /\ state' = [r \in Runs |-> IF r \in D THEN "failed" ELSE state[r]]
  /\ holder' = Without(D)
  /\ UNCHANGED <<claimed, published>>

Revoke(W) ==
  /\ holder' = [w \in Workflows |-> IF w \in W THEN None ELSE holder[w]]
  /\ UNCHANGED <<state, claimed, published>>

Next ==
  \/ \E r \in Runs : OpenManual(r) \/ Publish(r)
  \/ \E w \in Workflows, r \in Runs : Acquire(w, r)
  \/ \E D \in SUBSET Runs : Fail(D)
  \/ \E W \in SUBSET Workflows : Revoke(W)

Spec == Init /\ [][Next]_vars
=============================================================================

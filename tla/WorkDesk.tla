------------------------------ MODULE WorkDesk ------------------------------
(***************************************************************************)
(* What the task queue and the review of its results promise, without      *)
(* callers, locks, transactions or labels.  A task ends once, and what it  *)
(* yields becomes known in the step that ends it.  A result is decided for *)
(* good: it is trusted, or refused and perhaps put away later, or put away.*)
(***************************************************************************)
CONSTANTS Tasks, Results, None

VARIABLES
  state,    \* how far each task is
  yields,   \* by task: the result made from it
  stored,   \* the results that exist
  trusted,  \* the results a memory stands for
  refused,  \* the results that were rejected
  archived  \* the results that were put away

desk == <<trusted, refused, archived>>
vars == <<state, yields, stored, desk>>

Init ==
  /\ state = [t \in Tasks |-> "absent"]
  /\ yields = [t \in Tasks |-> None]
  /\ stored = {} /\ trusted = {} /\ refused = {} /\ archived = {}

Undecided == stored \ (trusted \cup refused \cup archived)

Ask(t) ==
  /\ state[t] = "absent"
  /\ state' = [state EXCEPT ![t] = "pending"]
  /\ UNCHANGED <<yields, stored, desk>>

\* A completed task has a new result; a failed one may have left one behind.
End(t, status, r) ==
  /\ state[t] = "pending"
  /\ status \in {"completed", "failed"}
  /\ \/ r \in Results \ stored
     \/ r = None /\ status = "failed"
  /\ state' = [state EXCEPT ![t] = status]
  /\ yields' = [yields EXCEPT ![t] = r]
  /\ stored' = stored \cup ({r} \ {None})
  /\ UNCHANGED desk

\* A result that was made from no task.
Bring(r) ==
  /\ r \notin stored
  /\ stored' = stored \cup {r}
  /\ UNCHANGED <<state, yields, desk>>

Trust(r) ==
  /\ r \in Undecided
  /\ trusted' = trusted \cup {r}
  /\ UNCHANGED <<state, yields, stored, refused, archived>>

Refuse(r) ==
  /\ r \in Undecided
  /\ refused' = refused \cup {r}
  /\ UNCHANGED <<state, yields, stored, trusted, archived>>

PutAway(r) ==
  /\ r \in Undecided \cup refused
  /\ refused' = refused \ {r}
  /\ archived' = archived \cup {r}
  /\ UNCHANGED <<state, yields, stored, trusted>>

Next ==
  \/ \E t \in Tasks :
       Ask(t) \/ \E status \in {"completed", "failed"}, r \in Results \cup {None} :
                   End(t, status, r)
  \/ \E r \in Results : Bring(r) \/ Trust(r) \/ Refuse(r) \/ PutAway(r)

Spec == Init /\ [][Next]_vars
=============================================================================

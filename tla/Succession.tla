----------------------------- MODULE Succession -----------------------------
(***************************************************************************)
(* What the life of the rows of a table promises, without requests,        *)
(* reviews, merge candidates or versions.  A row is added, used and then   *)
(* retired for good; several rows may be retired at once in favour of one  *)
(* heir that is in use from then on, and the line of heirs never returns   *)
(* to a row.  The one exception is a row that is revived: it is on record. *)
(***************************************************************************)
CONSTANTS Rows, Retirements, None

VARIABLES
  state,   \* by row: "absent", "in use", or how it was retired
  heir,    \* by row: the row that stands in its place
  revived  \* rows that were brought back from retirement

vars == <<state, heir, revived>>

Init ==
  /\ state = [r \in Rows |-> "absent"]
  /\ heir = [r \in Rows |-> None]
  /\ revived = {}

\* The line of heirs of x leads to y.
Reaches(x, y) ==
  \A S \in SUBSET Rows :
    x \in S /\ (\A r \in S : heir[r] \in Rows => heir[r] \in S) => y \in S

Add(r) ==
  /\ state[r] = "absent"
  /\ state' = [state EXCEPT ![r] = "in use"]
  /\ UNCHANGED <<heir, revived>>

Retire(r, how) ==
  /\ state[r] = "in use"
  /\ state' = [state EXCEPT ![r] = how]
  /\ UNCHANGED <<heir, revived>>

\* The heir may be a new row.  Only a row that was revived changes its heir.
Succeed(S, h) ==
  /\ S # {} /\ state[h] \in {"absent", "in use"}
  /\ \A r \in S : /\ state[r] = "in use" /\ ~Reaches(h, r)
                  /\ heir[r] = None \/ r \in revived
  /\ state' = [r \in Rows |-> IF r \in S THEN "superseded"
                              ELSE IF r = h THEN "in use" ELSE state[r]]
  /\ heir' = [r \in Rows |-> IF r \in S THEN h ELSE heir[r]]
  /\ UNCHANGED revived

Revive(S) ==
  /\ S # {} /\ \A r \in S : state[r] \in Retirements
  /\ state' = [r \in Rows |-> IF r \in S THEN "in use" ELSE state[r]]
  /\ revived' = revived \cup S
  /\ UNCHANGED heir

\* Every step changes how some row stands.
Next ==
  /\ state' # state
  /\ \/ \E r \in Rows : Add(r) \/ \E how \in Retirements : Retire(r, how)
     \/ \E S \in SUBSET Rows : Revive(S) \/ \E h \in Rows : Succeed(S, h)

Spec == Init /\ [][Next]_vars
=============================================================================

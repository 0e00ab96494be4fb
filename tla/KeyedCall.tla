----------------------------- MODULE KeyedCall -----------------------------
(***************************************************************************)
(* What an idempotency key promises, without requests, leases or locks:    *)
(* one turn is accepted for it, at most one call is made for that turn,    *)
(* and it comes to one outcome, which is a reply only if the call was made *)
(* and the reply was written down in the same step.                        *)
(***************************************************************************)
EXTENDS Naturals

CONSTANTS Keys, Outcomes, None

VARIABLES
  accepted,  \* the keys whose turn is recorded
  calls,     \* calls made for each key
  outcome,   \* what each key has come to
  replied    \* the keys whose reply is recorded

vars == <<accepted, calls, outcome, replied>>

Init ==
  /\ accepted = {} /\ replied = {}
  /\ calls = [k \in Keys |-> 0]
  /\ outcome = [k \in Keys |-> None]

Accept(k) ==
  /\ k \notin accepted
  /\ accepted' = accepted \cup {k}
  /\ UNCHANGED <<calls, outcome, replied>>

\* The call may still be made after the key was given up.
Call(k) ==
  /\ k \in accepted /\ calls[k] = 0
  /\ calls' = [calls EXCEPT ![k] = 1]
  /\ UNCHANGED <<accepted, outcome, replied>>

Conclude(k) ==
  /\ k \in accepted /\ calls[k] = 1 /\ outcome[k] = None
  /\ outcome' = [outcome EXCEPT ![k] = "reply"]
  /\ replied' = replied \cup {k}
  /\ UNCHANGED <<accepted, calls>>

GiveUp(k, o) ==
  /\ k \in accepted /\ outcome[k] = None /\ o # "reply"
  /\ outcome' = [outcome EXCEPT ![k] = o]
  /\ UNCHANGED <<accepted, calls, replied>>

Next ==
  \E k \in Keys : \/ Accept(k) \/ Call(k) \/ Conclude(k)
                  \/ \E o \in Outcomes : GiveUp(k, o)

Spec == Init /\ [][Next]_vars
=============================================================================

----------------------------- MODULE ReviewBook -----------------------------
(***************************************************************************)
(* What generated project updates and their review promise, without        *)
(* generators, events or rows.  For equal inputs there is one memo and one *)
(* proposal, until both are forgotten; a proposal is accepted or rejected  *)
(* once, and only an acceptance changes the project's text.  Open          *)
(* proposals are not forgotten.                                            *)
(***************************************************************************)
CONSTANTS Inputs, Memos, Proposals, Texts, None

VARIABLES
  text,      \* the project's state
  memos,     \* the memos that were ever written
  noted,     \* by inputs: the memo written for them
  filed,     \* by inputs: the proposal made for them
  open,      \* proposals that wait for a decision
  accepted,
  rejected

decisions == <<accepted, rejected>>
vars == <<text, memos, noted, filed, open, decisions>>

Listed == open \cup accepted \cup rejected

Init ==
  /\ text \in Texts
  /\ memos = {} /\ open = {} /\ accepted = {} /\ rejected = {}
  /\ noted = [i \in Inputs |-> None]
  /\ filed = [i \in Inputs |-> None]

Note(i) ==
  \E m \in Memos \ memos :
    /\ noted[i] = None
    /\ noted' = [noted EXCEPT ![i] = m]
    /\ memos' = memos \cup {m}

File(i) ==
  \E p \in Proposals \ Listed :
    /\ filed[i] = None
    /\ filed' = [filed EXCEPT ![i] = p]
    /\ open' = open \cup {p}

\* What is there for the inputs already is used again.
Suggest(i) ==
  /\ Note(i) \/ UNCHANGED <<memos, noted>>
  /\ File(i) \/ UNCHANGED <<open, filed>>
  /\ UNCHANGED <<text, decisions>>

Accept(p, t) ==
  /\ p \in open
  /\ text' = t
  /\ open' = open \ {p}
  /\ accepted' = accepted \cup {p}
  /\ UNCHANGED <<memos, noted, filed, rejected>>

Reject(p) ==
  /\ p \in open
  /\ open' = open \ {p}
  /\ rejected' = rejected \cup {p}
  /\ UNCHANGED <<text, memos, noted, filed, accepted>>

\* A memo and decided proposals give up their inputs; the decisions stand.
Forget(m, P) ==
  /\ m \in memos /\ P \subseteq accepted \cup rejected
  /\ noted' = [i \in Inputs |-> IF noted[i] = m THEN None ELSE noted[i]]
  /\ filed' = [i \in Inputs |-> IF filed[i] \in P THEN None ELSE filed[i]]
  /\ UNCHANGED <<text, memos, open, decisions>>

Next ==
  \/ \E i \in Inputs : Suggest(i)
  \/ \E p \in Proposals : Reject(p) \/ \E t \in Texts : Accept(p, t)
  \/ \E m \in Memos, P \in SUBSET Proposals : Forget(m, P)

Spec == Init /\ [][Next]_vars
=============================================================================

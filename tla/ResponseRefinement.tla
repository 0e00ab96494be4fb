------------------------- MODULE ResponseRefinement -------------------------
(***************************************************************************)
(* ResponseJobs implements KeyedCall: a key is accepted when its row knows *)
(* its turn, and replied when the thread holds its reply.                  *)
(***************************************************************************)
EXTENDS ResponseJobs

Accepted == {k \in Keys : job[k].turn # 0}
Concluded == [k \in Keys |-> job[k].answer]
Replied  == {k \in Keys : \E i \in DOMAIN thread : thread[i] = Reply(k)}

Keyed == INSTANCE KeyedCall
           WITH accepted <- Accepted, outcome <- Concluded, replied <- Replied

\* Whatever requests, retries, deaths and leases do, a key behaves like one
\* call: accepted once, called at most once, concluded once.
ImplementsKeyedCall == Keyed!Spec
=============================================================================

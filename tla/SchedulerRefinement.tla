------------------------ MODULE SchedulerRefinement ------------------------
(***************************************************************************)
(* SchedulerClaims implements FencedLease: the holder of a workflow is its *)
(* claim token, and a run is claimed when it was created for a slot.       *)
(***************************************************************************)
EXTENDS SchedulerClaims

Holder  == [w \in Workflows |-> wf[w].token]
State   == [r \in Runs |-> run[r].status]
Claimed == {r \in Runs : run[r].slot # NoTime}

Fenced == INSTANCE FencedLease
            WITH holder <- Holder, state <- State, claimed <- Claimed

\* Every step of the durable scheduler is a step of the fenced lease or leaves
\* its state alone: a superseded run never publishes and a run ends once.
ImplementsFencedLease == Fenced!Spec
=============================================================================

------------------------ MODULE TaskQueueRefinement ------------------------
(***************************************************************************)
(* TaskQueue implements WorkDesk: what a task yields is the artifact that  *)
(* was made from it, and the decisions are the artifacts' statuses.        *)
(***************************************************************************)
EXTENDS TaskQueue

State == [t \in Tasks |-> task[t].status]

OneOf(S) == IF S = {} THEN None ELSE CHOOSE a \in S : TRUE

Yields == [t \in Tasks |-> OneOf(MadeFrom(t))]

WithStatus(s) == {a \in Artifacts : artifact[a].status = s}
Stored == Artifacts \ WithStatus("absent")

Desk == INSTANCE WorkDesk
          WITH Results <- Artifacts, state <- State, yields <- Yields,
               stored <- Stored, trusted <- memory,
               refused <- WithStatus("rejected"), archived <- WithStatus("archived")

\* Whoever races for a task or a review, and whatever transaction is lost: a task
\* ends once, with the artifact its row names or with none, and the memory of a
\* promotion, a rejection and an archiving stand.
ImplementsWorkDesk == Desk!Spec
=============================================================================

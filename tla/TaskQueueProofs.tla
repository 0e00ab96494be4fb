--------------------------- MODULE TaskQueueProofs ---------------------------
(***************************************************************************)
(* Theorems about TaskQueue: a task yields one result, a trusted memory    *)
(* stands for a promoted artifact, and decisions of a review stand.  What  *)
(* makes the first inductive is RunsOK: the row lock gives a task to one   *)
(* transaction, and only that transaction ends it.                         *)
(***************************************************************************)
EXTENDS TaskQueueRefinement, FiniteSetTheorems, TLAPS

TaskRow     == [status : {"absent", "pending", "completed", "failed"},
                label : Labels \cup {None}, born : 0..Cardinality(Tasks),
                direct : BOOLEAN, output : Artifacts \cup {None}]
ArtifactRow == [status : Statuses \cup {"absent"}, task : Tasks \cup {None}]
ReviewRow   == [artifact : Artifacts \cup {None}, seen : Statuses]

LEMMA StatusNames ==
  /\ Statuses = {"draft", "needs_review", "reviewed", "accepted", "rejected",
                 "superseded", "archived", "promoted_to_memory"}
  /\ Asked \subseteq Statuses
  BY DEF Statuses, Transitions, Asked

\* What the table allows.
LEMMA TransitionsAre ==
  ASSUME NEW s \in Statuses, NEW t \in Transitions[s]
  PROVE  /\ t \in Asked
         /\ s # "archived" /\ s # "promoted_to_memory"
         /\ s = "rejected" => t = "archived"
<1>1. s \in {"draft", "needs_review", "reviewed", "accepted", "rejected",
             "superseded", "archived", "promoted_to_memory"}
  BY StatusNames
<1> QED  BY <1>1 DEF Transitions, Asked

LEMMA TypeParts ==
  ASSUME TypeOK
  PROVE  /\ task \in [Tasks -> TaskRow] /\ artifact \in [Artifacts -> ArtifactRow]
         /\ memory \in SUBSET Artifacts /\ run \in [Workers -> Tasks \cup {None}]
         /\ review \in [Reviewers -> ReviewRow] /\ rollbacks \in 0..MaxRollbacks
  BY DEF TypeOK, TaskRow, ArtifactRow, ReviewRow

LEMMA TypeFromParts ==
  ASSUME (task \in [Tasks -> TaskRow])', (artifact \in [Artifacts -> ArtifactRow])',
         (memory \in SUBSET Artifacts)', (run \in [Workers -> Tasks \cup {None}])',
         (review \in [Reviewers -> ReviewRow])', (rollbacks \in 0..MaxRollbacks)'
  PROVE  TypeOK'
  BY DEF TypeOK, TaskRow, ArtifactRow, ReviewRow

LEMMA InitIsInductive == Init => IndInv
<1> SUFFICES ASSUME Init PROVE IndInv
  OBVIOUS
<1>1. Cardinality(Tasks) \in Nat
  BY TasksAreFinite, FS_CardinalityType
<1>2. TypeOK
  BY <1>1, StatusNames, RollbackBound
  DEF Init, TypeOK, NoTask, NoArtifact, NoReview
<1>3. RunsOK /\ AbsentArtifacts
  BY DEF Init, RunsOK, AbsentArtifacts, NoArtifact
<1>4. OneResult
  BY NullIsNoValue DEF Init, OneResult, MadeFrom, NoTask, NoArtifact
<1>5. TrustedIffPromoted
  BY DEF Init, TrustedIffPromoted, NoArtifact
<1> QED  BY <1>2, <1>3, <1>4, <1>5 DEF IndInv

-----------------------------------------------------------------------------
(* The queue.                                                              *)

\* Of the tasks that exist there are fewer than tasks, before one is queued.
LEMMA BornInRange ==
  ASSUME NEW t \in Tasks, task[t].status = "absent"
  PROVE  1 + Cardinality({u \in Tasks : task[u].status # "absent"})
           \in 0..Cardinality(Tasks)
<1> DEFINE S == {u \in Tasks : task[u].status # "absent"}
<1>1. S \in SUBSET Tasks /\ t \notin S
  OBVIOUS
<1>2. IsFiniteSet(S) /\ Cardinality(S) <= Cardinality(Tasks)
  BY <1>1, TasksAreFinite, FS_Subset
<1>3. Cardinality(S) # Cardinality(Tasks)
  BY <1>1, TasksAreFinite, FS_Subset
<1>4. Cardinality(S) \in Nat /\ Cardinality(Tasks) \in Nat
  BY <1>2, TasksAreFinite, FS_CardinalityType
<1> HIDE DEF S
<1>5. 1 + Cardinality(S) \in 0..Cardinality(Tasks)
  BY <1>2, <1>3, <1>4
<1> QED  BY <1>5 DEF S

LEMMA EnqueueStep ==
  ASSUME IndInv, NEW t \in Tasks, NEW l \in Labels, NEW direct \in BOOLEAN,
         Enqueue(t, l, direct)
  PROVE  IndInv'
<1> DEFINE born == 1 + Cardinality({u \in Tasks : task[u].status # "absent"})
           row == [status |-> "pending", label |-> l, direct |-> direct,
                   output |-> None, born |-> born]
<1>t. TypeOK
  BY DEF IndInv
<1>1. /\ task[t].status = "absent" /\ task' = [task EXCEPT ![t] = row]
      /\ UNCHANGED <<artifact, memory, run, review, rollbacks>>
  BY DEF Enqueue
<1>2. born \in 0..Cardinality(Tasks)
  BY <1>1, BornInRange
<1> HIDE DEF born
<1>3. row \in TaskRow /\ row.status = "pending"
  BY <1>2 DEF TaskRow
<1> HIDE DEF row
<1>4. /\ task' \in [Tasks -> TaskRow] /\ task'[t].status = "pending"
      /\ \A u \in Tasks \ {t} : task'[u] = task[u]
  BY <1>t, <1>1, <1>3, TypeParts
<1>5. TypeOK'
  BY <1>t, <1>1, <1>4, TypeParts, TypeFromParts
<1>6. RunsOK'
  BY <1>t, <1>1, <1>4, TypeParts DEF IndInv, RunsOK
<1>7. OneResult'
  BY <1>1, <1>4 DEF IndInv, OneResult, MadeFrom
<1>8. AbsentArtifacts' /\ TrustedIffPromoted'
  BY <1>1 DEF IndInv, AbsentArtifacts, TrustedIffPromoted
<1> QED  BY <1>5, <1>6, <1>7, <1>8 DEF IndInv

LEMMA ClaimStep ==
  ASSUME IndInv, NEW w \in Workers, Claim(w)
  PROVE  IndInv'
<1>t. TypeOK
  BY DEF IndInv
<1>1. PICK t \in Tasks : Oldest(w, t) /\ run' = [run EXCEPT ![w] = t]
  BY DEF Claim
<1>2. task[t].status = "pending" /\ \A v \in Workers : run[v] # t
  BY <1>1 DEF Oldest, Claimable, Free
<1>3. UNCHANGED <<task, artifact, memory, review, rollbacks>>
  BY DEF Claim
<1>4. TypeOK'
  BY <1>t, <1>1, <1>3, TypeParts, TypeFromParts
<1>5. RunsOK'
  BY <1>t, <1>1, <1>2, <1>3, TypeParts DEF IndInv, RunsOK
<1>6. OneResult' /\ AbsentArtifacts' /\ TrustedIffPromoted'
  BY <1>3 DEF IndInv, OneResult, MadeFrom, AbsentArtifacts, TrustedIffPromoted
<1> QED  BY <1>4, <1>5, <1>6 DEF IndInv

\* A transaction that commits ends its task, with an artifact or without.
LEMMA CommitStep ==
  ASSUME IndInv, NEW w \in Workers, run[w] # None,
         NEW status \in {"completed", "failed"}, NEW output \in Artifacts \cup {None},
         task' = Ended(run[w], status, output),
         run' = [run EXCEPT ![w] = None],
         UNCHANGED <<memory, review, rollbacks>>,
         \/ UNCHANGED artifact /\ status = "failed"
         \/ \E a \in Artifacts :
              /\ artifact[a].status = "absent" /\ artifact' = Made(a, run[w])
              /\ status = "completed" => output = a
  PROVE  IndInv'
<1>0. PICK t \in Tasks : t = run[w]
  BY TypeParts DEF IndInv
<1>t. TypeOK /\ t = run[w] /\ task[t].status = "pending"
  BY <1>0 DEF IndInv, RunsOK
<1>1. /\ task' \in [Tasks -> TaskRow]
      /\ task'[t].status = status /\ task'[t].output = output
      /\ \A u \in Tasks \ {t} : task'[u] = task[u]
  <2> DEFINE ended == [task[t] EXCEPT !.status = status, !.output = output]
  <2>0. task \in [Tasks -> TaskRow] /\ task[t] \in TaskRow
    BY <1>t, TypeParts
  <2>1. /\ ended \in TaskRow /\ ended.status = status /\ ended.output = output
    BY <2>0 DEF TaskRow
  <2>2. task' = [task EXCEPT ![t] = ended]
    BY <1>t, <2>0 DEF Ended, TaskRow
  <2> HIDE DEF ended
  <2> QED  BY <2>1, <2>2, TypeParts, <1>t
<1>2. /\ artifact' \in [Artifacts -> ArtifactRow]
      /\ \/ UNCHANGED artifact /\ status = "failed"
         \/ \E a \in Artifacts :
              /\ artifact[a].status = "absent"
              /\ artifact'[a].task = t
              /\ artifact'[a].status \in {"draft", "reviewed"}
              /\ \A b \in Artifacts \ {a} : artifact'[b] = artifact[b]
              /\ status = "completed" => output = a
  BY <1>t, TypeParts, StatusNames DEF Made, ArtifactRow
<1>3. run' \in [Workers -> Tasks \cup {None}] /\ \A v \in Workers \ {w} : run'[v] = run[v]
  BY <1>t, TypeParts
<1>4. TypeOK'
  BY <1>t, <1>1, <1>2, <1>3, TypeParts, TypeFromParts
<1>5. RunsOK'
  <2>1. run'[w] = None
    BY <1>t, TypeParts
  <2>2. \A v \in Workers \ {w} : run[v] # t
    BY <1>t DEF IndInv, RunsOK
  <2> QED  BY <1>t, <1>1, <1>3, <2>1, <2>2, TypeParts DEF IndInv, RunsOK
<1>6. OneResult'
  <2>1. MadeFrom(t) = {}
    BY <1>t DEF IndInv, OneResult
  <2>2. \A u \in Tasks \ {t} : MadeFrom(u)' = MadeFrom(u)
    BY <1>2, NullIsNoValue DEF IndInv, AbsentArtifacts, MadeFrom
  <2>3. \/ MadeFrom(t)' = {} /\ status = "failed"
        \/ \E a \in Artifacts : MadeFrom(t)' = {a} /\ (status = "completed" => output = a)
    BY <1>2, <2>1 DEF MadeFrom
  <2> QED  BY <1>1, <2>2, <2>3 DEF IndInv, OneResult
<1>7. AbsentArtifacts' /\ TrustedIffPromoted'
  BY <1>2 DEF IndInv, AbsentArtifacts, TrustedIffPromoted
<1> QED  BY <1>4, <1>5, <1>6, <1>7 DEF IndInv

LEMMA CompleteStep ==
  ASSUME IndInv, NEW w \in Workers, Complete(w)
  PROVE  IndInv'
  BY CommitStep DEF Complete

LEMMA FailStep ==
  ASSUME IndInv, NEW w \in Workers, Fail(w)
  PROVE  IndInv'
<1>1. CASE task' = Ended(run[w], "failed", None) /\ UNCHANGED artifact
  BY <1>1, CommitStep DEF Fail
<1>2. CASE \E a \in Artifacts, named \in BOOLEAN :
             /\ artifact[a].status = "absent"
             /\ artifact' = Made(a, run[w])
             /\ task' = Ended(run[w], "failed", IF named THEN a ELSE None)
  <2>1. PICK a \in Artifacts, named \in BOOLEAN :
             /\ artifact[a].status = "absent"
             /\ artifact' = Made(a, run[w])
             /\ task' = Ended(run[w], "failed", IF named THEN a ELSE None)
    BY <1>2
  <2> QED  BY <2>1, CommitStep DEF Fail
<1> QED  BY <1>1, <1>2 DEF Fail

LEMMA RollbackStep ==
  ASSUME IndInv, NEW w \in Workers, Rollback(w)
  PROVE  IndInv'
<1>t. TypeOK
  BY DEF IndInv
<1>1. /\ run' = [run EXCEPT ![w] = None] /\ rollbacks' \in 0..MaxRollbacks
      /\ UNCHANGED <<task, artifact, memory, review>>
  BY <1>t, RollbackBound DEF Rollback, TypeOK
<1>2. TypeOK'
  BY <1>t, <1>1, TypeParts, TypeFromParts
<1>3. RunsOK'
  BY <1>t, <1>1, TypeParts DEF IndInv, RunsOK
<1>4. OneResult' /\ AbsentArtifacts' /\ TrustedIffPromoted'
  BY <1>1 DEF IndInv, OneResult, MadeFrom, AbsentArtifacts, TrustedIffPromoted
<1> QED  BY <1>2, <1>3, <1>4 DEF IndInv

-----------------------------------------------------------------------------
(* Artifacts.                                                              *)

LEMMA PublishStep ==
  ASSUME IndInv, NEW a \in Artifacts, Publish(a)
  PROVE  IndInv'
<1>t. TypeOK
  BY DEF IndInv
<1>1. /\ artifact[a].status = "absent"
      /\ UNCHANGED <<task, memory, run, review, rollbacks>>
  BY DEF Publish
<1>2. /\ artifact' \in [Artifacts -> ArtifactRow]
      /\ artifact'[a].status = "needs_review" /\ artifact'[a].task = None
      /\ \A b \in Artifacts \ {a} : artifact'[b] = artifact[b]
  BY <1>t, TypeParts, StatusNames DEF Publish, ArtifactRow
<1>3. TypeOK'
  BY <1>t, <1>1, <1>2, TypeParts, TypeFromParts
<1>4. RunsOK'
  BY <1>1 DEF IndInv, RunsOK
<1>5. \A t \in Tasks : MadeFrom(t)' = MadeFrom(t)
  BY <1>1, <1>2, NullIsNoValue DEF IndInv, AbsentArtifacts, MadeFrom
<1>6. OneResult'
  BY <1>1, <1>5 DEF IndInv, OneResult
<1>7. AbsentArtifacts' /\ TrustedIffPromoted'
  BY <1>1, <1>2 DEF IndInv, AbsentArtifacts, TrustedIffPromoted
<1> QED  BY <1>3, <1>4, <1>6, <1>7 DEF IndInv

\* Steps of a review that write nothing.
LEMMA LookStep ==
  ASSUME IndInv, NEW r \in Reviewers, NEW v \in ReviewRow,
         review' = [review EXCEPT ![r] = v],
         UNCHANGED <<task, artifact, memory, run, rollbacks>>
  PROVE  IndInv'
<1>1. TypeOK'
  BY TypeParts, TypeFromParts DEF IndInv
<1>2. RunsOK' /\ AbsentArtifacts' /\ OneResult' /\ TrustedIffPromoted'
  BY DEF IndInv, RunsOK, AbsentArtifacts, OneResult, MadeFrom, TrustedIffPromoted
<1> QED  BY <1>1, <1>2 DEF IndInv

LEMMA BeginReviewStep ==
  ASSUME IndInv, NEW r \in Reviewers, NEW a \in Artifacts, BeginReview(r, a)
  PROVE  IndInv'
<1>1. artifact[a].status \in Statuses
  BY TypeParts DEF IndInv, BeginReview, ArtifactRow
<1>2. [artifact |-> a, seen |-> artifact[a].status] \in ReviewRow
  BY <1>1 DEF ReviewRow
<1> QED  BY <1>2, LookStep DEF BeginReview

LEMMA NoReviewTyped == NoReview \in ReviewRow
  BY StatusNames DEF NoReview, ReviewRow

LEMMA EndReviewStep ==
  ASSUME IndInv, NEW r \in Reviewers, EndReview(r)
  PROVE  IndInv'
  BY NoReviewTyped, LookStep DEF EndReview

\* A decision changes one status, to one the table allows from the status the row
\* has.
LEMMA DecideMoves ==
  ASSUME TypeOK, NEW r \in Reviewers, NEW asked \in Asked, Decide(r, asked)
  PROVE  \E a \in Artifacts :
           /\ artifact[a].status \in Statuses
           /\ asked \in Transitions[artifact[a].status]
           /\ artifact' \in [Artifacts -> ArtifactRow]
           /\ artifact'[a].status = asked /\ artifact'[a].task = artifact[a].task
           /\ \A b \in Artifacts \ {a} : artifact'[b] = artifact[b]
           /\ memory' = IF asked = "promoted_to_memory" THEN memory \cup {a}
                        ELSE memory
<1> DEFINE a == review[r].artifact
<1>1. review[r] \in ReviewRow
  BY TypeParts
<1>2. a \in Artifacts /\ review[r].seen \in Statuses
  BY <1>1 DEF Decide, ReviewRow
<1>3. artifact[a].status = review[r].seen /\ asked \in Transitions[review[r].seen]
  BY DEF Decide
<1>4. artifact' = [artifact EXCEPT ![a].status = asked]
  BY DEF Decide
<1>5. /\ artifact' \in [Artifacts -> ArtifactRow]
      /\ artifact'[a].status = asked /\ artifact'[a].task = artifact[a].task
      /\ \A b \in Artifacts \ {a} : artifact'[b] = artifact[b]
  BY <1>2, <1>4, TypeParts, StatusNames DEF ArtifactRow
<1>6. memory' = IF asked = "promoted_to_memory" THEN memory \cup {a} ELSE memory
  BY DEF Decide
<1> HIDE DEF a
<1> QED  BY <1>2, <1>3, <1>5, <1>6

LEMMA DecideStep ==
  ASSUME IndInv, NEW r \in Reviewers, NEW asked \in Asked, Decide(r, asked)
  PROVE  IndInv'
<1>t. TypeOK
  BY DEF IndInv
<1>1. PICK a \in Artifacts :
        /\ artifact[a].status \in Statuses
        /\ asked \in Transitions[artifact[a].status]
        /\ artifact' \in [Artifacts -> ArtifactRow]
        /\ artifact'[a].status = asked /\ artifact'[a].task = artifact[a].task
        /\ \A b \in Artifacts \ {a} : artifact'[b] = artifact[b]
        /\ memory' = IF asked = "promoted_to_memory" THEN memory \cup {a} ELSE memory
  BY <1>t, DecideMoves
<1>2. /\ review' = [review EXCEPT ![r] = NoReview]
      /\ UNCHANGED <<task, run, rollbacks>>
  BY DEF Decide
<1>3. /\ artifact[a].status # "promoted_to_memory"
      /\ artifact[a].status # "absent" /\ asked # "absent"
  BY <1>1, TransitionsAre, StatusNames DEF Asked
<1>4. TypeOK'
  BY <1>t, <1>1, <1>2, NoReviewTyped, TypeParts, TypeFromParts
<1>5. RunsOK' /\ AbsentArtifacts'
  BY <1>1, <1>2, <1>3 DEF IndInv, RunsOK, AbsentArtifacts
<1>6. \A t \in Tasks : MadeFrom(t)' = MadeFrom(t)
  BY <1>1 DEF MadeFrom
<1>7. OneResult'
  BY <1>2, <1>6 DEF IndInv, OneResult
<1>8. TrustedIffPromoted'
  BY <1>1, <1>3 DEF IndInv, TrustedIffPromoted
<1> QED  BY <1>4, <1>5, <1>7, <1>8 DEF IndInv

-----------------------------------------------------------------------------
(* The theorems.                                                           *)

LEMMA InvariantStep == IndInv /\ [Next]_vars => IndInv'
<1> SUFFICES ASSUME IndInv, [Next]_vars PROVE IndInv'
  OBVIOUS
<1>1. CASE UNCHANGED vars
  BY <1>1 DEF vars, IndInv, TypeOK, RunsOK, AbsentArtifacts, OneResult, MadeFrom,
              TrustedIffPromoted
<1>2. CASE Next
  BY <1>2, EnqueueStep, ClaimStep, CompleteStep, FailStep, RollbackStep, PublishStep,
     BeginReviewStep, DecideStep, EndReviewStep DEF Next
<1> QED  BY <1>1, <1>2

\* Rows, transactions and memories fit together, for any number of tasks, callers,
\* labels, artifacts and reviewers.
THEOREM QueueInvariant == Spec => []IndInv
  BY InitIsInductive, InvariantStep, PTL DEF Spec

\* A task yields one result, whoever races for it and whatever is lost.
THEOREM TasksYieldOneResult == Spec => []OneResult
<1>1. IndInv => OneResult
  BY DEF IndInv
<1> QED  BY <1>1, QueueInvariant, PTL

\* A trusted memory stands for a promoted artifact and for no other.
THEOREM MemoriesArePromoted == Spec => []TrustedIffPromoted
<1>1. IndInv => TrustedIffPromoted
  BY DEF IndInv
<1> QED  BY <1>1, QueueInvariant, PTL

LEMMA MadeKeeps ==
  ASSUME TypeOK, NEW a \in Artifacts, NEW t, artifact[a].status = "absent",
         artifact' = Made(a, t)
  PROVE  DecisionStep
<1>1. \A b \in Artifacts \ {a} : artifact'[b] = artifact[b]
  BY TypeParts DEF Made
<1> QED  BY <1>1 DEF DecisionStep

LEMMA DecisionHolds == IndInv /\ [Next]_vars => [DecisionStep]_vars
<1> SUFFICES ASSUME IndInv, Next PROVE DecisionStep
  BY DEF vars
<1>t. TypeOK
  BY DEF IndInv
<1>1. CASE UNCHANGED artifact
  BY <1>1 DEF DecisionStep
<1>2. ASSUME NEW w \in Workers, Complete(w) \/ Fail(w)
      PROVE  DecisionStep
  BY <1>t, <1>1, <1>2, MadeKeeps DEF Complete, Fail
<1>3. ASSUME NEW a \in Artifacts, Publish(a)
      PROVE  DecisionStep
  <2>1. artifact[a].status = "absent" /\ \A b \in Artifacts \ {a} : artifact'[b] = artifact[b]
    BY <1>t, <1>3, TypeParts DEF Publish
  <2> QED  BY <2>1 DEF DecisionStep
<1>4. ASSUME NEW r \in Reviewers, NEW asked \in Asked, Decide(r, asked)
      PROVE  DecisionStep
  BY <1>t, <1>4, DecideMoves, TransitionsAre DEF DecisionStep
<1>5. UNCHANGED artifact \/ ~(\/ \E t \in Tasks, l \in Labels, direct \in BOOLEAN :
                                  Enqueue(t, l, direct)
                              \/ \E w \in Workers : Claim(w) \/ Rollback(w)
                              \/ \E r \in Reviewers, a \in Artifacts : BeginReview(r, a)
                              \/ \E r \in Reviewers : EndReview(r))
  BY DEF Enqueue, Claim, Rollback, BeginReview, EndReview
<1> QED  BY <1>1, <1>2, <1>3, <1>4, <1>5 DEF Next

\* No decision of a review is undone by another review.
THEOREM ReviewDecisionsStand == Spec => DecisionsStand
<1>1. IndInv /\ [Next]_vars => [DecisionStep]_vars
  BY DecisionHolds
<1> QED  BY <1>1, QueueInvariant, PTL DEF Spec, DecisionsStand

-----------------------------------------------------------------------------
(* The refinement of WorkDesk.                                             *)

LEMMA OneOfSingleton == OneOf({}) = None /\ \A a : OneOf({a}) = a
  BY DEF OneOf

\* How the sets of the mapping follow one artifact.
LEMMA OneArtifact ==
  ASSUME NEW a \in Artifacts, \A b \in Artifacts \ {a} : artifact'[b] = artifact[b]
  PROVE  \A s : WithStatus(s)' = IF artifact'[a].status = s THEN WithStatus(s) \cup {a}
                                 ELSE WithStatus(s) \ {a}
  BY DEF WithStatus

LEMMA DeskInit == Init => Desk!Init
<1> SUFFICES ASSUME Init PROVE Desk!Init
  OBVIOUS
<1>1. State = [t \in Tasks |-> "absent"] /\ memory = {}
  BY DEF Init, State, NoTask
<1>2. \A a \in Artifacts : artifact[a].status = "absent" /\ artifact[a].task = None
  BY DEF Init, NoArtifact
<1>3. Yields = [t \in Tasks |-> None]
  <2>1. \A t \in Tasks : MadeFrom(t) = {}
    BY <1>2, NullIsNoValue DEF MadeFrom
  <2> QED  BY <2>1, OneOfSingleton DEF Yields
<1>4. WithStatus("rejected") = {} /\ WithStatus("archived") = {} /\ Stored = {}
  BY <1>2 DEF WithStatus, Stored
<1> QED  BY <1>1, <1>3, <1>4 DEF Desk!Init

\* The desk sees no locks, no labels and no readings.
LEMMA DeskKept ==
  ASSUME UNCHANGED <<task, artifact, memory>>
  PROVE  UNCHANGED Desk!vars
  BY DEF State, Yields, MadeFrom, Stored, WithStatus, Desk!vars, Desk!desk

LEMMA DeskAsks ==
  ASSUME IndInv, NEW t \in Tasks, NEW l \in Labels, NEW direct \in BOOLEAN,
         Enqueue(t, l, direct)
  PROVE  Desk!Ask(t)
<1>1. /\ task[t].status = "absent" /\ task'[t].status = "pending"
      /\ \A u \in Tasks \ {t} : task'[u] = task[u]
      /\ UNCHANGED <<artifact, memory>>
  BY TypeParts DEF IndInv, Enqueue
<1>2. State' = [State EXCEPT ![t] = "pending"] /\ State[t] = "absent"
  BY <1>1 DEF State
<1>3. Yields' = Yields /\ Stored' = Stored /\ \A s : WithStatus(s)' = WithStatus(s)
  BY <1>1 DEF Yields, MadeFrom, Stored, WithStatus
<1> QED  BY <1>1, <1>2, <1>3 DEF Desk!Ask, Desk!desk

\* A call that commits ends its task on the desk, with what it made: nothing
\* was made from the task before, and only this call holds it.
LEMMA DeskEnds ==
  ASSUME IndInv, NEW t \in Tasks, NEW status \in {"completed", "failed"}, NEW output,
         task[t].status = "pending", task' = Ended(t, status, output),
         UNCHANGED memory,
         \/ UNCHANGED artifact /\ status = "failed"
         \/ \E a \in Artifacts :
              artifact[a].status = "absent" /\ artifact' = Made(a, t)
  PROVE  \E r \in Artifacts \cup {None} : Desk!End(t, status, r)
<1>0. task \in [Tasks -> TaskRow] /\ artifact \in [Artifacts -> ArtifactRow]
  BY TypeParts DEF IndInv
<1>1. task'[t].status = status /\ \A u \in Tasks \ {t} : task'[u] = task[u]
  BY <1>0 DEF Ended, TaskRow
<1>2. State' = [State EXCEPT ![t] = status] /\ State[t] = "pending"
  BY <1>1 DEF State
<1>3. MadeFrom(t) = {}
  BY DEF IndInv, OneResult
<1>4. CASE UNCHANGED artifact /\ status = "failed"
  <2>1. Yields' = [Yields EXCEPT ![t] = None]
    <3>1. MadeFrom(t)' = {} /\ \A u \in Tasks \ {t} : MadeFrom(u)' = MadeFrom(u)
      BY <1>3, <1>4 DEF MadeFrom
    <3> QED  BY <3>1, OneOfSingleton DEF Yields
  <2>2. Stored' = Stored \cup ({None} \ {None}) /\ \A s : WithStatus(s)' = WithStatus(s)
    BY <1>4 DEF Stored, WithStatus
  <2>3. Desk!End(t, status, None)
    BY <1>2, <1>4, <2>1, <2>2 DEF Desk!End, Desk!desk
  <2> QED  BY <2>3
<1>5. ASSUME NEW a \in Artifacts, artifact[a].status = "absent", artifact' = Made(a, t)
      PROVE  Desk!End(t, status, a)
  <2>1. /\ artifact'[a].task = t /\ artifact'[a].status \in {"draft", "reviewed"}
        /\ \A b \in Artifacts \ {a} : artifact'[b] = artifact[b]
    BY <1>0, <1>5 DEF Made
  <2>2. MadeFrom(t)' = {a} /\ \A u \in Tasks \ {t} : MadeFrom(u)' = MadeFrom(u)
    BY <1>3, <1>5, <2>1, NullIsNoValue DEF MadeFrom, IndInv, AbsentArtifacts
  <2>3. Yields' = [Yields EXCEPT ![t] = a]
    BY <2>2, OneOfSingleton DEF Yields
  <2>4. a \in Artifacts \ Stored /\ Stored' = Stored \cup ({a} \ {None})
    BY <1>5, <2>1, OneArtifact, NullIsNoValue DEF Stored, WithStatus
  <2>5. /\ WithStatus("rejected")' = WithStatus("rejected")
        /\ WithStatus("archived")' = WithStatus("archived")
    BY <1>5, <2>1 DEF WithStatus
  <2> QED  BY <1>2, <2>3, <2>4, <2>5 DEF Desk!End, Desk!desk
<1> QED  BY <1>4, <1>5

LEMMA DeskBrings ==
  ASSUME IndInv, NEW a \in Artifacts, Publish(a)
  PROVE  Desk!Bring(a)
<1>1. /\ artifact[a].status = "absent" /\ artifact'[a].status = "needs_review"
      /\ artifact'[a].task = None /\ \A b \in Artifacts \ {a} : artifact'[b] = artifact[b]
      /\ UNCHANGED <<task, memory>>
  BY TypeParts DEF IndInv, Publish
<1>2. \A t \in Tasks : MadeFrom(t)' = MadeFrom(t)
  BY <1>1, NullIsNoValue DEF MadeFrom, IndInv, AbsentArtifacts
<1>3. State' = State /\ Yields' = Yields
  BY <1>1, <1>2 DEF State, Yields
<1>4. /\ a \notin Stored /\ Stored' = Stored \cup {a}
      /\ WithStatus("rejected")' = WithStatus("rejected")
      /\ WithStatus("archived")' = WithStatus("archived")
  BY <1>1 DEF Stored, WithStatus
<1> QED  BY <1>1, <1>3, <1>4 DEF Desk!Bring, Desk!desk

\* What the table allows is what the desk allows.
LEMMA DeskDecides ==
  ASSUME IndInv, NEW r \in Reviewers, NEW asked \in Asked, Decide(r, asked)
  PROVE  \/ UNCHANGED Desk!vars
         \/ \E a \in Artifacts : Desk!Trust(a) \/ Desk!Refuse(a) \/ Desk!PutAway(a)
<1>1. PICK a \in Artifacts :
        /\ artifact[a].status \in Statuses
        /\ asked \in Transitions[artifact[a].status]
        /\ artifact' \in [Artifacts -> ArtifactRow]
        /\ artifact'[a].status = asked /\ artifact'[a].task = artifact[a].task
        /\ \A b \in Artifacts \ {a} : artifact'[b] = artifact[b]
        /\ memory' = IF asked = "promoted_to_memory" THEN memory \cup {a} ELSE memory
  BY DecideMoves DEF IndInv
<1>2. /\ artifact[a].status \notin {"absent", "archived", "promoted_to_memory"}
      /\ artifact[a].status = "rejected" => asked = "archived"
  BY <1>1, TransitionsAre, StatusNames
<1>3. \A s : WithStatus(s)' = IF asked = s THEN WithStatus(s) \cup {a}
                              ELSE WithStatus(s) \ {a}
  BY <1>1, OneArtifact
<1>4. /\ a \in Stored /\ a \notin memory /\ a \notin WithStatus("archived")
      /\ artifact[a].status # "rejected" => a \notin WithStatus("rejected")
      /\ artifact[a].status = "rejected" => a \in WithStatus("rejected")
  BY <1>2 DEF Stored, WithStatus, IndInv, TrustedIffPromoted
<1>5. State' = State /\ Yields' = Yields
  <2>1. \A t \in Tasks : MadeFrom(t)' = MadeFrom(t)
    BY <1>1 DEF MadeFrom
  <2>2. UNCHANGED task
    BY DEF Decide
  <2> QED  BY <2>1, <2>2 DEF State, Yields
<1>6. asked # "absent" /\ Stored' = Stored
  <2>1. asked # "absent"
    BY DEF Asked
  <2> QED  BY <2>1, <1>2, <1>3 DEF Stored, WithStatus
<1>7. asked \in {"reviewed", "accepted", "rejected", "archived", "promoted_to_memory"}
  BY DEF Asked
<1>8. CASE asked \in {"reviewed", "accepted"}
  <2>1. /\ memory' = memory /\ WithStatus("rejected")' = WithStatus("rejected")
        /\ WithStatus("archived")' = WithStatus("archived")
    BY <1>1, <1>2, <1>3, <1>4, <1>8
  <2> QED  BY <2>1, <1>5, <1>6 DEF Desk!vars, Desk!desk
<1>9. CASE asked = "rejected"
  <2>1. /\ memory' = memory /\ WithStatus("rejected")' = WithStatus("rejected") \cup {a}
        /\ WithStatus("archived")' = WithStatus("archived")
        /\ a \notin WithStatus("rejected")
    BY <1>1, <1>2, <1>3, <1>4, <1>9
  <2>2. Desk!Refuse(a)
    BY <2>1, <1>4, <1>5, <1>6 DEF Desk!Refuse, Desk!Undecided
  <2> QED  BY <2>2
<1>10. CASE asked = "archived"
  <2>1. /\ memory' = memory /\ WithStatus("rejected")' = WithStatus("rejected") \ {a}
        /\ WithStatus("archived")' = WithStatus("archived") \cup {a}
    BY <1>1, <1>3, <1>10
  <2>2. Desk!PutAway(a)
    BY <2>1, <1>4, <1>5, <1>6 DEF Desk!PutAway, Desk!Undecided
  <2> QED  BY <2>2
<1>11. CASE asked = "promoted_to_memory"
  <2>1. /\ memory' = memory \cup {a} /\ WithStatus("rejected")' = WithStatus("rejected")
        /\ WithStatus("archived")' = WithStatus("archived")
        /\ a \notin WithStatus("rejected")
    BY <1>1, <1>2, <1>3, <1>4, <1>11
  <2>2. Desk!Trust(a)
    BY <2>1, <1>4, <1>5, <1>6 DEF Desk!Trust, Desk!Undecided
  <2> QED  BY <2>2
<1> QED  BY <1>7, <1>8, <1>9, <1>10, <1>11

LEMMA DeskStep == IndInv /\ [Next]_vars => [Desk!Next]_(Desk!vars)
<1> SUFFICES ASSUME IndInv, [Next]_vars PROVE Desk!Next \/ UNCHANGED Desk!vars
  OBVIOUS
<1>1. CASE UNCHANGED vars
  BY <1>1, DeskKept DEF vars
<1>2. ASSUME NEW t \in Tasks, NEW l \in Labels, NEW direct \in BOOLEAN,
             Enqueue(t, l, direct)
      PROVE  Desk!Next
  BY <1>2, DeskAsks DEF Desk!Next
<1>3. ASSUME NEW w \in Workers, Complete(w) \/ Fail(w)
      PROVE  Desk!Next
  <2>1. PICK t \in Tasks : t = run[w]
    BY <1>3, TypeParts DEF IndInv, Complete, Fail
  <2>2. task[t].status = "pending"
    BY <1>3, <2>1 DEF IndInv, RunsOK, Complete, Fail
  <2>3. PICK status \in {"completed", "failed"}, output \in Artifacts \cup {None} :
          /\ task' = Ended(t, status, output) /\ UNCHANGED memory
          /\ \/ UNCHANGED artifact /\ status = "failed"
             \/ \E a \in Artifacts :
                  artifact[a].status = "absent" /\ artifact' = Made(a, t)
    <3>1. CASE Complete(w)
      BY <2>1, <3>1 DEF Complete
    <3>2. CASE Fail(w)
      BY <2>1, <3>2 DEF Fail
    <3> QED  BY <1>3, <3>1, <3>2
  <2>4. \E r \in Artifacts \cup {None} : Desk!End(t, status, r)
    BY <2>2, <2>3, DeskEnds
  <2> QED  BY <2>4 DEF Desk!Next
<1>4. ASSUME NEW a \in Artifacts, Publish(a)
      PROVE  Desk!Next
  BY <1>4, DeskBrings DEF Desk!Next
<1>5. ASSUME NEW r \in Reviewers, NEW asked \in Asked, Decide(r, asked)
      PROVE  Desk!Next \/ UNCHANGED Desk!vars
  BY <1>5, DeskDecides DEF Desk!Next
<1>6. ASSUME NEW w \in Workers, Claim(w) \/ Rollback(w)
      PROVE  UNCHANGED Desk!vars
  BY <1>6, DeskKept DEF Claim, Rollback
<1>7. ASSUME NEW r \in Reviewers, EndReview(r) \/ \E a \in Artifacts : BeginReview(r, a)
      PROVE  UNCHANGED Desk!vars
  BY <1>7, DeskKept DEF EndReview, BeginReview
<1> QED  BY <1>1, <1>2, <1>3, <1>4, <1>5, <1>6, <1>7 DEF Next

\* The queue and the review are a work desk: whatever callers and reviewers do, a
\* task ends once, with one result or none, and decisions are final.
THEOREM QueueImplementsWorkDesk == Spec => ImplementsWorkDesk
  BY DeskInit, DeskStep, QueueInvariant, PTL DEF Spec, ImplementsWorkDesk, Desk!Spec
=============================================================================

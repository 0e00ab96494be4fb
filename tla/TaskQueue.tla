------------------------------ MODULE TaskQueue ------------------------------
(***************************************************************************)
(* Queued tasks, the artifacts made from them and the review of artifacts. *)
(*                                                                         *)
(* A call of process-next is one transaction: it locks the oldest pending  *)
(* task its caller may read, makes the artifact and marks the task ended.  *)
(* Other sessions see the task pending and locked until it commits, and a  *)
(* transaction that is rolled back (the process dies, the database refuses *)
(* a statement) leaves it pending.  run[w] is the open transaction of      *)
(* caller w.  A review is a transaction too, which holds the lock of the   *)
(* artifact's row from its read to its commit; review[r] is what reviewer  *)
(* r read.                                                                 *)
(*                                                                         *)
(* No caller of the service gives a task a scheduled time, so a task is    *)
(* due as soon as it is queued.                                            *)
(*                                                                         *)
(* Definitions whose name starts with Bad are faulty variants, used by no  *)
(* specification.                                                          *)
(***************************************************************************)
EXTENDS Naturals, FiniteSets

CONSTANTS
  Tasks,         \* task ids
  Artifacts,     \* artifact ids
  Labels,        \* (domain, sensitivity) pairs
  Workers,       \* callers of process-next
  Reads,         \* by worker: the labels its key may read
  Reviewers,     \* callers of the artifact review
  None,          \* SQL NULL
  MaxRollbacks   \* bound on the process-next transactions that are lost

ASSUME ReadsAreLabels == Reads \in [Workers -> SUBSET Labels]
ASSUME RollbackBound == MaxRollbacks \in Nat
ASSUME TasksAreFinite == IsFiniteSet(Tasks)
ASSUME NullIsNoValue == None \notin Tasks \cup Artifacts

\* What a review request asks for, named by the status it leads to.
Asked == {"reviewed", "accepted", "rejected", "archived",
          "promoted_to_memory"}

\* The review lifecycle: ARTIFACT_STATUS_TRANSITIONS.
BadTransitions ==
  [draft |-> Asked, needs_review |-> Asked, reviewed |-> Asked \ {"reviewed"},
   accepted |-> Asked \ {"reviewed", "accepted"}, rejected |-> {"archived"},
   superseded |-> {"archived"}, archived |-> {},
   promoted_to_memory |-> {"archived"}]
BadReopening ==
  [draft |-> Asked, needs_review |-> Asked, reviewed |-> Asked \ {"reviewed"},
   accepted |-> Asked \ {"reviewed", "accepted"},
   rejected |-> {"accepted", "archived"}, superseded |-> {"archived"},
   archived |-> {}, promoted_to_memory |-> {}]
Transitions ==
  [draft |-> Asked, needs_review |-> Asked, reviewed |-> Asked \ {"reviewed"},
   accepted |-> Asked \ {"reviewed", "accepted"}, rejected |-> {"archived"},
   superseded |-> {"archived"}, archived |-> {}, promoted_to_memory |-> {}]
Statuses == DOMAIN Transitions

VARIABLES
  task,      \* the task_queue table
  artifact,  \* the generated_artifacts table
  memory,    \* artifacts an active memory was made from
  run,       \* by worker: the task locked by its open transaction
  review,    \* by reviewer: the artifact locked, and what was read of it
  rollbacks

vars == <<task, artifact, memory, run, review, rollbacks>>

NoTask     == [status |-> "absent", label |-> None, born |-> 0, direct |-> FALSE,
               output |-> None]
NoArtifact == [status |-> "absent", task |-> None]
NoReview   == [artifact |-> None, seen |-> "draft"]

Init ==
  /\ task = [t \in Tasks |-> NoTask]
  /\ artifact = [a \in Artifacts |-> NoArtifact]
  /\ memory = {}
  /\ run = [w \in Workers |-> None]
  /\ review = [r \in Reviewers |-> NoReview]
  /\ rollbacks = 0

\* enqueue_task; direct: the write policy is auto_generate_artifact.
Enqueue(t, l, direct) ==
  /\ task[t].status = "absent"
  /\ task' = [task EXCEPT ![t] =
       [status |-> "pending", label |-> l, direct |-> direct, output |-> None,
        born |-> 1 + Cardinality({u \in Tasks : task[u].status # "absent"})]]
  /\ UNCHANGED <<artifact, memory, run, review, rollbacks>>

\* FOR UPDATE SKIP LOCKED: pending, and locked by nobody.
BadFree(t) == task[t].status = "pending"
Free(t) == /\ task[t].status = "pending"
           /\ \A w \in Workers : run[w] # t

\* The label limit is part of the query that picks the task.
Claimable(w, t) == Free(t) /\ task[t].label \in Reads[w]

BadOldest(w, t) ==
  /\ Claimable(w, t)
  /\ \A u \in Tasks : Free(u) => task[t].born <= task[u].born
Oldest(w, t) ==
  /\ Claimable(w, t)
  /\ \A u \in Tasks : Claimable(w, u) => task[t].born <= task[u].born

Claim(w) ==
  /\ run[w] = None
  /\ \E t \in Tasks : Oldest(w, t) /\ run' = [run EXCEPT ![w] = t]
  /\ UNCHANGED <<task, artifact, memory, review, rollbacks>>

Ended(t, status, a) == [task EXCEPT ![t].status = status, ![t].output = a]

Made(a, t) ==
  [artifact EXCEPT ![a] =
     [status |-> IF task[t].direct THEN "reviewed" ELSE "draft", task |-> t]]

\* The artifact is stored, the task completed with it, and all is committed.
Complete(w) ==
  /\ run[w] # None
  /\ \E a \in Artifacts :
       /\ artifact[a].status = "absent"
       /\ artifact' = Made(a, run[w])
       /\ task' = Ended(run[w], "completed", a)
  /\ run' = [run EXCEPT ![w] = None]
  /\ UNCHANGED <<memory, review, rollbacks>>

\* An error of the program is recorded and committed, with all that was done
\* before it: nothing, the artifact alone, or the artifact named by the task.
Fail(w) ==
  /\ run[w] # None
  /\ \/ task' = Ended(run[w], "failed", None) /\ UNCHANGED artifact
     \/ \E a \in Artifacts, named \in BOOLEAN :
          /\ artifact[a].status = "absent"
          /\ artifact' = Made(a, run[w])
          /\ task' = Ended(run[w], "failed", IF named THEN a ELSE None)
  /\ run' = [run EXCEPT ![w] = None]
  /\ UNCHANGED <<memory, review, rollbacks>>

\* The process dies or the database refuses a statement: after that the failure
\* cannot be recorded either, and the task is pending again.
Rollback(w) ==
  /\ run[w] # None /\ rollbacks < MaxRollbacks
  /\ rollbacks' = rollbacks + 1
  /\ run' = [run EXCEPT ![w] = None]
  /\ UNCHANGED <<task, artifact, memory, review>>

\* Reports of the other services are stored for review.
Publish(a) ==
  /\ artifact[a].status = "absent"
  /\ artifact' = [artifact EXCEPT ![a] = [status |-> "needs_review", task |-> None]]
  /\ UNCHANGED <<task, memory, run, review, rollbacks>>

Unlocked(a) == \A r \in Reviewers : review[r].artifact # a

\* get_artifact_for_update
BeginReview(r, a) ==
  /\ review[r] = NoReview /\ artifact[a].status # "absent" /\ Unlocked(a)
  /\ review' = [review EXCEPT ![r] = [artifact |-> a, seen |-> artifact[a].status]]
  /\ UNCHANGED <<task, artifact, memory, run, rollbacks>>

\* The decision asked for is one the table allows, and the row has the status that
\* was read; a promotion stores the memory in the same transaction.
Decide(r, asked) ==
  LET a == review[r].artifact
      seen == review[r].seen
  IN
  /\ a # None
  /\ asked \in Transitions[seen] /\ artifact[a].status = seen
  /\ artifact' = [artifact EXCEPT ![a].status = asked]
  /\ memory' = IF asked = "promoted_to_memory" THEN memory \cup {a} ELSE memory
  /\ review' = [review EXCEPT ![r] = NoReview]
  /\ UNCHANGED <<task, run, rollbacks>>

\* The review ends without a change: a repeated decision, one the table refuses,
\* a promotion of text that may not become a memory, or an error.
EndReview(r) ==
  /\ review[r] # NoReview
  /\ review' = [review EXCEPT ![r] = NoReview]
  /\ UNCHANGED <<task, artifact, memory, run, rollbacks>>

Next ==
  \/ \E t \in Tasks, l \in Labels, direct \in BOOLEAN : Enqueue(t, l, direct)
  \/ \E w \in Workers : Claim(w) \/ Complete(w) \/ Fail(w) \/ Rollback(w)
  \/ \E a \in Artifacts : Publish(a)
  \/ \E r \in Reviewers, a \in Artifacts : BeginReview(r, a)
  \/ \E r \in Reviewers, asked \in Asked : Decide(r, asked)
  \/ \E r \in Reviewers : EndReview(r)

Spec == Init /\ [][Next]_vars

\* Callers keep asking for the next task, and a call that is not lost ends.
Fairness == \A w \in Workers : /\ WF_vars(Claim(w))
                               /\ WF_vars(Complete(w) \/ Fail(w))
FairSpec == Spec /\ Fairness

-----------------------------------------------------------------------------
\* Type invariant: every row and every open transaction has its columns'
\* values, and a transaction holds a task that exists.
TypeOK ==
  /\ task \in [Tasks -> [status : {"absent", "pending", "completed", "failed"},
                         label : Labels \cup {None}, born : 0..Cardinality(Tasks),
                         direct : BOOLEAN, output : Artifacts \cup {None}]]
  /\ artifact \in [Artifacts -> [status : Statuses \cup {"absent"},
                                 task : Tasks \cup {None}]]
  /\ memory \in SUBSET Artifacts
  /\ run \in [Workers -> Tasks \cup {None}]
  /\ review \in [Reviewers -> [artifact : Artifacts \cup {None}, seen : Statuses]]
  /\ rollbacks \in 0..MaxRollbacks

MadeFrom(t) == {a \in Artifacts : artifact[a].task = t}

\* Callers race for tasks and lose transactions, and still a task yields one
\* result: none while it is pending, at most one however it ends, and the one
\* it names when it is completed.
OneResult ==
  \A t \in Tasks :
    /\ \A a, b \in MadeFrom(t) : a = b
    /\ task[t].status \in {"absent", "pending"} => MadeFrom(t) = {}
    /\ task[t].status = "completed" => MadeFrom(t) = {task[t].output}

\* A trusted memory stands for a promoted artifact and for no other: whatever
\* reviewers ask for, in any order, no rejected or archived artifact keeps one.
TrustedIffPromoted ==
  memory = {a \in Artifacts : artifact[a].status = "promoted_to_memory"}

\* A review that began before another one ended does not undo its decision: a
\* rejected artifact is never in use again, and archiving and promotion are
\* final.
DecisionStep ==
  \A a \in Artifacts :
    /\ artifact[a].status \in {"archived", "promoted_to_memory"}
         => artifact'[a] = artifact[a]
    /\ artifact[a].status = "rejected"
         => artifact'[a].status \in {"rejected", "archived"}

DecisionsStand == [][DecisionStep]_vars

\* A task that some caller may read is ended at last, although other callers may
\* not read it, or may not read the tasks queued before it.
Served ==
  \A t \in Tasks :
    (task[t].status = "pending" /\ \E w \in Workers : task[t].label \in Reads[w])
      ~> (task[t].status \in {"completed", "failed"})

-----------------------------------------------------------------------------
(* The inductive invariant of the proofs.                                  *)

\* An open transaction holds a pending task, and holds it alone.
RunsOK ==
  \A w \in Workers : run[w] # None =>
    /\ task[run[w]].status = "pending"
    /\ \A v \in Workers : run[v] = run[w] => v = w

\* An artifact that does not exist was made from nothing.
AbsentArtifacts ==
  \A a \in Artifacts : artifact[a].status = "absent" => artifact[a].task = None

IndInv == TypeOK /\ RunsOK /\ AbsentArtifacts /\ OneResult /\ TrustedIffPromoted
=============================================================================

--------------------- MODULE SchedulerRefinementProofs ---------------------
(***************************************************************************)
(* The durable scheduler implements the fenced lease; claims leave a row   *)
(* for one of two reasons; what a row says of its last run is true; and,   *)
(* where nobody runs a workflow by hand, a row has a next run exactly when *)
(* its configuration schedules one.                                        *)
(*                                                                         *)
(* A step ends a set of runs with one outcome and takes their claims away  *)
(* (Ended), or claims a workflow, begins a manual run, or revokes claims.  *)
(* StepShapes says so of every action; the theorems follow from it.        *)
(***************************************************************************)
EXTENDS SchedulerRefinement, SchedulerClaimsProofs

\* The runs D end with the outcome o: rows that a run of D held are free, and
\* a row that speaks of another run than before speaks of one of them.
Ended(D, o) ==
  /\ \A r \in D : run[r].status = "started"
  /\ \A r \in Runs : /\ run'[r].slot = run[r].slot
                     /\ run'[r].status = IF r \in D THEN o ELSE run[r].status
  /\ \A w \in Workflows :
       /\ wf'[w].token = IF wf[w].token \in D THEN None ELSE wf[w].token
       /\ \/ wf'[w].last = wf[w].last /\ wf'[w].result = wf[w].result
          \/ wf'[w].last \in D /\ wf'[w].result = o
LastSame == \A w \in Workflows : wf'[w].last = wf[w].last /\ wf'[w].result = wf[w].result

Fails == \E D \in SUBSET Runs : Ended(D, "failed") /\ published' = published
Publishes ==
  \E r \in Runs : /\ Ended({r}, "succeeded") /\ published' = published \cup {r}
                  /\ IsClaimed(r) => \E w \in Workflows : wf[w].token = r
Claims ==
  \E w \in Workflows, r \in Runs :
    /\ run[r].status = "absent" /\ run'[r].status = "started" /\ run'[r].slot # NoTime
    /\ \A s \in Runs \ {r} : run'[s].slot = run[s].slot /\ run'[s].status = run[s].status
    /\ wf'[w].token = r /\ wf'[w].version > wf[w].version
    /\ \A v \in Workflows \ {w} : wf'[v].token = wf[v].token
    /\ LastSame /\ published' = published
Begins ==
  \E r \in Runs :
    /\ run[r].status = "absent" /\ run'[r].status = "started" /\ run'[r].slot = NoTime
    /\ \A s \in Runs \ {r} : run'[s].slot = run[s].slot /\ run'[s].status = run[s].status
    /\ wf' = wf /\ published' = published
Revokes ==
  \E W \in SUBSET Workflows :
    /\ \A w \in W : wf'[w].token = None /\ wf'[w].version > wf[w].version
    /\ \A w \in Workflows \ W : wf'[w].token = wf[w].token
    /\ LastSame /\ run' = run /\ published' = published

StepShape == Fails \/ Publishes \/ Claims \/ Begins \/ Revokes

-----------------------------------------------------------------------------
LEMMA SettledRunFields ==
  ASSUME TypeOK, NEW r \in Runs, NEW o
  PROVE  SettledRun(r, o).slot = run[r].slot /\ SettledRun(r, o).status = o
<1>1. run[r] \in RunRow
  BY DEF TypeOK
<1> QED
  BY <1>1 DEF SettledRun, RunRow

LEMMA SettledFields ==
  ASSUME TypeOK, NEW r, NEW w \in Workflows, NEW o, NEW n
  PROVE  /\ SettledWorkflow(w, r, o, n).token = None
         /\ SettledWorkflow(w, r, o, n).last = r
         /\ SettledWorkflow(w, r, o, n).result = o
         /\ SettledWorkflow(w, r, o, n).next = n
         /\ SettledWorkflow(w, r, o, n).enabled = wf[w].enabled
         /\ SettledWorkflow(w, r, o, n).paused = wf[w].paused
         /\ SettledWorkflow(w, r, o, n).kind = wf[w].kind
<1>1. wf[w] \in WorkflowRow
  BY DEF TypeOK
<1> QED
  BY <1>1 DEF SettledWorkflow, WorkflowRow

\* A run holds at most the workflow it belongs to.
LEMMA HoldsItsOwn ==
  ASSUME IndInv, NEW w \in Workflows, wf[w].token \in Runs
  PROVE  /\ run[wf[w].token].workflow = w /\ run[wf[w].token].status = "started"
         /\ run[wf[w].token].version = wf[w].version
         /\ run[wf[w].token].token = wf[w].token /\ IsClaimed(wf[w].token)
<1>1. wf[w].token # None
  BY NullIsNoRow
<1> QED
  BY <1>1 DEF IndInv, ClaimBacked, RunsOK

\* A step that changes neither table ends no run.
LEMMA NothingEnds ==
  ASSUME UNCHANGED <<wf, run, published>>, None \notin Runs
  PROVE  Fails
<1> DEFINE D == {}
<1>1. D \in SUBSET Runs /\ Ended(D, "failed")
  BY DEF Ended
<1> HIDE DEF D
<1> QED
  BY <1>1 DEF Fails

LEMMA ReapFails ==
  ASSUME IndInv, NEW k \in Workers, Reap(k)
  PROVE  Fails
<1>t. TypeOK /\ None \notin Runs
  BY NullIsNoRow DEF IndInv
<1>1. PICK D \in SUBSET Expired(worker[k].checked) :
        run' = ReapedRuns(D) /\ wf' = ReapedWorkflows(D)
  BY DEF Reap
<1>2. /\ D \in SUBSET Runs
      /\ \A r \in D : run[r].status = "started"
  BY <1>1 DEF Expired
<1>3. \A r \in Runs : /\ run'[r].slot = run[r].slot
                      /\ run'[r].status = IF r \in D THEN "failed" ELSE run[r].status
  BY <1>t, <1>1, SettledRunFields DEF ReapedRuns
<1>4. ASSUME NEW w \in Workflows
      PROVE  /\ wf'[w].token = IF wf[w].token \in D THEN None ELSE wf[w].token
             /\ \/ wf'[w].last = wf[w].last /\ wf'[w].result = wf[w].result
                \/ wf'[w].last \in D /\ wf'[w].result = "failed"
  <2>1. CASE wf[w].token \in D
    <3>1. wf[w].token \in Runs
      BY <1>2, <2>1
    <3>2. wf'[w] = SettledWorkflow(w, wf[w].token, "failed", wf[w].next)
      BY <1>1, <2>1, <3>1, HoldsItsOwn DEF ReapedWorkflows
    <3> QED
      BY <1>t, <2>1, <3>1, <3>2, SettledFields
  <2>2. CASE wf[w].token \notin D
    BY <1>1, <2>2 DEF ReapedWorkflows
  <2> QED
    BY <2>1, <2>2
<1> QED
  BY <1>2, <1>3, <1>4 DEF Ended, Fails, Reap

\* finalize_scheduler_claim under a live fence.
LEMMA SettlingEnds ==
  ASSUME IndInv, NEW r \in Runs, Live(r), NEW o, NEW n,
         wf' = [wf EXCEPT ![run[r].workflow] = SettledWorkflow(run[r].workflow, r, o, n)],
         run' = [run EXCEPT ![r] = SettledRun(r, o)]
  PROVE  Ended({r}, o) /\ wf[run[r].workflow].token = r /\ run[r].workflow \in Workflows
<1> DEFINE w == run[r].workflow
<1>t. TypeOK /\ None \notin Runs
  BY NullIsNoRow DEF IndInv
<1>1. run[r].status = "started" /\ w \in Workflows /\ wf[w].token = r
  BY LiveFence
<1>2. /\ run'[r] = SettledRun(r, o) /\ \A s \in Runs \ {r} : run'[s] = run[s]
      /\ wf'[w] = SettledWorkflow(w, r, o, n)
      /\ \A v \in Workflows \ {w} : wf'[v] = wf[v]
  BY <1>t, <1>1 DEF TypeOK
<1>3. \A v \in Workflows \ {w} : wf[v].token # r
  BY HoldsItsOwn
<1> HIDE DEF w
<1>4. \A s \in Runs : /\ run'[s].slot = run[s].slot
                      /\ run'[s].status = IF s \in {r} THEN o ELSE run[s].status
  BY <1>t, <1>1, <1>2, SettledRunFields
<1>5. ASSUME NEW v \in Workflows
      PROVE  /\ wf'[v].token = IF wf[v].token \in {r} THEN None ELSE wf[v].token
             /\ \/ wf'[v].last = wf[v].last /\ wf'[v].result = wf[v].result
                \/ wf'[v].last \in {r} /\ wf'[v].result = o
  BY <1>t, <1>1, <1>2, <1>3, SettledFields
<1>6. Ended({r}, o)
  BY <1>1, <1>4, <1>5 DEF Ended
<1> QED
  BY <1>1, <1>6 DEF w

LEMMA CommitPublishes ==
  ASSUME IndInv, NEW k \in Workers, CommitPublish(k)
  PROVE  Publishes
<1> DEFINE r == worker[k].run
<1>1. r \in Runs
  BY WorkingRun DEF CommitPublish
<1>2. PICK n : wf' = [wf EXCEPT ![run[r].workflow] =
                        SettledWorkflow(run[r].workflow, r, "succeeded", n)]
  BY DEF CommitPublish
<1>3. Live(r) /\ run' = [run EXCEPT ![r] = SettledRun(r, "succeeded")]
      /\ published' = published \cup {r}
  BY DEF CommitPublish
<1> HIDE DEF r
<1>4. Ended({r}, "succeeded") /\ wf[run[r].workflow].token = r /\ run[r].workflow \in Workflows
  BY <1>1, <1>2, <1>3, SettlingEnds
<1> QED
  BY <1>1, <1>3, <1>4 DEF Publishes

LEMMA SettleFails ==
  ASSUME IndInv, NEW k \in Workers, SettleFailed(k)
  PROVE  Fails
<1> DEFINE r == worker[k].run
<1>1. r \in Runs /\ published' = published
  BY WorkingRun DEF SettleFailed
<1>2. CASE Live(r)
  <2>1. /\ wf' = [wf EXCEPT ![run[r].workflow] =
                    SettledWorkflow(run[r].workflow, r, "failed", worker[k].next)]
        /\ run' = [run EXCEPT ![r] = SettledRun(r, "failed")]
    BY <1>2 DEF SettleFailed
  <2> HIDE DEF r
  <2>2. Ended({r}, "failed")
    BY <1>1, <1>2, <2>1, SettlingEnds
  <2> QED
    BY <1>1, <2>2 DEF Fails
<1>3. CASE ~Live(r)
  BY <1>1, <1>3, NothingEnds, NullIsNoRow DEF SettleFailed
<1> QED
  BY <1>2, <1>3

LEMMA HeartbeatEndsNothing ==
  ASSUME IndInv, NEW k \in Workers, Heartbeat(k)
  PROVE  Fails
<1> DEFINE r == worker[k].run
           D == {}
<1>t. wf \in [Workflows -> WorkflowRow] /\ run \in [Runs -> RunRow]
  BY DEF IndInv, TypeOK
<1>0. r \in Runs /\ run[r].workflow \in Workflows
  BY WorkingRun DEF Heartbeat
<1>1. /\ run' = [run EXCEPT ![r].expires = now + Lease]
      /\ wf' = [wf EXCEPT ![run[r].workflow].expires = now + Lease]
      /\ published' = published
  BY DEF Heartbeat
<1>2. \A s \in Runs : run'[s].slot = run[s].slot /\ run'[s].status = run[s].status
  BY <1>t, <1>1 DEF RunRow
<1>3. \A w \in Workflows : /\ wf'[w].token = wf[w].token /\ wf'[w].last = wf[w].last
                           /\ wf'[w].result = wf[w].result
  BY <1>t, <1>1 DEF WorkflowRow
<1>4. D \in SUBSET Runs /\ Ended(D, "failed")
  BY <1>2, <1>3 DEF Ended
<1> HIDE DEF D
<1> QED
  BY <1>1, <1>4 DEF Fails

LEMMA ClaimClaims ==
  ASSUME IndInv, NEW k \in Workers, NEW w \in Workflows, NEW r \in Runs, Claim(k, w, r)
  PROVE  Claims
<1>t. wf \in [Workflows -> WorkflowRow] /\ run \in [Runs -> RunRow]
  BY DEF IndInv, TypeOK
<1>1. /\ run[r].status = "absent" /\ published' = published
      /\ wf[w].next # NoTime
      /\ wf' = [wf EXCEPT ![w] = ClaimedRow(w, r)]
      /\ run' = [run EXCEPT ![r] =
           [status |-> "started", workflow |-> w, token |-> r,
            version |-> ClaimedRow(w, r).version, expires |-> now + Lease,
            slot |-> wf[w].next]]
  BY DEF Claim, Fresh, Claimable, Due
<1>2. /\ run'[r].status = "started" /\ run'[r].slot = wf[w].next
      /\ \A s \in Runs \ {r} : run'[s] = run[s]
      /\ wf'[w] = ClaimedRow(w, r)
      /\ \A v \in Workflows \ {w} : wf'[v] = wf[v]
  BY <1>t, <1>1
<1>3. wf[w] \in WorkflowRow
  BY <1>t
<1>4. /\ ClaimedRow(w, r).token = r /\ ClaimedRow(w, r).version = wf[w].version + 1
      /\ ClaimedRow(w, r).last = wf[w].last /\ ClaimedRow(w, r).result = wf[w].result
  BY <1>3 DEF ClaimedRow, WorkflowRow
<1>5. wf[w].version + 1 > wf[w].version
  <2>1. wf[w].version \in Nat
    BY <1>3 DEF WorkflowRow
  <2> QED
    BY <2>1
<1> QED
  BY <1>1, <1>2, <1>4, <1>5 DEF Claims, LastSame

LEMMA BeginRunBegins ==
  ASSUME IndInv, NEW c \in Callers, NEW w \in Workflows, NEW r \in Runs, BeginRun(c, w, r)
  PROVE  Begins
<1>t. run \in [Runs -> RunRow]
  BY DEF IndInv, TypeOK
<1> DEFINE b == [NoRow EXCEPT !.status = "started", !.workflow = w]
<1>1. /\ run[r].status = "absent" /\ wf' = wf /\ published' = published
      /\ run' = [run EXCEPT ![r] = b]
  BY DEF BeginRun, Fresh
<1>2. b.status = "started" /\ b.slot = NoTime
  BY DEF NoRow
<1> HIDE DEF b
<1>3. run'[r] = b /\ \A s \in Runs \ {r} : run'[s] = run[s]
  BY <1>t, <1>1
<1> QED
  BY <1>1, <1>2, <1>3 DEF Begins

LEMMA ManualEnds ==
  ASSUME IndInv, NEW c \in Callers, NEW o, FinishManual(c, o)
  PROVE  Ended({caller[c].run}, o) /\ caller[c].run \in Runs /\ ~IsClaimed(caller[c].run)
<1> DEFINE r == caller[c].run
           w == caller[c].workflow
<1>t. wf \in [Workflows -> WorkflowRow] /\ run \in [Runs -> RunRow]
  BY DEF IndInv, TypeOK
<1>0. caller[c] \in CallerState /\ r # None
  BY DEF IndInv, TypeOK, FinishManual
<1>1. /\ r \in Runs /\ w \in Workflows /\ run[r].status = "started"
      /\ ~IsClaimed(r)
  BY <1>0 DEF IndInv, CallersOK, CallerState
<1>2. /\ run' = [run EXCEPT ![r].status = o] /\ wf' = [wf EXCEPT ![w] = ManualRow(c, o)]
  BY DEF FinishManual
<1>3. wf[w] \in WorkflowRow /\ run[r] \in RunRow
  BY <1>t, <1>1
<1>4. /\ ManualRow(c, o).token = wf[w].token /\ ManualRow(c, o).last = r
      /\ ManualRow(c, o).result = o
  BY <1>3 DEF ManualRow, WorkflowRow
<1>5. \A s \in Runs : /\ run'[s].slot = run[s].slot
                      /\ run'[s].status = IF s \in {r} THEN o ELSE run[s].status
  BY <1>t, <1>1, <1>2 DEF RunRow
<1>6. wf'[w] = ManualRow(c, o) /\ \A v \in Workflows \ {w} : wf'[v] = wf[v]
  BY <1>t, <1>1, <1>2
<1>7. \A v \in Workflows : wf[v].token # r
  BY <1>1, HoldsItsOwn
<1> HIDE DEF r, w
<1>8. Ended({r}, o)
  BY <1>1, <1>4, <1>5, <1>6, <1>7 DEF Ended
<1> QED
  BY <1>1, <1>8 DEF r

LEMMA WriteConfigRevokes ==
  ASSUME IndInv, NEW a \in Admins, WriteConfig(a)
  PROVE  Revokes
<1>t. wf \in [Workflows -> WorkflowRow] /\ admin[a] \in AdminState
  BY DEF IndInv, TypeOK
<1> DEFINE W == admin[a].targets
<1>1. /\ W \in SUBSET Workflows /\ run' = run /\ published' = published
      /\ wf' = [w \in Workflows |->
                  IF w \in W THEN Configured(w, NewConfig(a, w)) ELSE wf[w]]
  BY <1>t DEF WriteConfig, AdminState
<1> HIDE DEF W
<1>2. ASSUME NEW w \in Workflows, NEW c
      PROVE  /\ Configured(w, c).token = None
             /\ Configured(w, c).version > wf[w].version
             /\ Configured(w, c).last = wf[w].last
             /\ Configured(w, c).result = wf[w].result
  <2>1. wf[w] \in WorkflowRow
    BY <1>t
  <2>2. wf[w].version \in Nat
    BY <2>1 DEF WorkflowRow
  <2>3. /\ Configured(w, c).token = None
        /\ Configured(w, c).version = wf[w].version + 1
        /\ Configured(w, c).last = wf[w].last
        /\ Configured(w, c).result = wf[w].result
    BY <2>1 DEF Configured, WorkflowRow
  <2> QED
    BY <2>2, <2>3
<1> QED
  BY <1>1, <1>2 DEF Revokes, LastSame

LEMMA StepShapes ==
  ASSUME IndInv, [Next]_vars
  PROVE  StepShape
<1>1. ASSUME UNCHANGED <<wf, run, published>> PROVE StepShape
  BY <1>1, NothingEnds, NullIsNoRow DEF StepShape
<1>2. ASSUME NEW k \in Workers,
             Reap(k) \/ ClaimSome(k) \/ CommitPublish(k) \/ SettleFailed(k) \/ Heartbeat(k)
      PROVE  StepShape
  BY <1>2, ReapFails, ClaimClaims, CommitPublishes, SettleFails, HeartbeatEndsNothing
  DEF ClaimSome, StepShape
<1>3. ASSUME NEW c \in Callers, PublishManual(c) PROVE StepShape
  BY <1>3, ManualEnds DEF PublishManual, Publishes, StepShape
<1>4. ASSUME NEW c \in Callers, FailManual(c) PROVE StepShape
  <2>1. /\ Ended({caller[c].run}, "failed") /\ {caller[c].run} \in SUBSET Runs
        /\ published' = published
    BY <1>4, ManualEnds DEF FailManual
  <2> QED
    BY <2>1 DEF Fails, StepShape
<1>5. CASE UNCHANGED vars
  BY <1>1, <1>5 DEF vars
<1>6. CASE Next
  BY <1>1, <1>2, <1>3, <1>4, <1>6, WritersOfRows, BeginRunBegins, WriteConfigRevokes DEF StepShape
<1> QED
  BY <1>5, <1>6

-----------------------------------------------------------------------------
(* The refinement.                                                         *)

LEMMA FailsRefine ==
  ASSUME IndInv, NEW D \in SUBSET Runs, Ended(D, "failed"), published' = published
  PROVE  Fenced!Next
<1>1. \A r \in D : State[r] = "started"
  BY DEF Ended, State
<1>2. State' = [r \in Runs |-> IF r \in D THEN "failed" ELSE State[r]]
  BY DEF Ended, State
<1>3. Holder' = [w \in Workflows |-> IF Holder[w] \in D THEN None ELSE Holder[w]]
  BY DEF Ended, Holder
<1>4. Claimed' = Claimed
  BY DEF Ended, Claimed
<1>5. Fenced!Fail(D)
  BY <1>1, <1>2, <1>3, <1>4 DEF Fenced!Fail, Fenced!Without
<1> QED
  BY <1>5 DEF Fenced!Next

LEMMA PublishesRefine ==
  ASSUME IndInv, Publishes
  PROVE  Fenced!Next
<1>1. PICK r \in Runs : /\ Ended({r}, "succeeded") /\ published' = published \cup {r}
                        /\ IsClaimed(r) => \E w \in Workflows : wf[w].token = r
  BY DEF Publishes
<1>2. State[r] = "started"
  BY <1>1 DEF Ended, State
<1>3. State' = [State EXCEPT ![r] = "succeeded"]
  BY <1>1 DEF Ended, State
<1>4. Holder' = [w \in Workflows |-> IF Holder[w] \in {r} THEN None ELSE Holder[w]]
  BY <1>1 DEF Ended, Holder
<1>5. Claimed' = Claimed
  BY <1>1 DEF Ended, Claimed
<1>6. r \in Claimed => \E w \in Workflows : Holder[w] = r
  BY <1>1 DEF Claimed, Holder, IsClaimed
<1>7. Fenced!Publish(r)
  BY <1>1, <1>2, <1>3, <1>4, <1>5, <1>6 DEF Fenced!Publish, Fenced!Without
<1> QED
  BY <1>7 DEF Fenced!Next

LEMMA ClaimsRefine ==
  ASSUME IndInv, Claims
  PROVE  Fenced!Next
<1>1. PICK w \in Workflows, r \in Runs :
        /\ run[r].status = "absent" /\ run'[r].status = "started" /\ run'[r].slot # NoTime
        /\ \A s \in Runs \ {r} : run'[s].slot = run[s].slot /\ run'[s].status = run[s].status
        /\ wf'[w].token = r
        /\ \A v \in Workflows \ {w} : wf'[v].token = wf[v].token
        /\ published' = published
  BY DEF Claims
<1>2. State[r] = "absent" /\ State' = [State EXCEPT ![r] = "started"]
  BY <1>1 DEF State
<1>3. Holder' = [Holder EXCEPT ![w] = r]
  BY <1>1 DEF Holder
<1>4. Claimed' = Claimed \cup {r}
  BY <1>1 DEF Claimed
<1>5. Fenced!Acquire(w, r)
  BY <1>1, <1>2, <1>3, <1>4 DEF Fenced!Acquire
<1> QED
  BY <1>5 DEF Fenced!Next

LEMMA BeginsRefine ==
  ASSUME IndInv, Begins
  PROVE  Fenced!Next
<1>1. PICK r \in Runs :
        /\ run[r].status = "absent" /\ run'[r].status = "started" /\ run'[r].slot = NoTime
        /\ \A s \in Runs \ {r} : run'[s].slot = run[s].slot /\ run'[s].status = run[s].status
        /\ wf' = wf /\ published' = published
  BY DEF Begins
<1>2. State[r] = "absent" /\ State' = [State EXCEPT ![r] = "started"]
  BY <1>1 DEF State
<1>3. Holder' = Holder
  BY <1>1 DEF Holder
<1>4. run[r].slot = NoTime
  BY <1>1 DEF IndInv, RunsOK, IsClaimed
<1>5. Claimed' = Claimed
  BY <1>1, <1>4 DEF Claimed
<1>6. Fenced!OpenManual(r)
  BY <1>1, <1>2, <1>3, <1>5 DEF Fenced!OpenManual
<1> QED
  BY <1>6 DEF Fenced!Next

LEMMA RevokesRefine ==
  ASSUME IndInv, Revokes
  PROVE  Fenced!Next
<1>1. PICK W \in SUBSET Workflows :
        /\ \A w \in W : wf'[w].token = None
        /\ \A w \in Workflows \ W : wf'[w].token = wf[w].token
        /\ run' = run /\ published' = published
  BY DEF Revokes
<1>2. State' = State /\ Claimed' = Claimed
  BY <1>1 DEF State, Claimed
<1>3. Holder' = [w \in Workflows |-> IF w \in W THEN None ELSE Holder[w]]
  BY <1>1 DEF Holder
<1>4. Fenced!Revoke(W)
  BY <1>1, <1>2, <1>3 DEF Fenced!Revoke
<1> QED
  BY <1>4 DEF Fenced!Next

LEMMA FencedInit ==
  ASSUME Init PROVE Fenced!Init
<1>1. /\ wf \in [Workflows -> {InitialRow(TRUE), InitialRow(FALSE)}]
      /\ run = [r \in Runs |-> NoRow] /\ published = {}
  BY DEF Init
<1>2. \A w \in Workflows : wf[w].token = None
  BY <1>1 DEF InitialRow
<1>3. \A r \in Runs : run[r].status = "absent" /\ run[r].slot = NoTime
  BY <1>1 DEF NoRow
<1> QED
  BY <1>1, <1>2, <1>3 DEF Fenced!Init, Holder, State, Claimed

\* The scheduler implements the fenced lease, whatever workers, requests,
\* leases and bounds: a displaced run never publishes and a run ends once.
THEOREM SchedulerImplementsFencedLease == Spec => ImplementsFencedLease
<1>1. Init => Fenced!Init
  BY FencedInit
<1>2. IndInv /\ [Next]_vars => [Fenced!Next]_(Fenced!vars)
  <2> SUFFICES ASSUME IndInv, [Next]_vars PROVE Fenced!Next
    OBVIOUS
  <2> QED
    BY StepShapes, FailsRefine, PublishesRefine, ClaimsRefine, BeginsRefine, RevokesRefine
    DEF StepShape, Fails
<1> QED
  BY <1>1, <1>2, SchedulerInvariant, PTL DEF Spec, ImplementsFencedLease, Fenced!Spec

-----------------------------------------------------------------------------
(* Claims that leave a row, and the last result of a row.                  *)

LEMMA ReleaseStep ==
  ASSUME IndInv, [Next]_vars
  PROVE  ReleaseIsAccounted
<1> SUFFICES ASSUME NEW w \in Workflows, wf[w].token # None, wf'[w].token # wf[w].token
             PROVE  \/ run'[wf[w].token].status \in {"succeeded", "failed"}
                    \/ wf'[w].version > wf[w].version
  BY DEF ReleaseIsAccounted
<1>0. wf[w].token \in Runs
  BY DEF IndInv, TypeOK, WorkflowRow
<1>1. CASE Fails \/ Publishes
  BY <1>0, <1>1 DEF Fails, Publishes, Ended
<1>2. CASE Claims
  BY <1>2 DEF Claims
<1>3. CASE Begins
  BY <1>3 DEF Begins
<1>4. CASE Revokes
  BY <1>4 DEF Revokes
<1> QED
  BY <1>1, <1>2, <1>3, <1>4, StepShapes DEF StepShape

\* A claim leaves a row only when its run ends or the version moves on.
THEOREM ReleasesAreAccounted == Spec => ClaimReleaseAccounted
<1>1. IndInv /\ [Next]_vars => [ReleaseIsAccounted]_vars
  BY ReleaseStep
<1> QED
  BY <1>1, SchedulerInvariant, PTL DEF Spec, ClaimReleaseAccounted

\* LastResultTrue, with what makes it inductive: results are final outcomes.
LastOK ==
  \A w \in Workflows : wf[w].result # None =>
    /\ wf[w].last \in Runs /\ wf[w].result \in {"succeeded", "failed"}
    /\ run[wf[w].last].status = wf[w].result

LEMMA LastStep ==
  ASSUME IndInv, LastOK, [Next]_vars
  PROVE  LastOK'
<1> SUFFICES ASSUME NEW w \in Workflows, wf'[w].result # None
             PROVE  /\ wf'[w].last \in Runs /\ wf'[w].result \in {"succeeded", "failed"}
                    /\ run'[wf'[w].last].status = wf'[w].result
  BY DEF LastOK
<1>1. CASE wf'[w].last = wf[w].last /\ wf'[w].result = wf[w].result
  <2>1. /\ wf[w].last \in Runs /\ wf[w].result \in {"succeeded", "failed"}
        /\ run[wf[w].last].status = wf[w].result
    BY <1>1 DEF LastOK
  <2>2. run'[wf[w].last] = run[wf[w].last]
    BY <2>1, FinishedStep DEF FinishedStays
  <2> QED
    BY <1>1, <2>1, <2>2
<1>2. ASSUME NEW D \in SUBSET Runs, NEW o \in {"succeeded", "failed"}, Ended(D, o),
             wf'[w].last \in D, wf'[w].result = o
      PROVE  /\ wf'[w].last \in Runs /\ wf'[w].result \in {"succeeded", "failed"}
             /\ run'[wf'[w].last].status = wf'[w].result
  BY <1>2 DEF Ended
<1>3. CASE Fails
  BY <1>1, <1>2, <1>3 DEF Fails, Ended
<1>4. CASE Publishes
  <2>1. PICK r \in Runs : Ended({r}, "succeeded")
    BY <1>4 DEF Publishes
  <2>2. {r} \in SUBSET Runs
    OBVIOUS
  <2> QED
    BY <1>1, <1>2, <2>1, <2>2 DEF Ended
<1>5. CASE Claims \/ Begins \/ Revokes
  BY <1>1, <1>5 DEF Claims, Begins, Revokes, LastSame
<1> QED
  BY <1>3, <1>4, <1>5, StepShapes DEF StepShape

\* last_run_id and last_result tell the truth, whoever wrote them last.
THEOREM LastResultsAreTrue == Spec => []LastResultTrue
<1>1. Init => LastOK
  <2> SUFFICES ASSUME Init, NEW w \in Workflows PROVE wf[w].result = None
    BY DEF LastOK
  <2> QED
    BY DEF Init, InitialRow
<1>2. IndInv /\ LastOK /\ [Next]_vars => LastOK'
  BY LastStep
<1>3. LastOK => LastResultTrue
  BY NullIsNoRow DEF LastOK, LastResultTrue
<1> QED
  BY <1>1, <1>2, <1>3, SchedulerInvariant, PTL DEF Spec

-----------------------------------------------------------------------------
(* The next run of a row and its configuration.                            *)

LEMMA NextRunWhenScheduled ==
  ASSUME NEW t \in Nat, NEW c
  PROVE  NextRunAt(c, t) # NoTime <=> Scheduled(c)
  BY NextSlotLater DEF NextRunAt, Scheduled, NoTime

\* What a failing worker will write into a row that it still holds is what the
\* row's configuration asks for: while a claim stands the configuration does.
SettlingOK ==
  \A k \in Workers :
    worker[k].phase = "settling" /\ wf[Row(k).workflow].token = worker[k].run
      => (worker[k].next # NoTime <=> Scheduled(wf[Row(k).workflow]))

ConfigSame(w) == /\ wf'[w].enabled = wf[w].enabled /\ wf'[w].paused = wf[w].paused
                 /\ wf'[w].kind = wf[w].kind
\* What a step does to a row.
RowPlain(w)  == /\ ConfigSame(w) /\ wf'[w].next = wf[w].next
                /\ \/ wf'[w].token = wf[w].token
                   \/ wf'[w].token \in Fresh \cup {None}
RowPlanned(w) == wf'[w].token = None /\ (wf'[w].next # NoTime <=> Scheduled(wf'[w]))
RowByHand(w) ==
  /\ ConfigSame(w) /\ wf'[w].token = wf[w].token
  /\ \E c \in Callers :
       /\ caller[c].workflow = w /\ caller[c].run # None /\ caller'[c].run = None
       /\ run'[caller[c].run].status \in {"succeeded", "failed"}
       /\ wf'[w].next # NoTime <=> Scheduled(caller[c].seen)

RowShape(w) == RowPlain(w) \/ RowPlanned(w) \/ RowByHand(w)

LEMMA SameRowIsPlain ==
  ASSUME NEW w, wf'[w] = wf[w]
  PROVE  RowShape(w)
  BY DEF RowShape, RowPlain, ConfigSame

LEMMA SettledRowShape ==
  ASSUME IndInv, NEW r \in Runs, Live(r), NEW n, NEW o, NEW v \in Workflows,
         wf' = [wf EXCEPT ![run[r].workflow] = SettledWorkflow(run[r].workflow, r, o, n)],
         n # NoTime <=> Scheduled(wf[run[r].workflow])
  PROVE  RowShape(v)
<1> DEFINE w == run[r].workflow
<1>t. TypeOK
  BY DEF IndInv
<1>1. w \in Workflows
  BY LiveFence
<1>2. /\ wf'[w] = SettledWorkflow(w, r, o, n)
      /\ \A u \in Workflows \ {w} : wf'[u] = wf[u]
  BY <1>t, <1>1 DEF TypeOK
<1> HIDE DEF w
<1>3. /\ wf'[w].token = None /\ wf'[w].next = n /\ ConfigSame(w)
  BY <1>t, <1>1, <1>2, SettledFields DEF ConfigSame
<1>4. RowPlanned(w)
  BY <1>3 DEF RowPlanned, Scheduled, ConfigSame, w
<1> QED
  BY <1>2, <1>4, SameRowIsPlain DEF RowShape

LEMMA FinishedByHand ==
  ASSUME IndInv, NEW c \in Callers, NEW o, FinishManual(c, o)
  PROVE  LET r == caller[c].run  w == caller[c].workflow IN
         /\ r \in Runs /\ w \in Workflows /\ r # None
         /\ run'[r].status = o /\ caller'[c].run = None
         /\ wf'[w] = ManualRow(c, o) /\ \A u \in Workflows \ {w} : wf'[u] = wf[u]
<1>t. /\ wf \in [Workflows -> WorkflowRow] /\ run \in [Runs -> RunRow]
      /\ caller \in [Callers -> CallerState]
  BY DEF IndInv, TypeOK
<1>1. caller[c] \in CallerState /\ caller[c].run # None
  BY <1>t DEF FinishManual
<1>2. caller[c].run \in Runs /\ caller[c].workflow \in Workflows
  BY <1>1 DEF IndInv, CallersOK, CallerState
<1>3. run'[caller[c].run].status = o
  BY <1>t, <1>2 DEF FinishManual, RunRow
<1>4. caller'[c].run = None
  BY <1>t DEF FinishManual, IdleCaller
<1> QED
  BY <1>t, <1>1, <1>2, <1>3, <1>4 DEF FinishManual

LEMMA RowShapes ==
  ASSUME IndInv, SettlingOK, [Next]_vars, NEW v \in Workflows
  PROVE  RowShape(v)
<1>t. /\ TypeOK /\ wf \in [Workflows -> WorkflowRow] /\ now \in Nat
      /\ worker \in [Workers -> WorkerState]
  BY DEF IndInv, TypeOK
<1>1. ASSUME UNCHANGED wf PROVE RowShape(v)
  BY <1>1, SameRowIsPlain
<1>2. ASSUME NEW k \in Workers, Reap(k) PROVE RowShape(v)
  <2>1. \/ wf'[v] = wf[v]
        \/ wf'[v] = SettledWorkflow(v, wf[v].token, "failed", wf[v].next)
    BY <1>2 DEF Reap, ReapedWorkflows
  <2> QED
    BY <1>t, <2>1, SameRowIsPlain, SettledFields DEF RowShape, RowPlain, ConfigSame
<1>3. ASSUME NEW k \in Workers, NEW w \in Workflows, NEW r \in Runs, Claim(k, w, r)
      PROVE  RowShape(v)
  <2>1. /\ r \in Fresh
        /\ wf'[w] = ClaimedRow(w, r) /\ \A u \in Workflows \ {w} : wf'[u] = wf[u]
    BY <1>t, <1>3 DEF Claim
  <2>2. wf[w] \in WorkflowRow
    BY <1>t
  <2>3. RowPlain(w)
    BY <2>1, <2>2 DEF RowPlain, ConfigSame, ClaimedRow, WorkflowRow
  <2> QED
    BY <2>1, <2>3, SameRowIsPlain DEF RowShape
<1>4. ASSUME NEW k \in Workers, CommitPublish(k) PROVE RowShape(v)
  <2> DEFINE r == worker[k].run
  <2>1. r \in Runs /\ worker[k].since \in Nat
    BY <1>t, <1>4, WorkingRun DEF CommitPublish, WorkerState
  <2>2. PICK t \in worker[k].since .. now :
          wf' = [wf EXCEPT ![run[r].workflow] =
                   SettledWorkflow(run[r].workflow, r, "succeeded",
                                   NextRunAt(wf[run[r].workflow], t))]
    BY <1>4 DEF CommitPublish
  <2>3. Live(r) /\ t \in Nat
    BY <1>t, <1>4, <2>1 DEF CommitPublish
  <2> HIDE DEF r
  <2> QED
    BY <2>1, <2>2, <2>3, NextRunWhenScheduled, SettledRowShape
<1>5. ASSUME NEW k \in Workers, SettleFailed(k) PROVE RowShape(v)
  <2> DEFINE r == worker[k].run
             w == run[r].workflow
  <2>1. r \in Runs /\ w \in Workflows /\ worker[k].phase = "settling"
    BY <1>5, WorkingRun DEF SettleFailed
  <2>2. CASE ~Live(r)
    BY <1>1, <1>5, <2>2 DEF SettleFailed
  <2>3. CASE Live(r)
    <3>1. wf' = [wf EXCEPT ![w] = SettledWorkflow(w, r, "failed", worker[k].next)]
      BY <1>5, <2>3 DEF SettleFailed
    <3>2. wf[w].token = r
      BY <2>3 DEF Live
    <3>3. worker[k].next # NoTime <=> Scheduled(wf[w])
      BY <2>1, <3>2 DEF SettlingOK, Row
    <3> HIDE DEF r
    <3> QED
      BY <2>1, <2>3, <3>1, <3>3, SettledRowShape
  <2> QED
    BY <2>2, <2>3
<1>6. ASSUME NEW k \in Workers, Heartbeat(k) PROVE RowShape(v)
  <2>1. wf[v] \in WorkflowRow
    BY <1>t
  <2>2. RowPlain(v)
    BY <1>t, <1>6, <2>1 DEF Heartbeat, RowPlain, ConfigSame, WorkflowRow
  <2> QED
    BY <2>2 DEF RowShape
<1>7. ASSUME NEW a \in Admins, WriteConfig(a) PROVE RowShape(v)
  <2> DEFINE c == NewConfig(a, v)
  <2>1. CASE wf'[v] = wf[v]
    BY <2>1, SameRowIsPlain
  <2>2. CASE wf'[v] = Configured(v, c)
    <3>1. wf[v] \in WorkflowRow
      BY <1>t
    <3>2. /\ wf'[v].enabled = c.enabled /\ wf'[v].paused = c.paused
          /\ wf'[v].kind = c.kind /\ wf'[v].token = None /\ wf'[v].next = NextRunAt(c, now)
      BY <2>2, <3>1 DEF Configured, WorkflowRow
    <3> HIDE DEF c
    <3>3. RowPlanned(v)
      BY <1>t, <3>2, NextRunWhenScheduled DEF RowPlanned, Scheduled
    <3> QED
      BY <3>3 DEF RowShape
  <2> QED
    BY <1>7, <2>1, <2>2 DEF WriteConfig
<1>8. ASSUME NEW c \in Callers, NEW o \in {"succeeded", "failed"}, FinishManual(c, o)
      PROVE  RowShape(v)
  <2> DEFINE r == caller[c].run
             w == caller[c].workflow
  <2>1. r \in Runs /\ w \in Workflows /\ r # None
    BY <1>8, FinishedByHand
  <2>2. /\ wf'[w] = ManualRow(c, o) /\ \A u \in Workflows \ {w} : wf'[u] = wf[u]
        /\ run'[r].status = o /\ caller'[c].run = None
    BY <1>8, FinishedByHand
  <2>3. /\ wf'[w].next = NextRunAt(caller[c].seen, now)
        /\ wf'[w].token = wf[w].token /\ ConfigSame(w)
    BY <1>t, <2>1, <2>2 DEF ManualRow, WorkflowRow, ConfigSame
  <2>4. wf'[w].next # NoTime <=> Scheduled(caller[c].seen)
    BY <1>t, <2>3, NextRunWhenScheduled
  <2>5. RowByHand(w)
    BY <2>1, <2>2, <2>3, <2>4 DEF RowByHand
  <2> QED
    BY <2>2, <2>5, SameRowIsPlain DEF RowShape
<1>9. CASE UNCHANGED vars
  BY <1>1, <1>9 DEF vars
<1>10. ASSUME NEW c \in Callers, NEW w \in Workflows, NEW r \in Runs, BeginRun(c, w, r)
       PROVE  RowShape(v)
  BY <1>1, <1>10 DEF BeginRun
<1>11. CASE Next
  BY <1>1, <1>2, <1>3, <1>4, <1>5, <1>6, <1>7, <1>8, <1>10, <1>11, WritersOfRows
     DEF ClaimSome, PublishManual, FailManual
<1> QED
  BY <1>9, <1>11

LEMMA SettlingStep ==
  ASSUME IndInv, SettlingOK, [Next]_vars
  PROVE  SettlingOK'
<1>t. now \in Nat /\ worker \in [Workers -> WorkerState] /\ None \notin Runs
  BY NullIsNoRow DEF IndInv, TypeOK
<1>2. ASSUME NEW k \in Workers, worker'[k].phase = "settling",
             wf'[run'[worker'[k].run].workflow].token = worker'[k].run
      PROVE  worker'[k].next # NoTime <=> Scheduled(wf'[run'[worker'[k].run].workflow])
  <2> DEFINE r == worker[k].run
             w == run[r].workflow
  <2>1. CASE worker'[k] = worker[k] /\ worker[k].phase = "settling"
    <3>1. r \in Runs /\ w \in Workflows /\ run[r].status # "absent"
      BY <2>1, WorkingRun
    <3>2. run'[r].workflow = w
      BY <3>1, RunIdentityKept
    <3>3. wf'[w].token = r
      BY <1>2, <2>1, <3>2
    <3>4. r \notin Fresh /\ r # None
      BY <1>t, <3>1 DEF Fresh
    <3>6. RowShape(w)
      BY <3>1, RowShapes
    <3>7. worker'[k].next = worker[k].next /\ worker'[k].run = r
      BY <2>1
    <3>8. wf[w].token = r => (worker[k].next # NoTime <=> Scheduled(wf[w]))
      BY <2>1 DEF SettlingOK, Row
    <3> HIDE DEF r, w
    <3>5. wf[w].token = r /\ ConfigSame(w)
      BY <3>3, <3>4, <3>6 DEF RowShape, RowPlain, RowPlanned, RowByHand
    <3> QED
      BY <3>2, <3>5, <3>7, <3>8 DEF ConfigSame, Scheduled
  <2>2. CASE ReadForFailure(k)
    <3>1. r \in Runs /\ w \in Workflows
      BY <2>2, WorkingRun DEF ReadForFailure
    <3>0. worker[k] \in WorkerState
      BY <1>t
    <3>6. /\ worker'[k] = [worker[k] EXCEPT !.phase = "settling",
                                            !.next = NextRunAt(wf[w], now)]
          /\ wf' = wf /\ run' = run
      BY <1>t, <2>2 DEF ReadForFailure, Row
    <3>2. /\ worker'[k].run = r /\ worker'[k].next = NextRunAt(wf[w], now)
          /\ wf' = wf /\ run' = run
      BY <3>0, <3>6 DEF WorkerState
    <3> QED
      BY <1>t, <3>2, NextRunWhenScheduled
  <2> QED
    BY <1>2, <2>1, <2>2, EntersSettling
<1> QED
  BY <1>2 DEF SettlingOK, Row

LEMMA PlannedHolds ==
  ASSUME IndInv, SettlingOK, [Next]_vars
  PROVE  PlannedStep
<1> SUFFICES ASSUME NEW w \in Workflows
             PROVE  \/ Coherent(w)'
                    \/ /\ wf'[w].next = wf[w].next /\ wf'[w].kind = wf[w].kind
                       /\ wf'[w].enabled = wf[w].enabled
                       /\ wf'[w].paused = wf[w].paused
                    \/ StaleManualEnd(w)
  BY DEF PlannedStep
<1>1. CASE RowPlain(w)
  BY <1>1 DEF RowPlain, ConfigSame
<1>2. CASE RowPlanned(w)
  BY <1>2 DEF RowPlanned, Coherent, Scheduled
<1>3. CASE RowByHand(w)
  <2>1. Scheduled(wf'[w]) <=> Scheduled(wf[w])
    BY <1>3 DEF RowByHand, ConfigSame, Scheduled
  <2>2. Coherent(w)' <=> (wf'[w].next # NoTime <=> Scheduled(wf'[w]))
    BY DEF Coherent, Scheduled
  <2> QED
    BY <1>3, <2>1, <2>2 DEF RowByHand, StaleManualEnd
<1> QED
  BY <1>1, <1>2, <1>3, RowShapes DEF RowShape

LEMMA SettlingHolds == Spec => []SettlingOK
<1>1. Init => SettlingOK
  BY DEF Init, IdleWorker, SettlingOK
<1> QED
  BY <1>1, SettlingStep, SchedulerInvariant, PTL DEF Spec

\* A write leaves a row's next run and its configuration in agreement, unless it is
\* the end of a manual run that outlived a change of the configuration.
THEOREM NextRunsArePlanned == Spec => NextRunsPlanned
<1>1. IndInv /\ SettlingOK /\ [Next]_vars => [PlannedStep]_vars
  BY PlannedHolds
<1> QED
  BY <1>1, SettlingHolds, SchedulerInvariant, PTL DEF Spec, NextRunsPlanned

\* Hence a row has a next run exactly when its configuration schedules one, if no
\* workflow is run by hand.
THEOREM NextRunsAreCoherent ==
  ASSUME Callers = {} PROVE Spec => []NextRunCoherent
<1>1. Init => NextRunCoherent
  <2> SUFFICES ASSUME Init, NEW w \in Workflows PROVE Coherent(w)
    BY DEF NextRunCoherent
  <2>1. wf[w] = InitialRow(TRUE) \/ wf[w] = InitialRow(FALSE)
    BY DEF Init
  <2> QED
    BY <2>1, NextSlotLater DEF InitialRow, Coherent, Scheduled, NoTime
<1>2. NextRunCoherent /\ [PlannedStep]_vars => NextRunCoherent'
  <2>1. ASSUME NextRunCoherent, PlannedStep, NEW w \in Workflows PROVE Coherent(w)'
    <3>1. ~StaleManualEnd(w)
      BY DEF StaleManualEnd
    <3> QED
      BY <2>1, <3>1 DEF PlannedStep, NextRunCoherent, Coherent, Scheduled
  <2>2. ASSUME NextRunCoherent, UNCHANGED vars PROVE NextRunCoherent'
    BY <2>2 DEF NextRunCoherent, Coherent, Scheduled, vars
  <2> QED
    BY <2>1, <2>2 DEF NextRunCoherent
<1> QED
  BY <1>1, <1>2, NextRunsArePlanned, PTL DEF Spec, NextRunsPlanned

=============================================================================

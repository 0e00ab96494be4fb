----------------------- MODULE SchedulerClaimsProofs -----------------------
(***************************************************************************)
(* Safety of the durable scheduler for every set of workflows, workers,    *)
(* callers, administrators and runs, and for every lease, period and bound.*)
(* IndInv (SchedulerClaims) is inductive; the lemmas below show, conjunct  *)
(* by conjunct, that every step keeps it.                                  *)
(***************************************************************************)
EXTENDS SchedulerClaims, TLAPS

-----------------------------------------------------------------------------
\* Slots

\* The local clock shows a time, and the slot chosen on it is one it has yet to show.
LEMMA SlotOnTheClock ==
  ASSUME NEW t \in Nat
  PROVE  /\ LocalTime(t) \in Nat
         /\ ((LocalTime(t) \div Period) + 1) * Period \in Nat
         /\ LocalTime(t) < ((LocalTime(t) \div Period) + 1) * Period
<1>1. LocalTime(t) \in Nat
  BY BoundsAreNaturals DEF LocalTime
<1>2. \A n \in Nat : /\ ((n \div Period) + 1) * Period \in Nat
                     /\ n < ((n \div Period) + 1) * Period
  BY BoundsAreNaturals
<1> QED
  BY <1>1, <1>2

\* The instant of a slot the clock has yet to show is yet to come, unless the
\* clock is in the hour it shows for the second time and the slot is too.
LEMMA NextSlotLater ==
  ASSUME NEW t \in Nat
  PROVE  /\ NextSlot(t) \in Nat
         /\ \/ t < NextSlot(t)
            \/ Repeated(NextSlot(t)) /\ ChangeAt <= t /\ t < ChangeAt + SetBack
<1> DEFINE x == ((LocalTime(t) \div Period) + 1) * Period
<1>1. x \in Nat /\ LocalTime(t) < x
  BY SlotOnTheClock
<1>2. NextSlot(t) = Instant(x)
  BY DEF NextSlot
<1> HIDE DEF x
<1>3. Instant(x) \in Nat
  BY <1>1, BoundsAreNaturals DEF Instant
<1>4. CASE t < ChangeAt
  BY <1>1, <1>2, <1>3, <1>4, BoundsAreNaturals DEF LocalTime, Instant
<1>5. CASE ~(t < ChangeAt)
  BY <1>1, <1>2, <1>3, <1>5, BoundsAreNaturals DEF LocalTime, Instant, Repeated
<1> QED
  BY <1>2, <1>3, <1>4, <1>5

\* A computed next run is NULL or a time, later than the instant it is computed at
\* or in the repeated hour.
LEMMA NextRunAhead ==
  ASSUME NEW t \in Nat, NEW c
  PROVE  /\ NextRunAt(c, t) \in Times
         /\ NextRunAt(c, t) # NoTime => Ahead(NextRunAt(c, t), t)
  BY NextSlotLater DEF NextRunAt, Times, NoTime, Ahead

\* What lies ahead of a time lies ahead of all earlier ones.
LEMMA AheadOfEarlier ==
  ASSUME NEW s \in Int, NEW t \in Int, NEW x \in Int, s <= t, Ahead(x, t)
  PROVE  Ahead(x, s)
  BY DEF Ahead

-----------------------------------------------------------------------------
\* Type correctness

LEMMA InitTyped == Init => TypeOK
<1> SUFFICES ASSUME Init PROVE TypeOK
  OBVIOUS
<1> USE DEF Init, Times, NoTime
<1>1. wf \in [Workflows -> WorkflowRow]
  <2>1. /\ InitialRow(TRUE) \in WorkflowRow
        /\ InitialRow(FALSE) \in WorkflowRow
    BY NextSlotLater DEF InitialRow, WorkflowRow, Kinds
  <2> QED
    BY <2>1
<1>2. run \in [Runs -> RunRow]
  BY DEF NoRow, RunRow, Statuses
<1>3. worker \in [Workers -> WorkerState]
  BY DEF IdleWorker, WorkerState, Phases
<1>4. caller \in [Callers -> CallerState]
  BY DEF IdleCaller, CallerState
<1>5. admin \in [Admins -> AdminState]
  BY DEF IdleAdmin, AdminState
<1> QED
  BY <1>1, <1>2, <1>3, <1>4, <1>5 DEF TypeOK

\* A worker that is past its claim works for an existing run of a workflow.
LEMMA WorkingRun ==
  ASSUME IndInv, NEW k \in Workers,
         worker[k].phase \in {"executing", "executed", "publishing", "failing", "settling"}
  PROVE  /\ worker[k].run \in Runs
         /\ IsClaimed(worker[k].run)
         /\ run[worker[k].run].status # "absent"
         /\ run[worker[k].run].workflow \in Workflows
         /\ worker[k].left \in Nat /\ worker[k].left > 0
<1>1. Working(k)
  BY DEF Working, Phases
<1>2. /\ worker[k].run \in Runs /\ IsClaimed(worker[k].run) /\ worker[k].left > 0
  BY <1>1 DEF IndInv, WorkersOK
<1>3. run[worker[k].run].status # "absent" /\ run[worker[k].run].workflow # None
  BY <1>2 DEF IndInv, RunsOK
<1>4. run[worker[k].run] \in RunRow /\ worker[k] \in WorkerState
  BY <1>2 DEF IndInv, TypeOK
<1> QED
  BY <1>2, <1>3, <1>4 DEF RunRow, WorkerState

\* The rows a settlement writes are rows.
LEMMA SettledRunTyped ==
  ASSUME TypeOK, NEW r \in Runs, NEW o \in Statuses
  PROVE  SettledRun(r, o) \in RunRow
<1>1. run[r] \in RunRow
  BY DEF TypeOK
<1> QED
  BY <1>1 DEF SettledRun, RunRow, Times, NoTime

LEMMA SettledWorkflowTyped ==
  ASSUME TypeOK, NEW r \in Runs, NEW w \in Workflows, NEW o \in Statuses, NEW n \in Times
  PROVE  SettledWorkflow(w, r, o, n) \in WorkflowRow
<1>1. wf[w] \in WorkflowRow
  BY DEF TypeOK
<1> QED
  BY <1>1 DEF SettledWorkflow, WorkflowRow, Times, NoTime

\* A due scan keeps its own state and the two tables well typed.
LEMMA ScanTyped ==
  ASSUME IndInv, NEW k \in Workers, WorkerStep(k) \/ HeartbeatStep(k) \/ Crash(k)
  PROVE  TypeOK'
<1> DEFINE r == worker[k].run
           w == run[r].workflow
<1>0. TypeOK
  BY DEF IndInv
<1>a. worker[k] \in WorkerState /\ now \in Nat
  BY <1>0 DEF TypeOK
<1>b. ASSUME worker[k].phase \in {"executing", "executed", "publishing", "failing", "settling"}
      PROVE  r \in Runs /\ w \in Workflows /\ worker[k].left \in Nat /\ worker[k].left > 0
  BY <1>b, WorkingRun
<1>c. now + Lease \in Times
  BY <1>a, BoundsAreNaturals DEF Times
<1>1. CASE StartScan(k)
  BY <1>0, <1>a, <1>1, BoundsAreNaturals
  DEF TypeOK, StartScan, IdleWorker, WorkerState, Phases, Times, NoTime
<1>2. CASE Reap(k)
  <2>1. Expired(worker[k].checked) \subseteq Runs
    BY DEF Expired
  <2>2. \A s \in Runs : SettledRun(s, "failed") \in RunRow
    BY <1>0, SettledRunTyped DEF Statuses
  <2>3. run' \in [Runs -> RunRow]
    BY <1>0, <1>2, <2>2 DEF TypeOK, Reap, ReapedRuns
  <2>4. \A v \in Workflows : wf[v].next \in Times /\ wf[v] \in WorkflowRow
    BY <1>0 DEF TypeOK, WorkflowRow
  <2>5. \A v \in Workflows, s \in Runs :
          SettledWorkflow(v, s, "failed", wf[v].next) \in WorkflowRow
    BY <1>0, <2>4, SettledWorkflowTyped DEF Statuses
  <2>6. wf' \in [Workflows -> WorkflowRow]
    BY <1>0, <1>2, <2>1, <2>4, <2>5 DEF Reap, ReapedWorkflows
  <2>7. worker' \in [Workers -> WorkerState]
    BY <1>0, <1>2 DEF TypeOK, Reap, WorkerState, Phases
  <2> QED
    BY <1>0, <1>2, <2>3, <2>6, <2>7 DEF TypeOK, Reap
<1>3. CASE ClaimSome(k)
  <2> PICK v \in Workflows, s \in Runs : Claim(k, v, s)
    BY <1>3 DEF ClaimSome
  <2>1. wf[v] \in WorkflowRow
    BY <1>0 DEF TypeOK
  <2>2. ClaimedRow(v, s) \in WorkflowRow
    <3>1. wf[v].version + 1 \in Nat
      BY <2>1 DEF WorkflowRow
    <3>2. \A n \in Nat, e \in Times :
            [wf[v] EXCEPT !.token = s, !.version = n, !.expires = e] \in WorkflowRow
      BY <2>1 DEF WorkflowRow
    <3> QED
      BY <1>c, <3>1, <3>2 DEF ClaimedRow
  <2>3. [status |-> "started", workflow |-> v, token |-> s,
         version |-> ClaimedRow(v, s).version, expires |-> now + Lease,
         slot |-> wf[v].next] \in RunRow
    BY <1>c, <2>1, <2>2 DEF RunRow, Statuses, WorkflowRow
  <2>4. run' \in [Runs -> RunRow]
    BY <1>0, <2>3 DEF TypeOK, Claim
  <2>5. [worker[k] EXCEPT !.phase = "executing", !.run = s, !.fenced = TRUE] \in WorkerState
    BY <1>a DEF WorkerState, Phases
  <2> QED
    BY <1>0, <2>2, <2>4, <2>5 DEF TypeOK, Claim
<1>4. CASE EndScan(k)
  BY <1>0, <1>a, <1>4 DEF TypeOK, EndScan, IdleWorker, WorkerState, Phases, Times, NoTime
<1>5. CASE Execute(k)
  BY <1>0, <1>a, <1>5 DEF TypeOK, Execute, WorkerState, Phases
<1>6. CASE LockForPublish(k)
  <2>0. w \in Workflows
    BY <1>6, <1>b DEF LockForPublish
  <2>1. [worker[k] EXCEPT !.phase = "publishing", !.since = now] \in WorkerState
    BY <1>a DEF WorkerState, Phases
  <2>2. [worker[k] EXCEPT !.phase = "failing"] \in WorkerState
    BY <1>a DEF WorkerState, Phases
  <2> QED
    BY <1>0, <1>6, <2>0, <2>1, <2>2 DEF TypeOK, LockForPublish
<1>d. ASSUME worker[k].phase \in {"publishing", "settling"}, BackToClaiming(k)
      PROVE  worker' \in [Workers -> WorkerState]
  <2>1. worker[k].left - 1 \in Nat
    BY <1>b, <1>d
  <2>2. [worker[k] EXCEPT !.phase = "claiming", !.left = worker[k].left - 1, !.run = None,
           !.fenced = FALSE, !.since = 0, !.next = NoTime] \in WorkerState
    BY <1>a, <2>1 DEF WorkerState, Phases, Times, NoTime
  <2>3. worker' = [worker EXCEPT ![k] = [worker[k] EXCEPT !.phase = "claiming",
           !.left = worker[k].left - 1, !.run = None, !.fenced = FALSE,
           !.since = 0, !.next = NoTime]]
    BY <1>d DEF BackToClaiming
  <2> QED
    BY <1>0, <2>2, <2>3 DEF TypeOK
<1>7. CASE CommitPublish(k)
  <2>0. r \in Runs /\ w \in Workflows
    BY <1>7, <1>b DEF CommitPublish
  <2>1. PICK t \in worker[k].since .. now :
          wf' = [wf EXCEPT ![w] = SettledWorkflow(w, r, "succeeded", NextRunAt(wf[w], t))]
    BY <1>7 DEF CommitPublish
  <2>2. NextRunAt(wf[w], t) \in Times
    BY <1>a, NextRunAhead DEF WorkerState
  <2>3. /\ SettledRun(r, "succeeded") \in RunRow
        /\ SettledWorkflow(w, r, "succeeded", NextRunAt(wf[w], t)) \in WorkflowRow
    BY <1>0, <2>0, <2>2, SettledRunTyped, SettledWorkflowTyped DEF Statuses
  <2>4. wf' \in [Workflows -> WorkflowRow]
    BY <1>0, <2>1, <2>3 DEF TypeOK
  <2>5. worker' \in [Workers -> WorkerState]
    BY <1>7, <1>d DEF CommitPublish
  <2> QED
    BY <1>0, <1>7, <2>0, <2>3, <2>4, <2>5 DEF TypeOK, CommitPublish
<1>8. CASE AbortPublish(k)
  BY <1>0, <1>a, <1>8 DEF TypeOK, AbortPublish, WorkerState, Phases
<1>9. CASE ReadForFailure(k)
  <2>1. NextRunAt(wf[Row(k).workflow], now) \in Times
    BY <1>a, NextRunAhead
  <2>2. [worker[k] EXCEPT !.phase = "settling",
                          !.next = NextRunAt(wf[Row(k).workflow], now)] \in WorkerState
    BY <1>a, <2>1 DEF WorkerState, Phases
  <2> QED
    BY <1>0, <1>9, <2>2 DEF TypeOK, ReadForFailure
<1>10. CASE SettleFailed(k)
  <2>0. r \in Runs /\ w \in Workflows
    BY <1>10, <1>b DEF SettleFailed
  <2>1. worker[k].next \in Times
    BY <1>a DEF WorkerState
  <2>2. /\ SettledRun(r, "failed") \in RunRow
        /\ SettledWorkflow(w, r, "failed", worker[k].next) \in WorkflowRow
    BY <1>0, <2>0, <2>1, SettledRunTyped, SettledWorkflowTyped DEF Statuses
  <2>3. worker' \in [Workers -> WorkerState]
    BY <1>10, <1>d DEF SettleFailed
  <2> QED
    BY <1>0, <1>10, <2>2, <2>3 DEF TypeOK, SettleFailed
<1>11. CASE Heartbeat(k)
  <2>1. [run[r] EXCEPT !.expires = now + Lease] \in RunRow
    BY <1>0, <1>b, <1>c, <1>11 DEF TypeOK, Heartbeat, RunRow
  <2>2. \A e \in Times : [wf[w] EXCEPT !.expires = e] \in WorkflowRow
    <3>1. wf[w] \in WorkflowRow
      BY <1>0, <1>b, <1>11 DEF TypeOK, Heartbeat
    <3> QED
      BY <3>1 DEF WorkflowRow
  <2> QED
    BY <1>0, <1>c, <1>11, <2>1, <2>2 DEF TypeOK, Heartbeat
<1>12. CASE HeartbeatLost(k)
  BY <1>0, <1>a, <1>12 DEF TypeOK, HeartbeatLost, WorkerState
<1>13. CASE Crash(k)
  BY <1>0, <1>a, <1>13 DEF TypeOK, Crash, IdleWorker, WorkerState, Phases, Times, NoTime
<1> QED
  BY <1>1, <1>2, <1>3, <1>4, <1>5, <1>6, <1>7, <1>8, <1>9, <1>10, <1>11, <1>12,
     <1>13 DEF WorkerStep, HeartbeatStep

\* So do manual runs, configuration requests and the clock.
LEMMA RequestTyped ==
  ASSUME IndInv,
         \/ \E c \in Callers : CallerStep(c)
         \/ \E a \in Admins : AdminStep(a)
         \/ Tick
  PROVE  TypeOK'
<1>0. TypeOK
  BY DEF IndInv
<1>1. ASSUME NEW c \in Callers, NEW w \in Workflows, NEW r \in Runs, BeginRun(c, w, r)
      PROVE  TypeOK'
  <2>1. [NoRow EXCEPT !.status = "started", !.workflow = w] \in RunRow
    BY DEF NoRow, RunRow, Statuses, Times, NoTime
  <2>2. [enabled |-> wf[w].enabled, paused |-> wf[w].paused, kind |-> wf[w].kind] \in Config
    BY <1>0 DEF TypeOK, WorkflowRow, Config
  <2> QED
    BY <1>0, <1>1, <2>1, <2>2 DEF TypeOK, BeginRun, CallerState
<1>2. ASSUME NEW c \in Callers, NEW o \in Statuses, FinishManual(c, o)
      PROVE  TypeOK' \/ published' \notin SUBSET Runs
  <2> DEFINE r == caller[c].run
             w == caller[c].workflow
  <2>1. r \in Runs /\ w \in Workflows
    BY <1>0, <1>2 DEF IndInv, TypeOK, CallersOK, CallerState, FinishManual
  <2>2. [run[r] EXCEPT !.status = o] \in RunRow
    BY <1>0, <2>1 DEF TypeOK, RunRow
  <2>3. NextRunAt(caller[c].seen, now) \in Times
    BY <1>0, NextRunAhead DEF TypeOK
  <2>4. ManualRow(c, o) \in WorkflowRow
    <3>1. wf[w] \in WorkflowRow
      BY <1>0, <2>1 DEF TypeOK
    <3>2. \A n \in Times :
            [wf[w] EXCEPT !.last = r, !.result = o, !.next = n] \in WorkflowRow
      BY <2>1, <3>1 DEF WorkflowRow
    <3> QED
      BY <2>3, <3>2 DEF ManualRow
  <2>5. caller' \in [Callers -> CallerState]
    BY <1>0, <1>2 DEF TypeOK, FinishManual, IdleCaller, CallerState
  <2> QED
    BY <1>0, <1>2, <2>2, <2>4, <2>5 DEF TypeOK, FinishManual
<1>3. ASSUME NEW c \in Callers, PublishManual(c) \/ FailManual(c) \/ AbandonManual(c)
      PROVE  TypeOK'
  <2>1. CASE PublishManual(c)
    <3>1. caller[c].run \in Runs
      BY <1>0, <2>1 DEF TypeOK, PublishManual, FinishManual, CallerState
    <3> QED
      BY <1>0, <1>2, <2>1, <3>1 DEF TypeOK, PublishManual, Statuses
  <2>2. CASE FailManual(c)
    BY <1>0, <1>2, <2>2 DEF TypeOK, FailManual, Statuses
  <2>3. CASE AbandonManual(c)
    BY <1>0, <2>3 DEF TypeOK, AbandonManual, IdleCaller, CallerState
  <2> QED
    BY <1>3, <2>1, <2>2, <2>3
<1>4. ASSUME NEW a \in Admins, NEW W \in SUBSET Workflows, NEW q \in Requests, ReadConfig(a, W, q)
      PROVE  TypeOK'
  <2>1. [w \in W |-> [enabled |-> wf[w].enabled, paused |-> wf[w].paused,
                      kind |-> wf[w].kind]] \in [W -> Config]
    BY <1>0 DEF TypeOK, WorkflowRow, Config
  <2>2. [targets |-> W, asked |-> q,
         seen |-> [w \in W |-> [enabled |-> wf[w].enabled, paused |-> wf[w].paused,
                                kind |-> wf[w].kind]]] \in AdminState
    BY <2>1 DEF AdminState
  <2> QED
    BY <1>0, <1>4, <2>2 DEF TypeOK, ReadConfig
<1>5. ASSUME NEW a \in Admins, WriteConfig(a)
      PROVE  TypeOK'
  <2>1. ASSUME NEW w \in admin[a].targets
        PROVE  NewConfig(a, w) \in Config
    <3>1. admin[a].seen[w] \in Config /\ admin[a].asked \in Request
      BY <2>1, RequestsTyped DEF IndInv, AdminsOK
    <3> QED
      BY <3>1 DEF NewConfig, Asked, Config, Request
  <2>2. \A w \in Workflows : wf[w] \in WorkflowRow
    BY <1>0 DEF TypeOK
  <2>3. ASSUME NEW w \in Workflows, NEW c \in Config
        PROVE  Configured(w, c) \in WorkflowRow
    <3>1. NextRunAt(c, now) \in Times
      BY <1>0, NextRunAhead DEF TypeOK
    <3>2. wf[w].version + 1 \in Nat
      BY <2>2 DEF WorkflowRow
    <3>3. \A n \in Times, v \in Nat, e \in Times :
            [wf[w] EXCEPT !.enabled = c.enabled, !.paused = c.paused,
               !.kind = c.kind, !.next = n, !.token = None,
               !.version = v, !.expires = e] \in WorkflowRow
      BY <2>2 DEF WorkflowRow, Config
    <3>4. NoTime \in Times
      BY DEF Times
    <3> QED
      BY <3>1, <3>2, <3>3, <3>4 DEF Configured
  <2>4. wf' \in [Workflows -> WorkflowRow]
    BY <1>5, <2>1, <2>2, <2>3 DEF WriteConfig
  <2>5. IdleAdmin \in AdminState
    BY DEF IdleAdmin, AdminState
  <2> QED
    BY <1>0, <1>5, <2>4, <2>5 DEF TypeOK, WriteConfig
<1>6. CASE Tick
  BY <1>0, <1>6 DEF TypeOK, Tick
<1> QED
  BY <1>1, <1>3, <1>4, <1>5, <1>6 DEF CallerStep, AdminStep

-----------------------------------------------------------------------------
\* The two tables

\* Who writes the rows, and who only moves its own state or the clock.
LEMMA WritersOfRows ==
  ASSUME Next
  PROVE  \/ UNCHANGED <<wf, run, published>>
         \/ \E k \in Workers : Reap(k) \/ ClaimSome(k) \/ CommitPublish(k)
                               \/ SettleFailed(k) \/ Heartbeat(k)
         \/ \E c \in Callers : \/ \E w \in Workflows, r \in Runs : BeginRun(c, w, r)
                               \/ PublishManual(c) \/ FailManual(c)
         \/ \E a \in Admins : WriteConfig(a)
  BY DEF Next, WorkerStep, HeartbeatStep, CallerStep, AdminStep, StartScan, EndScan,
    Execute, LockForPublish, AbortPublish, ReadForFailure, HeartbeatLost, Crash,
    AbandonManual, ReadConfig, Tick

\* Only requests change what is known of a request, and only publications and
\* manual runs change the domain tables.
LEMMA WritersOfCallers ==
  ASSUME [Next]_vars
  PROVE  \/ \E k \in Workers : CommitPublish(k) /\ UNCHANGED caller
         \/ \E c \in Callers : CallerStep(c)
         \/ UNCHANGED <<published, caller>>
<1>1. ASSUME NEW k \in Workers, WorkerStep(k)
      PROVE  (CommitPublish(k) /\ UNCHANGED caller) \/ UNCHANGED <<published, caller>>
  <2>1. CASE StartScan(k) \/ Reap(k) \/ EndScan(k)
    BY <2>1 DEF StartScan, Reap, EndScan
  <2>2. CASE ClaimSome(k)
    BY <2>2 DEF ClaimSome, Claim
  <2>3. CASE Execute(k) \/ LockForPublish(k) \/ AbortPublish(k)
    BY <2>3 DEF Execute, LockForPublish, AbortPublish
  <2>4. CASE ReadForFailure(k) \/ SettleFailed(k)
    BY <2>4 DEF ReadForFailure, SettleFailed
  <2>5. CASE CommitPublish(k)
    BY <2>5 DEF CommitPublish
  <2> QED
    BY <1>1, <2>1, <2>2, <2>3, <2>4, <2>5 DEF WorkerStep
<1>2. ASSUME NEW k \in Workers, HeartbeatStep(k) \/ Crash(k)
      PROVE  UNCHANGED <<published, caller>>
  BY <1>2 DEF HeartbeatStep, Heartbeat, HeartbeatLost, Crash
<1>3. ASSUME NEW a \in Admins, AdminStep(a)
      PROVE  UNCHANGED <<published, caller>>
  BY <1>3 DEF AdminStep, ReadConfig, WriteConfig
<1>4. CASE Tick \/ UNCHANGED vars
  BY <1>4 DEF Tick, vars
<1> QED
  BY <1>1, <1>2, <1>3, <1>4 DEF Next

\* What a live fence tells about the two rows.
LEMMA LiveFence ==
  ASSUME IndInv, NEW r \in Runs, Live(r)
  PROVE  /\ run[r].status = "started" /\ run[r].token = r /\ IsClaimed(r)
         /\ run[r].workflow \in Workflows /\ wf[run[r].workflow].token = r
<1>1. /\ run[r].status = "started" /\ run[r].token = r
      /\ wf[run[r].workflow].token = r
  BY DEF Live
<1>2. run[r] \in RunRow /\ r # None
  BY NullIsNoRow DEF IndInv, TypeOK
<1>3. IsClaimed(r) /\ run[r].workflow # None
  BY <1>1, <1>2 DEF IndInv, RunsOK
<1> QED
  BY <1>1, <1>2, <1>3 DEF RunRow

\* The clock never runs backwards.
LEMMA ClockAdvances ==
  ASSUME IndInv, [Next]_vars
  PROVE  now \in Nat /\ now' \in Nat /\ now <= now'
<1>1. now \in Nat
  BY DEF IndInv, TypeOK
<1>2. ASSUME NEW k \in Workers, WorkerStep(k) \/ HeartbeatStep(k) \/ Crash(k)
      PROVE  now' = now
  BY <1>2, Zenon DEF WorkerStep, HeartbeatStep, StartScan, EndScan, Execute, LockForPublish,
    AbortPublish, ReadForFailure, HeartbeatLost, Crash, Reap, ClaimSome, Claim,
    CommitPublish, SettleFailed, Heartbeat
<1>3. ASSUME NEW c \in Callers, CallerStep(c)
      PROVE  now' = now
  BY <1>3, Zenon DEF CallerStep, BeginRun, PublishManual, FailManual, FinishManual, AbandonManual
<1>4. ASSUME NEW a \in Admins, AdminStep(a)
      PROVE  now' = now
  BY <1>4, Zenon DEF AdminStep, ReadConfig, WriteConfig
<1>5. now' = now \/ now' = now + 1
  BY <1>2, <1>3, <1>4 DEF Next, Tick, vars
<1> QED
  BY <1>1, <1>5

\* What one run can become in one step.
RunKept(r)     == run'[r] = run[r]
RunFinished(r) == /\ run[r].status = "started" /\ run[r].token # None
                  /\ \/ run'[r] = SettledRun(r, "failed")
                     \/ /\ run'[r] = SettledRun(r, "succeeded")
                        /\ \E k \in Workers : CommitPublish(k) /\ worker[k].run = r
RunRenewed(r)  == /\ run[r].token = r
                  /\ \E e \in Times : run'[r] = [run[r] EXCEPT !.expires = e]
RunClaimed(r)  == /\ run[r].status = "absent"
                  /\ \E w \in Workflows, v \in Nat, e \in Times, s \in Times :
                       /\ s # NoTime /\ s <= now
                       /\ run'[r] = [status |-> "started", workflow |-> w, token |-> r,
                                     version |-> v, expires |-> e, slot |-> s]
RunBegun(r)    == /\ run[r].status = "absent"
                  /\ \E w \in Workflows :
                       run'[r] = [NoRow EXCEPT !.status = "started", !.workflow = w]
RunEnded(r)    == /\ run[r].status = "started" /\ run[r].token = None
                  /\ \E c \in Callers : caller[c].run = r /\ caller'[c].run = None
                  /\ \E o \in {"succeeded", "failed"} :
                       run'[r] = [run[r] EXCEPT !.status = o]

\* Every step treats every run in one of these ways.
LEMMA RunSteps ==
  ASSUME IndInv, [Next]_vars
  PROVE  \A r \in Runs :
           \/ RunKept(r) \/ RunRenewed(r) \/ RunClaimed(r)
           \/ RunBegun(r) \/ RunEnded(r) \/ RunFinished(r)
<1>0. TypeOK
  BY DEF IndInv
<1> USE DEF RunKept
<1>1. CASE UNCHANGED <<wf, run, published>>
  BY <1>1
<1>2. ASSUME NEW k \in Workers, Reap(k)
      PROVE  \A r \in Runs : RunKept(r) \/ RunFinished(r)
  BY <1>0, <1>2 DEF Reap, ReapedRuns, Expired, RunFinished
<1>3. ASSUME NEW k \in Workers, ClaimSome(k)
      PROVE  \A r \in Runs : RunKept(r) \/ RunClaimed(r)
  <2>1. PICK w \in Workflows, r \in Runs : Claim(k, w, r)
    BY <1>3 DEF ClaimSome
  <2>2. wf[w] \in WorkflowRow /\ now \in Nat /\ worker[k].checked <= now
    BY <1>0 DEF TypeOK, IndInv, WorkersOK
  <2>3. ClaimedRow(w, r).version = wf[w].version + 1
    BY <2>2 DEF ClaimedRow, WorkflowRow
  <2>4. wf[w].version + 1 \in Nat /\ now + Lease \in Times
    BY <2>2, BoundsAreNaturals DEF WorkflowRow, Times
  <2>5. wf[w].next \in Times /\ wf[w].next # NoTime /\ wf[w].next <= now
    BY <2>1, <2>2, <1>0 DEF Claim, Claimable, Due, WorkflowRow, Times, NoTime, TypeOK, WorkerState
  <2>6. run[r].status = "absent" /\ \A s \in Runs : s # r => RunKept(s)
    BY <1>0, <2>1 DEF Claim, Fresh, TypeOK
  <2>7. run'[r] = [status |-> "started", workflow |-> w, token |-> r,
                   version |-> wf[w].version + 1, expires |-> now + Lease, slot |-> wf[w].next]
    BY <1>0, <2>1, <2>3 DEF Claim, TypeOK
  <2>8. RunClaimed(r)
    BY <2>4, <2>5, <2>6, <2>7 DEF RunClaimed
  <2> QED
    BY <2>6, <2>8
<1>4. ASSUME NEW k \in Workers, CommitPublish(k) \/ SettleFailed(k) \/ Heartbeat(k)
      PROVE  \A r \in Runs : RunKept(r) \/ RunRenewed(r)
                             \/ RunFinished(r)
  <2>0. worker[k].run \in Runs
    BY <1>4, WorkingRun DEF CommitPublish, SettleFailed, Heartbeat
  <2>1. CASE CommitPublish(k)
    <3>1. /\ run' = [run EXCEPT ![worker[k].run] = SettledRun(worker[k].run, "succeeded")]
          /\ Live(worker[k].run)
      BY <2>1 DEF CommitPublish
    <3> QED
      BY <1>0, <2>0, <2>1, <3>1, NullIsNoRow DEF Live, TypeOK, RunFinished
  <2>2. CASE SettleFailed(k)
    BY <1>0, <2>0, <2>2, NullIsNoRow DEF SettleFailed, Live, TypeOK, RunFinished
  <2>3. CASE Heartbeat(k)
    <3>1. now + Lease \in Times
      BY <1>0, BoundsAreNaturals DEF Times, TypeOK
    <3>2. run[worker[k].run].token = worker[k].run
      BY <2>0, <2>3 DEF Heartbeat, Live
    <3> QED
      BY <1>0, <2>0, <2>3, <3>1, <3>2 DEF Heartbeat, TypeOK, RunRenewed
  <2> QED
    BY <1>4, <2>1, <2>2, <2>3
<1>5. ASSUME NEW c \in Callers, NEW w \in Workflows, NEW s \in Runs, BeginRun(c, w, s)
      PROVE  \A r \in Runs : RunKept(r) \/ RunBegun(r)
  BY <1>0, <1>5 DEF BeginRun, Fresh, TypeOK, RunBegun
<1>6. ASSUME NEW c \in Callers, PublishManual(c) \/ FailManual(c)
      PROVE  \A r \in Runs : RunKept(r) \/ RunEnded(r)
  <2>1. caller[c].run # None
    BY <1>6 DEF PublishManual, FailManual, FinishManual
  <2>2. run[caller[c].run].status = "started" /\ run[caller[c].run].token = None
    BY <2>1 DEF IndInv, CallersOK
  <2>3. caller'[c].run = None
    BY <1>0, <1>6 DEF PublishManual, FailManual, FinishManual, TypeOK, IdleCaller
  <2> QED
    BY <1>0, <1>6, <2>2, <2>3 DEF PublishManual, FailManual, FinishManual, TypeOK, RunEnded
<1>7. ASSUME NEW a \in Admins, WriteConfig(a)
      PROVE  \A r \in Runs : RunKept(r)
  BY <1>7 DEF WriteConfig
<1>8. CASE UNCHANGED vars
  BY <1>8 DEF vars
<1> QED
  BY <1>1, <1>2, <1>3, <1>4, <1>5, <1>6, <1>7, <1>8, WritersOfRows

\* Rows that exist belong to a workflow, a token is the run's own, and a slot
\* that was claimed has begun.
LEMMA RunsStep ==
  ASSUME IndInv, [Next]_vars
  PROVE  RunsOK'
<1> SUFFICES ASSUME NEW r \in Runs
             PROVE  (/\ run[r].token # None => run[r].token = r /\ run[r].status = "started"
                     /\ run[r].status = "absent" <=> run[r].workflow = None
                     /\ run[r].status = "absent" => ~IsClaimed(r)
                     /\ run[r].token # None => IsClaimed(r)
                     /\ IsClaimed(r) => run[r].slot <= now)'
  BY DEF RunsOK
<1>1. run[r] \in RunRow /\ r # None /\ now \in Nat /\ now' \in Nat /\ now <= now'
  BY ClockAdvances, NullIsNoRow DEF IndInv, TypeOK
<1>2. /\ run[r].token # None => run[r].token = r /\ run[r].status = "started"
      /\ run[r].status = "absent" <=> run[r].workflow = None
      /\ run[r].status = "absent" => ~IsClaimed(r)
      /\ run[r].token # None => IsClaimed(r)
      /\ IsClaimed(r) => run[r].slot <= now
  BY DEF IndInv, RunsOK
<1> USE DEF IsClaimed, RunRow, Times, NoTime, Statuses
<1>3. CASE RunKept(r)
  BY <1>1, <1>2, <1>3 DEF RunKept
<1>4. CASE RunRenewed(r)
  BY <1>1, <1>2, <1>4 DEF RunRenewed
<1>5. CASE RunClaimed(r)
  BY <1>1, <1>5, NullIsNoRow DEF RunClaimed
<1>6. CASE RunBegun(r)
  BY <1>1, <1>6, NullIsNoRow DEF RunBegun, NoRow
<1>7. CASE RunEnded(r)
  BY <1>1, <1>2, <1>7 DEF RunEnded
<1>8. CASE RunFinished(r)
  <2>1. /\ run'[r].token = None /\ run'[r].status \in {"succeeded", "failed"}
        /\ run'[r].workflow = run[r].workflow /\ run'[r].slot = run[r].slot
    BY <1>1, <1>8 DEF RunFinished, SettledRun
  <2>2. run[r].status = "started"
    BY <1>8 DEF RunFinished
  <2> QED
    BY <1>1, <1>2, <2>1, <2>2
<1> QED
  BY <1>3, <1>4, <1>5, <1>6, <1>7, <1>8, RunSteps

\* What no step changes about a run that exists.
LEMMA RunIdentityKept ==
  ASSUME IndInv, [Next]_vars, NEW r \in Runs, run[r].status # "absent"
  PROVE  /\ run'[r].status # "absent"
         /\ run'[r].workflow = run[r].workflow
         /\ run'[r].slot = run[r].slot
         /\ run'[r].version = run[r].version
<1>1. run[r] \in RunRow
  BY DEF IndInv, TypeOK
<1>2. CASE RunKept(r)
  BY <1>2 DEF RunKept
<1>3. CASE RunRenewed(r) \/ RunEnded(r)
  BY <1>1, <1>3 DEF RunRenewed, RunEnded, RunRow
<1>4. CASE RunFinished(r)
  BY <1>1, <1>4 DEF RunFinished, SettledRun, RunRow
<1> QED
  BY <1>2, <1>3, <1>4, RunSteps DEF RunClaimed, RunBegun

\* A finished run is never reopened and its outcome never changes.
LEMMA FinishedStep ==
  ASSUME IndInv, [Next]_vars
  PROVE  FinishedStays
<1> SUFFICES ASSUME NEW r \in Runs, run[r].status \in {"succeeded", "failed"}
             PROVE  run'[r] = run[r]
  BY DEF FinishedStays
<1>1. run[r].token # r
  BY NullIsNoRow DEF IndInv, RunsOK
<1> QED
  BY <1>1, RunSteps DEF RunKept, RunRenewed, RunClaimed, RunBegun, RunEnded, RunFinished

-----------------------------------------------------------------------------
\* The actors

\* A worker's own state changes by its own steps only.
LEMMA OwnSteps ==
  ASSUME IndInv, [Next]_vars, NEW j \in Workers
  PROVE  worker'[j] = worker[j] \/ WorkerStep(j) \/ HeartbeatLost(j) \/ Crash(j)
<1>0. worker \in [Workers -> WorkerState]
  BY DEF IndInv, TypeOK
<1>1. ASSUME NEW k \in Workers, WorkerStep(k) \/ HeartbeatStep(k) \/ Crash(k), j # k
      PROVE  worker'[j] = worker[j]
  BY <1>0, <1>1 DEF WorkerStep, HeartbeatStep, StartScan, EndScan, Execute, LockForPublish,
    AbortPublish, ReadForFailure, HeartbeatLost, Crash, Reap, ClaimSome, Claim,
    CommitPublish, SettleFailed, BackToClaiming, Heartbeat
<1>2. CASE Heartbeat(j)
  BY <1>2 DEF Heartbeat
<1>3. ASSUME NEW c \in Callers, CallerStep(c)
      PROVE  worker'[j] = worker[j]
  BY <1>3 DEF CallerStep, BeginRun, PublishManual, FailManual, FinishManual, AbandonManual
<1>4. ASSUME NEW a \in Admins, AdminStep(a)
      PROVE  worker'[j] = worker[j]
  BY <1>4 DEF AdminStep, ReadConfig, WriteConfig
<1> QED
  BY <1>1, <1>2, <1>3, <1>4 DEF Next, Tick, vars, HeartbeatStep

\* What a worker remembers stays true of the rows until it acts on it.
LEMMA WorkersStep ==
  ASSUME IndInv, [Next]_vars
  PROVE  WorkersOK'
<1> SUFFICES ASSUME NEW j \in Workers
             PROVE  (/\ worker[j].checked <= now
                     /\ Working(j) => /\ worker[j].run \in Runs /\ IsClaimed(worker[j].run)
                     /\ Working(j) => worker[j].left > 0
                     /\ worker[j].phase = "publishing" => Row(j).slot <= worker[j].since)'
  BY DEF WorkersOK
<1>1. /\ worker[j].checked <= now
      /\ Working(j) => worker[j].run \in Runs /\ IsClaimed(worker[j].run)
      /\ Working(j) => worker[j].left > 0
      /\ worker[j].phase = "publishing" => Row(j).slot <= worker[j].since
  BY DEF IndInv, WorkersOK
<1>2. /\ worker \in [Workers -> WorkerState] /\ worker[j] \in WorkerState
      /\ now \in Nat /\ now' \in Nat /\ now <= now'
  BY ClockAdvances DEF IndInv, TypeOK
<1>3. ASSUME NEW r \in Runs, IsClaimed(r)
      PROVE  IsClaimed(r)' /\ run'[r].slot = run[r].slot /\ run[r].slot <= now
  BY <1>3, RunIdentityKept DEF IndInv, RunsOK, IsClaimed
<1>4. \A c \in Nat : c <= now => c <= now'
  BY <1>2
<1>5. CASE worker'[j] = worker[j]
  BY <1>1, <1>2, <1>3, <1>5 DEF Working, Row, WorkerState
<1>6. CASE StartScan(j)
  BY <1>2, <1>6 DEF StartScan, IdleWorker, Working
<1>7. CASE Reap(j)
  BY <1>1, <1>2, <1>7 DEF Reap, Working, WorkerState
<1>8. CASE ClaimSome(j)
  <2>1. PICK w \in Workflows, r \in Runs : Claim(j, w, r)
    BY <1>8 DEF ClaimSome
  <2>2. run'[r].slot = wf[w].next /\ wf[w].next # NoTime
    BY <2>1 DEF Claim, Claimable, Due, IndInv, TypeOK
  <2>3. worker'[j] = [worker[j] EXCEPT !.phase = "executing", !.run = r, !.fenced = TRUE]
    BY <1>2, <2>1 DEF Claim
  <2>4. worker[j].left > 0
    BY <2>1 DEF Claim, MayClaim
  <2> QED
    BY <1>1, <1>2, <2>1, <2>2, <2>3, <2>4 DEF Claim, WorkerState, IsClaimed
<1>9. CASE EndScan(j)
  BY <1>2, <1>9 DEF EndScan, IdleWorker, Working
<1>10. CASE Execute(j)
  BY <1>1, <1>2, <1>3, <1>10 DEF Execute, Working, WorkerState, Phases
<1>11. CASE LockForPublish(j)
  <2>1. Working(j)
    BY <1>11 DEF LockForPublish, Working, Phases
  <2>2. \/ worker'[j] = [worker[j] EXCEPT !.phase = "publishing", !.since = now]
        \/ worker'[j] = [worker[j] EXCEPT !.phase = "failing"]
    BY <1>2, <1>11 DEF LockForPublish
  <2>3. worker'[j].phase = "publishing" => worker'[j].since = now
    BY <1>2, <2>2 DEF WorkerState
  <2>4. worker'[j].run = worker[j].run /\ worker'[j].checked = worker[j].checked
        /\ worker'[j].left = worker[j].left
    BY <1>2, <2>2 DEF WorkerState
  <2> QED
    BY <1>1, <1>2, <1>3, <2>1, <2>3, <2>4 DEF Row, WorkerState
<1>12. CASE CommitPublish(j) \/ SettleFailed(j)
  <2>1. BackToClaiming(j)
    BY <1>12 DEF CommitPublish, SettleFailed
  <2> QED
    BY <1>1, <1>2, <2>1 DEF BackToClaiming, Working, WorkerState
<1>13. CASE AbortPublish(j)
  BY <1>1, <1>2, <1>3, <1>13 DEF AbortPublish, Working, WorkerState, Phases
<1>14. CASE ReadForFailure(j)
  BY <1>1, <1>2, <1>3, <1>14 DEF ReadForFailure, Working, WorkerState, Phases
<1>15. CASE HeartbeatLost(j)
  BY <1>1, <1>2, <1>3, <1>15 DEF HeartbeatLost, Working, WorkerState, Phases
<1>16. CASE Crash(j)
  BY <1>2, <1>16 DEF Crash, IdleWorker, Working
<1> QED
  BY <1>5, <1>6, <1>7, <1>8, <1>9, <1>10, <1>11, <1>12, <1>13, <1>14, <1>15, <1>16,
     OwnSteps DEF WorkerStep

\* A worker is publishing because it was or because it has just taken the locks.
LEMMA EntersPublishing ==
  ASSUME IndInv, NEW k \in Workers
  PROVE  /\ WorkerStep(k) \/ HeartbeatLost(k) \/ Crash(k)
              => worker'[k].phase # "publishing" \/ LockForPublish(k)
         /\ CommitPublish(k) \/ AbortPublish(k) => worker'[k].phase # "publishing"
<1>1. worker[k] \in WorkerState /\ worker \in [Workers -> WorkerState]
  BY DEF IndInv, TypeOK
<1> DEFINE Outside == worker'[k].phase # "publishing"
<1>2. ASSUME StartScan(k) \/ EndScan(k) \/ Crash(k) PROVE Outside
  <2>1. \/ worker'[k] = [IdleWorker EXCEPT !.phase = "reaping", !.checked = now, !.left = Limit]
        \/ worker'[k] = IdleWorker
    BY <1>1, <1>2 DEF StartScan, EndScan, Crash
  <2>2. /\ [IdleWorker EXCEPT !.phase = "reaping", !.checked = now, !.left = Limit].phase = "reaping"
        /\ IdleWorker.phase = "idle"
    BY DEF IdleWorker
  <2> QED
    BY <2>1, <2>2
<1>3. ASSUME ClaimSome(k) PROVE Outside
  BY <1>1, <1>3 DEF ClaimSome, Claim, WorkerState
<1>4. ASSUME Reap(k) \/ Execute(k) \/ AbortPublish(k) \/ ReadForFailure(k) PROVE Outside
  <2>1. CASE Reap(k)
    BY <1>1, <2>1 DEF Reap, WorkerState
  <2>2. CASE Execute(k)
    BY <1>1, <2>2 DEF Execute, WorkerState
  <2>3. CASE AbortPublish(k) \/ ReadForFailure(k)
    BY <1>1, <2>3 DEF AbortPublish, ReadForFailure, WorkerState
  <2> QED
    BY <1>4, <2>1, <2>2, <2>3
<1>5. ASSUME CommitPublish(k) \/ SettleFailed(k) PROVE Outside
  BY <1>1, <1>5 DEF CommitPublish, SettleFailed, BackToClaiming, WorkerState
<1>6. ASSUME HeartbeatLost(k) PROVE Outside
  BY <1>1, <1>6 DEF HeartbeatLost, WorkerState
<1> QED
  BY <1>2, <1>3, <1>4, <1>5, <1>6 DEF WorkerStep

\* The row locks change only when a publication opens or ends.
LEMMA LockWriters ==
  ASSUME IndInv, [Next]_vars
  PROVE  \/ UNCHANGED locked
         \/ \E k \in Workers : LockForPublish(k) \/ CommitPublish(k) \/ AbortPublish(k) \/ Crash(k)
  BY DEF Next, vars, WorkerStep, HeartbeatStep, CallerStep, AdminStep, StartScan, EndScan,
    Execute, ReadForFailure, HeartbeatLost, Reap, ClaimSome, Claim, SettleFailed, Heartbeat,
    BeginRun, PublishManual, FailManual, FinishManual, AbandonManual, ReadConfig, WriteConfig, Tick

\* A worker that leaves its publication, or was never in one, holds no lock.
LEMMA LocksStep ==
  ASSUME IndInv, [Next]_vars
  PROVE  LocksOK'
<1> SUFFICES ASSUME NEW w \in Workflows, locked'[w] # None
             PROVE  (worker[locked[w]].phase = "publishing" /\ Row(locked[w]).workflow = w)'
  BY DEF LocksOK
<1>1. /\ worker \in [Workers -> WorkerState]
      /\ locked \in [Workflows -> Workers \cup {None}]
      /\ None \notin Workers
  BY NullIsNoRow DEF IndInv, TypeOK
<1>2. \A v \in Workflows : locked[v] # None =>
        /\ locked[v] \in Workers
        /\ worker[locked[v]].phase = "publishing" /\ Row(locked[v]).workflow = v
  BY <1>1 DEF IndInv, LocksOK
<1>3. ASSUME NEW k \in Workers, worker[k].phase = "publishing"
      PROVE  /\ worker[k].run \in Runs
             /\ run'[worker[k].run].workflow = run[worker[k].run].workflow
  BY <1>3, WorkingRun, RunIdentityKept
<1>4. CASE UNCHANGED locked
  <2> DEFINE k == locked[w]
  <2>1. k \in Workers /\ worker[k].phase = "publishing" /\ Row(k).workflow = w
    BY <1>2, <1>4
  <2>2. worker'[k] = worker[k] \/ CommitPublish(k) \/ AbortPublish(k) \/ Crash(k)
    BY <2>1, OwnSteps DEF WorkerStep, StartScan, EndScan, Execute, LockForPublish,
      ReadForFailure, HeartbeatLost, Reap, ClaimSome, Claim, MayClaim, SettleFailed
  <2>3. ~(CommitPublish(k) \/ AbortPublish(k) \/ Crash(k))
    BY <1>1, <1>4, <2>1 DEF CommitPublish, AbortPublish, Crash, Row
  <2> QED
    BY <1>3, <1>4, <2>1, <2>2, <2>3 DEF Row
<1>5. ASSUME NEW k \in Workers, LockForPublish(k)
      PROVE  (worker[locked[w]].phase = "publishing" /\ Row(locked[w]).workflow = w)'
  <2> DEFINE v == run[worker[k].run].workflow
  <2>0. /\ worker[k].phase = "executed" /\ v \in Workflows
        /\ UNCHANGED run
    BY <1>5, WorkingRun DEF LockForPublish
  <2>1. CASE Live(worker[k].run)
    <3>1. /\ worker' = [worker EXCEPT ![k] =
               [worker[k] EXCEPT !.phase = "publishing", !.since = now]]
          /\ locked' = [locked EXCEPT ![v] = k]
      BY <1>5, <2>1 DEF LockForPublish
    <3>2. worker'[k].phase = "publishing" /\ worker'[k].run = worker[k].run
      BY <1>1, <3>1 DEF WorkerState
    <3>3. CASE w = v
      BY <1>1, <2>0, <3>1, <3>2, <3>3 DEF Row
    <3>4. CASE w # v
      <4>1. locked'[w] = locked[w] /\ locked[w] # k
        BY <1>1, <1>2, <2>0, <3>1, <3>4
      <4> QED
        BY <1>1, <1>2, <2>0, <3>1, <4>1 DEF Row
    <3> QED
      BY <3>3, <3>4
  <2>2. CASE ~Live(worker[k].run)
    <3>1. worker' = [worker EXCEPT ![k].phase = "failing"] /\ locked' = locked
      BY <1>5, <2>2 DEF LockForPublish
    <3>2. locked[w] # k
      BY <1>2, <2>0, <3>1
    <3> QED
      BY <1>1, <1>2, <2>0, <3>1, <3>2 DEF Row
  <2> QED
    BY <2>1, <2>2
<1>6. ASSUME NEW k \in Workers, CommitPublish(k) \/ AbortPublish(k)
      PROVE  (worker[locked[w]].phase = "publishing" /\ Row(locked[w]).workflow = w)'
  <2>1. /\ locked' = [locked EXCEPT ![Row(k).workflow] = None]
        /\ \A j \in Workers : j # k => worker'[j] = worker[j]
    BY <1>1, <1>6 DEF CommitPublish, AbortPublish, BackToClaiming, Row
  <2>2. locked[w] = locked'[w] /\ locked[w] # k
    BY <1>1, <1>2, <2>1
  <2> QED
    BY <1>2, <1>3, <2>1, <2>2 DEF Row
<1>7. ASSUME NEW k \in Workers, Crash(k)
      PROVE  (worker[locked[w]].phase = "publishing" /\ Row(locked[w]).workflow = w)'
  <2>1. locked'[w] = locked[w] /\ locked[w] # k
    BY <1>1, <1>7 DEF Crash
  <2> QED
    BY <1>1, <1>2, <1>7, <2>1 DEF Crash, Row
<1> QED
  BY <1>4, <1>5, <1>6, <1>7, LockWriters

\* Nobody writes a row another worker's publication has locked, and nobody but
\* that worker settles its run.
LEMMA LockedRowsKept ==
  ASSUME IndInv, [Next]_vars, NEW k \in Workers,
         worker[k].phase = "publishing", worker'[k] = worker[k]
  PROVE  wf'[Row(k).workflow] = wf[Row(k).workflow] /\ run'[worker[k].run] = run[worker[k].run]
<1> DEFINE r == worker[k].run
           w == run[r].workflow
<1>0. r \in Runs /\ w \in Workflows
  BY WorkingRun
<1>1. /\ locked[w] = k /\ wf[w].token = r /\ run[r].status = "started" /\ run[r].workflow = w
      /\ run[r].token = r /\ k # None /\ IsClaimed(r)
  BY <1>0, WorkingRun, NullIsNoRow DEF IndInv, PublisherHoldsFence, ClaimBacked, Row
<1>2. /\ wf \in [Workflows -> WorkflowRow] /\ run \in [Runs -> RunRow]
      /\ worker \in [Workers -> WorkerState] /\ None \notin Runs
  BY NullIsNoRow DEF IndInv, TypeOK
<1>3. ASSUME NEW j \in Workers, Reap(j)
      PROVE  wf'[w] = wf[w] /\ run'[r] = run[r]
  <2>1. r \notin Expired(worker[j].checked)
    BY <1>0, <1>1 DEF Expired
  <2> QED
    BY <1>0, <1>1, <1>3, <2>1 DEF Reap, ReapedRuns, ReapedWorkflows
<1>4. ASSUME NEW j \in Workers, ClaimSome(j)
      PROVE  wf'[w] = wf[w] /\ run'[r] = run[r]
  BY <1>0, <1>1, <1>2, <1>4 DEF ClaimSome, Claim, Claimable, Unlocked, Fresh
<1>5. ASSUME NEW j \in Workers, SettleFailed(j) \/ Heartbeat(j)
      PROVE  wf'[w] = wf[w] /\ run'[r] = run[r]
  <2>1. j # k
    BY <1>5 DEF SettleFailed, Heartbeat
  <2>2. run[worker[j].run].workflow # w
    BY <1>1, <1>5 DEF SettleFailed, Heartbeat, Unlocked
  <2> QED
    BY <1>0, <1>1, <1>2, <1>5, <2>2 DEF SettleFailed, Heartbeat
<1>6. ASSUME NEW j \in Workers, CommitPublish(j)
      PROVE  wf'[w] = wf[w] /\ run'[r] = run[r]
  <2>1. worker'[j].phase = "claiming"
    BY <1>2, <1>6 DEF CommitPublish, BackToClaiming, WorkerState
  <2>2. j # k
    BY <2>1
  <2>3. run[worker[j].run].workflow # w
    BY <1>1, <1>6, <2>2 DEF CommitPublish, IndInv, PublisherHoldsFence, Row
  <2> QED
    BY <1>0, <1>1, <1>2, <1>6, <2>3 DEF CommitPublish
<1>7. ASSUME NEW c \in Callers, NEW v \in Workflows, NEW s \in Runs, BeginRun(c, v, s)
      PROVE  wf'[w] = wf[w] /\ run'[r] = run[r]
  BY <1>0, <1>1, <1>2, <1>7 DEF BeginRun, Fresh
<1>8. ASSUME NEW c \in Callers, PublishManual(c) \/ FailManual(c)
      PROVE  wf'[w] = wf[w] /\ run'[r] = run[r]
  <2>1. caller[c].run # None /\ Unlocked(caller[c].workflow)
    BY <1>8 DEF PublishManual, FailManual, FinishManual
  <2>2. caller[c].run # r /\ caller[c].workflow # w
    BY <1>1, <2>1 DEF IndInv, CallersOK, Unlocked
  <2> QED
    BY <1>0, <1>2, <1>8, <2>2 DEF PublishManual, FailManual, FinishManual
<1>9. ASSUME NEW a \in Admins, WriteConfig(a)
      PROVE  wf'[w] = wf[w] /\ run'[r] = run[r]
  BY <1>0, <1>1, <1>9 DEF WriteConfig, Unlocked
<1> QED
  BY <1>3, <1>4, <1>5, <1>6, <1>7, <1>8, <1>9, WritersOfRows DEF Row, vars

\* Nobody takes a claim away from an open publication.
LEMMA PublisherStep ==
  ASSUME IndInv, [Next]_vars
  PROVE  PublisherHoldsFence'
<1> SUFFICES ASSUME NEW k \in Workers, worker'[k].phase = "publishing"
             PROVE  (/\ locked[Row(k).workflow] = k
                     /\ wf[Row(k).workflow].token = worker[k].run
                     /\ Row(k).status = "started")'
  BY DEF PublisherHoldsFence
<1>1. worker[k] \in WorkerState /\ worker \in [Workers -> WorkerState]
      /\ locked \in [Workflows -> Workers \cup {None}]
  BY DEF IndInv, TypeOK
<1>2. CASE worker'[k] = worker[k]
  <2>1. worker[k].phase = "publishing"
    BY <1>2
  <2>2. /\ wf'[Row(k).workflow] = wf[Row(k).workflow] /\ run'[worker[k].run] = run[worker[k].run]
    BY <1>2, <2>1, LockedRowsKept
  <2>3. /\ locked[Row(k).workflow] = k /\ wf[Row(k).workflow].token = worker[k].run
        /\ Row(k).status = "started" /\ Row(k).workflow \in Workflows
    BY <2>1, WorkingRun DEF IndInv, PublisherHoldsFence, Row
  <2>4. locked'[Row(k).workflow] = k
    <3>1. ASSUME NEW j \in Workers, LockForPublish(j)
          PROVE  locked'[Row(k).workflow] = k
      <4>1. run[worker[j].run].workflow # Row(k).workflow
        BY <2>3, <3>1, NullIsNoRow DEF LockForPublish, Unlocked
      <4> QED
        BY <1>1, <2>3, <3>1, <4>1 DEF LockForPublish
    <3>2. ASSUME NEW j \in Workers, CommitPublish(j) \/ AbortPublish(j)
          PROVE  locked'[Row(k).workflow] = k
      <4>1. worker[j].phase = "publishing" /\ worker'[j].phase # "publishing"
        BY <3>2, EntersPublishing DEF CommitPublish, AbortPublish, LockForPublish
      <4>2. Row(j).workflow # Row(k).workflow
        BY <2>3, <4>1 DEF IndInv, PublisherHoldsFence
      <4> QED
        BY <1>1, <2>3, <3>2, <4>2 DEF CommitPublish, AbortPublish, Row
    <3>3. ASSUME NEW j \in Workers, Crash(j)
          PROVE  locked'[Row(k).workflow] = k
      <4>1. j # k
        BY <1>1, <3>3 DEF Crash, IdleWorker
      <4> QED
        BY <2>3, <3>3, <4>1 DEF Crash
    <3> QED
      BY <2>3, <3>1, <3>2, <3>3, LockWriters
  <2> QED
    BY <1>2, <2>2, <2>3, <2>4 DEF Row
<1>3. CASE LockForPublish(k)
  <2>1. Live(worker[k].run)
    BY <1>1, <1>3 DEF LockForPublish, WorkerState
  <2>2. worker[k].run \in Runs
    BY <1>3, WorkingRun DEF LockForPublish
  <2>3. /\ run[worker[k].run].status = "started"
        /\ run[worker[k].run].workflow \in Workflows
        /\ wf[run[worker[k].run].workflow].token = worker[k].run
    BY <2>1, <2>2, LiveFence
  <2>4. /\ worker'[k] = [worker[k] EXCEPT !.phase = "publishing", !.since = now]
        /\ locked' = [locked EXCEPT ![run[worker[k].run].workflow] = k]
        /\ UNCHANGED <<wf, run>>
    BY <1>1, <1>3, <2>1 DEF LockForPublish
  <2>5. worker'[k].run = worker[k].run
    BY <1>1, <2>4 DEF WorkerState
  <2> QED
    BY <1>1, <2>3, <2>4, <2>5 DEF Row
<1> QED
  BY <1>2, <1>3, EntersPublishing, OwnSteps

\* A manual request stays the only owner of its started, unclaimed run.
LEMMA CallersStep ==
  ASSUME IndInv, [Next]_vars
  PROVE  CallersOK'
<1> SUFFICES ASSUME NEW c \in Callers, caller'[c].run # None
             PROVE  (/\ caller[c].workflow \in Workflows
                     /\ run[caller[c].run].workflow = caller[c].workflow
                     /\ run[caller[c].run].status = "started"
                     /\ run[caller[c].run].token = None
                     /\ ~IsClaimed(caller[c].run)
                     /\ \A d \in Callers : caller[d].run = caller[c].run => d = c)'
  BY DEF CallersOK
<1>0. /\ caller \in [Callers -> CallerState] /\ run \in [Runs -> RunRow]
      /\ None \notin Runs
  BY NullIsNoRow DEF IndInv, TypeOK
<1>1. \A d \in Callers : caller[d].run # None =>
        /\ caller[d].run \in Runs
        /\ caller[d].workflow \in Workflows
        /\ run[caller[d].run].workflow = caller[d].workflow
        /\ run[caller[d].run].status = "started"
        /\ run[caller[d].run].token = None
        /\ ~IsClaimed(caller[d].run)
        /\ \A e \in Callers : caller[e].run = caller[d].run => e = d
  BY <1>0 DEF IndInv, CallersOK, CallerState
\* The row of a caller that stays where it is stays, whatever the step.
<1>2. ASSUME caller'[c] = caller[c]
      PROVE  run'[caller[c].run] = run[caller[c].run]
  <2> DEFINE r == caller[c].run
  <2>1. r \in Runs /\ run[r].token = None /\ run[r].status = "started"
    BY <1>1, <1>2
  <2>2. ~(RunRenewed(r) \/ RunClaimed(r) \/ RunBegun(r) \/ RunFinished(r))
    BY <1>0, <2>1 DEF RunRenewed, RunClaimed, RunBegun, RunFinished
  <2>3. ~RunEnded(r)
    BY <1>1, <1>2 DEF RunEnded
  <2> QED
    BY <2>1, <2>2, <2>3, RunSteps DEF RunKept
<1>3. CASE UNCHANGED caller
  BY <1>1, <1>2, <1>3 DEF IsClaimed
<1>4. ASSUME NEW b \in Callers,
             \/ PublishManual(b) \/ FailManual(b) \/ AbandonManual(b)
      PROVE  \A d \in Callers : caller'[d].run # None => d # b /\ caller'[d] = caller[d]
  BY <1>0, <1>4 DEF PublishManual, FailManual, FinishManual, AbandonManual, IdleCaller
<1>5. ASSUME NEW b \in Callers, PublishManual(b) \/ FailManual(b) \/ AbandonManual(b)
      PROVE  (/\ caller[c].workflow \in Workflows
              /\ run[caller[c].run].workflow = caller[c].workflow
              /\ run[caller[c].run].status = "started"
              /\ run[caller[c].run].token = None
              /\ ~IsClaimed(caller[c].run)
              /\ \A d \in Callers : caller[d].run = caller[c].run => d = c)'
  <2>1. caller'[c] = caller[c] /\ caller[c].run # None
    BY <1>4, <1>5
  <2>2. \A d \in Callers : caller'[d].run = caller[c].run => caller'[d] = caller[d]
    BY <1>4, <1>5, <2>1
  <2> QED
    BY <1>1, <1>2, <2>1, <2>2 DEF IsClaimed
<1>6. ASSUME NEW b \in Callers, NEW w \in Workflows, NEW s \in Runs, BeginRun(b, w, s)
      PROVE  (/\ caller[c].workflow \in Workflows
              /\ run[caller[c].run].workflow = caller[c].workflow
              /\ run[caller[c].run].status = "started"
              /\ run[caller[c].run].token = None
              /\ ~IsClaimed(caller[c].run)
              /\ \A d \in Callers : caller[d].run = caller[c].run => d = c)'
  <2>1. /\ caller'[b].run = s /\ caller'[b].workflow = w
        /\ \A d \in Callers : d # b => caller'[d] = caller[d]
        /\ run'[s] = [NoRow EXCEPT !.status = "started", !.workflow = w]
        /\ run[s].status = "absent"
    BY <1>0, <1>6 DEF BeginRun, Fresh
  <2>2. \A d \in Callers : d # b => caller'[d].run # s
    BY <1>0, <1>1, <2>1
  <2>3. CASE c = b
    BY <2>1, <2>2, <2>3 DEF NoRow, IsClaimed, NoTime
  <2>4. CASE c # b
    <3>1. caller'[c] = caller[c] /\ caller[c].run # s
      BY <2>1, <2>2, <2>4
    <3> QED
      BY <1>1, <1>2, <2>1, <3>1 DEF IsClaimed
  <2> QED
    BY <2>3, <2>4
<1>7. \/ UNCHANGED caller
      \/ \E b \in Callers : \/ PublishManual(b) \/ FailManual(b) \/ AbandonManual(b)
                            \/ \E w \in Workflows, s \in Runs : BeginRun(b, w, s)
  BY WritersOfCallers DEF CallerStep
<1> QED
  BY <1>3, <1>5, <1>6, <1>7

\* A configuration request decides from whole rows.
LEMMA AdminsStep ==
  ASSUME IndInv, [Next]_vars
  PROVE  AdminsOK'
<1>0. wf \in [Workflows -> WorkflowRow] /\ admin \in [Admins -> AdminState]
  BY DEF IndInv, TypeOK
<1>1. CASE UNCHANGED admin
  BY <1>1 DEF IndInv, AdminsOK
<1>2. ASSUME NEW b \in Admins, NEW W \in SUBSET Workflows, NEW q \in Requests, ReadConfig(b, W, q)
      PROVE  AdminsOK'
  <2> DEFINE S == [w \in W |-> [enabled |-> wf[w].enabled, paused |-> wf[w].paused,
                                kind |-> wf[w].kind]]
  <2>1. S \in [W -> Config]
    BY <1>0 DEF WorkflowRow, Config
  <2>2. admin' = [admin EXCEPT ![b] = [targets |-> W, asked |-> q, seen |-> S]]
    BY <1>2 DEF ReadConfig
  <2> HIDE DEF S
  <2> QED
    BY <1>0, <2>1, <2>2 DEF IndInv, AdminsOK
<1>3. ASSUME NEW b \in Admins, WriteConfig(b)
      PROVE  AdminsOK'
  BY <1>0, <1>3 DEF WriteConfig, IndInv, AdminsOK, IdleAdmin
<1>4. \/ UNCHANGED admin
      \/ \E b \in Admins : \/ WriteConfig(b)
                           \/ \E W \in SUBSET Workflows, q \in Requests : ReadConfig(b, W, q)
  <2>1. ASSUME NEW k \in Workers, WorkerStep(k) \/ HeartbeatStep(k) \/ Crash(k)
        PROVE  UNCHANGED admin
    <3>1. CASE StartScan(k) \/ Reap(k) \/ EndScan(k) \/ HeartbeatStep(k) \/ Crash(k)
      BY <3>1 DEF StartScan, Reap, EndScan, HeartbeatStep, Heartbeat, HeartbeatLost, Crash
    <3>2. CASE ClaimSome(k)
      BY <3>2 DEF ClaimSome, Claim
    <3>3. CASE Execute(k) \/ LockForPublish(k) \/ AbortPublish(k)
      BY <3>3 DEF Execute, LockForPublish, AbortPublish
    <3>4. CASE ReadForFailure(k) \/ SettleFailed(k) \/ CommitPublish(k)
      BY <3>4 DEF ReadForFailure, SettleFailed, CommitPublish
    <3> QED
      BY <2>1, <3>1, <3>2, <3>3, <3>4 DEF WorkerStep
  <2>2. ASSUME NEW c \in Callers, CallerStep(c) PROVE UNCHANGED admin
    BY <2>2 DEF CallerStep, BeginRun, PublishManual, FailManual, FinishManual, AbandonManual
  <2>3. CASE Tick \/ UNCHANGED vars
    BY <2>3 DEF Tick, vars
  <2> QED
    BY <2>1, <2>2, <2>3 DEF Next, AdminStep
<1> QED
  BY <1>1, <1>2, <1>3, <1>4

-----------------------------------------------------------------------------
\* Claims

\* A claim stays backed by the one started run that carries it.
LEMMA ClaimBackedStep ==
  ASSUME IndInv, [Next]_vars
  PROVE  ClaimBacked'
<1> SUFFICES ASSUME NEW w \in Workflows, wf'[w].token # None
             PROVE  (/\ run[wf[w].token].status = "started"
                     /\ run[wf[w].token].workflow = w
                     /\ run[wf[w].token].token = wf[w].token
                     /\ run[wf[w].token].version = wf[w].version
                     /\ run[wf[w].token].expires = wf[w].expires)'
  BY DEF ClaimBacked
<1> DEFINE t == wf[w].token
<1>1. /\ wf \in [Workflows -> WorkflowRow] /\ run \in [Runs -> RunRow]
      /\ wf[w] \in WorkflowRow /\ None \notin Runs
  BY NullIsNoRow DEF IndInv, TypeOK
<1>2. t # None => /\ t \in Runs /\ run[t].status = "started" /\ run[t].workflow = w
                  /\ run[t].token = t /\ run[t].version = wf[w].version
                  /\ run[t].expires = wf[w].expires
  BY <1>1 DEF IndInv, ClaimBacked, WorkflowRow
<1>3. ASSUME wf'[w] = wf[w], run'[t] = run[t]
      PROVE  (/\ run[wf[w].token].status = "started"
              /\ run[wf[w].token].workflow = w
              /\ run[wf[w].token].token = wf[w].token
              /\ run[wf[w].token].version = wf[w].version
              /\ run[wf[w].token].expires = wf[w].expires)'
  BY <1>2, <1>3
<1>4. ASSUME NEW k \in Workers, Reap(k)
      PROVE  wf'[w] = wf[w] /\ run'[t] = run[t]
  <2> PICK D \in SUBSET Expired(worker[k].checked) :
             run' = ReapedRuns(D) /\ wf' = ReapedWorkflows(D)
    BY <1>4 DEF Reap
  <2>1. CASE t \in D
    <3>1. t \in Runs /\ t # None
      BY <1>1, <2>1 DEF Expired
    <3>2. wf'[w] = SettledWorkflow(w, t, "failed", wf[w].next)
      BY <1>2, <2>1, <3>1 DEF ReapedWorkflows
    <3>3. wf'[w].token = None
      BY <1>1, <3>2 DEF SettledWorkflow, WorkflowRow
    <3> QED
      BY <3>3
  <2>2. CASE t \notin D
    <3>1. wf'[w] = wf[w]
      BY <2>2 DEF ReapedWorkflows
    <3>2. t \in Runs
      BY <1>2, <3>1
    <3> QED
      BY <2>2, <3>1, <3>2 DEF ReapedRuns
  <2> QED
    BY <2>1, <2>2
<1>5. ASSUME NEW k \in Workers, NEW v \in Workflows, NEW r \in Runs, Claim(k, v, r)
      PROVE  (/\ run[wf[w].token].status = "started"
              /\ run[wf[w].token].workflow = w
              /\ run[wf[w].token].token = wf[w].token
              /\ run[wf[w].token].version = wf[w].version
              /\ run[wf[w].token].expires = wf[w].expires)'
  <2>1. CASE w = v
    <3>1. wf'[w] = ClaimedRow(w, r)
      BY <1>1, <1>5, <2>1 DEF Claim
    <3>2. ClaimedRow(w, r).token = r /\ ClaimedRow(w, r).expires = now + Lease
      BY <1>1 DEF ClaimedRow, WorkflowRow
    <3>3. run'[r] = [status |-> "started", workflow |-> w, token |-> r,
                     version |-> ClaimedRow(w, r).version, expires |-> now + Lease,
                     slot |-> wf[w].next]
      BY <1>1, <1>5, <2>1 DEF Claim
    <3> QED
      BY <3>1, <3>2, <3>3
  <2>2. CASE w # v
    <3>1. wf'[w] = wf[w] /\ t # r
      BY <1>1, <1>2, <1>5, <2>2 DEF Claim, Fresh
    <3>2. run'[t] = run[t]
      BY <1>1, <1>2, <1>5, <3>1 DEF Claim
    <3> QED
      BY <1>3, <3>1, <3>2
  <2> QED
    BY <2>1, <2>2
<1>6. ASSUME NEW k \in Workers, CommitPublish(k) \/ SettleFailed(k)
      PROVE  wf'[w] = wf[w] /\ run'[t] = run[t]
  <2> DEFINE r == worker[k].run
             v == run[r].workflow
  <2>1. r \in Runs /\ v \in Workflows
    BY <1>6, WorkingRun DEF CommitPublish, SettleFailed
  <2>2. \/ UNCHANGED <<wf, run>>
        \/ \E o \in {"succeeded", "failed"} : \E n :
             /\ wf' = [wf EXCEPT ![v] = SettledWorkflow(v, r, o, n)]
             /\ run' = [run EXCEPT ![r] = SettledRun(r, o)]
    BY <1>6 DEF CommitPublish, SettleFailed
  <2>3. ASSUME NEW o, NEW n, wf' = [wf EXCEPT ![v] = SettledWorkflow(v, r, o, n)]
        PROVE  w # v
    <3>1. SettledWorkflow(v, r, o, n).token = None
      BY <1>1, <2>1 DEF SettledWorkflow, WorkflowRow
    <3> QED
      BY <1>1, <2>3, <3>1
  <2>4. CASE UNCHANGED <<wf, run>>
    BY <2>4
  <2>5. ASSUME NEW o, NEW n,
               wf' = [wf EXCEPT ![v] = SettledWorkflow(v, r, o, n)],
               run' = [run EXCEPT ![r] = SettledRun(r, o)]
        PROVE  wf'[w] = wf[w] /\ run'[t] = run[t]
    <3>1. w # v
      BY <2>3, <2>5
    <3>2. wf'[w] = wf[w] /\ t # None
      BY <1>1, <2>5, <3>1
    <3>3. t # r
      BY <1>2, <2>1, <3>1, <3>2
    <3> QED
      BY <1>1, <1>2, <2>5, <3>2, <3>3
  <2> QED
    BY <2>2, <2>4, <2>5
<1>7. ASSUME NEW k \in Workers, Heartbeat(k)
      PROVE  (/\ run[wf[w].token].status = "started"
              /\ run[wf[w].token].workflow = w
              /\ run[wf[w].token].token = wf[w].token
              /\ run[wf[w].token].version = wf[w].version
              /\ run[wf[w].token].expires = wf[w].expires)'
  <2> DEFINE r == worker[k].run
             v == run[r].workflow
  <2>1. r \in Runs /\ v \in Workflows /\ wf[v].token = r
    BY <1>7, WorkingRun, LiveFence DEF Heartbeat
  <2>2. /\ run' = [run EXCEPT ![r].expires = now + Lease]
        /\ wf' = [wf EXCEPT ![v].expires = now + Lease]
    BY <1>7 DEF Heartbeat
  <2>3. CASE w = v
    <3>1. wf'[w] = [wf[w] EXCEPT !.expires = now + Lease]
      BY <1>1, <2>2, <2>3
    <3>2. run'[r] = [run[r] EXCEPT !.expires = now + Lease]
      BY <1>1, <2>1, <2>2
    <3>3. wf'[w].token = r /\ wf'[w].version = wf[w].version /\ wf'[w].expires = now + Lease
      BY <1>1, <2>1, <2>3, <3>1 DEF WorkflowRow
    <3>4. /\ run'[r].status = run[r].status /\ run'[r].workflow = run[r].workflow
          /\ run'[r].token = run[r].token /\ run'[r].version = run[r].version
          /\ run'[r].expires = now + Lease
      BY <1>1, <2>1, <3>2 DEF RunRow
    <3> QED
      BY <1>1, <1>2, <2>1, <2>3, <3>3, <3>4
  <2>4. CASE w # v
    BY <1>1, <1>2, <1>3, <2>1, <2>2, <2>4
  <2> QED
    BY <2>3, <2>4
<1>8. ASSUME NEW c \in Callers, NEW v \in Workflows, NEW s \in Runs, BeginRun(c, v, s)
      PROVE  wf'[w] = wf[w] /\ run'[t] = run[t]
  BY <1>1, <1>2, <1>8 DEF BeginRun, Fresh
<1>9. ASSUME NEW c \in Callers, PublishManual(c) \/ FailManual(c)
      PROVE  (/\ run[wf[w].token].status = "started"
              /\ run[wf[w].token].workflow = w
              /\ run[wf[w].token].token = wf[w].token
              /\ run[wf[w].token].version = wf[w].version
              /\ run[wf[w].token].expires = wf[w].expires)'
  <2>1. /\ caller[c].run # None
        /\ \E o : /\ run' = [run EXCEPT ![caller[c].run].status = o]
                  /\ wf' = [wf EXCEPT ![caller[c].workflow] = ManualRow(c, o)]
    BY <1>9 DEF PublishManual, FailManual, FinishManual
  <2>2. /\ run[caller[c].run].token = None /\ caller[c].workflow \in Workflows
    BY <2>1 DEF IndInv, CallersOK
  <2>3. \A o : LET m == ManualRow(c, o) IN
          /\ m.token = wf[caller[c].workflow].token
          /\ m.version = wf[caller[c].workflow].version
          /\ m.expires = wf[caller[c].workflow].expires
    BY <1>1, <2>2 DEF ManualRow, WorkflowRow
  <2>4. /\ wf'[w].token = t /\ wf'[w].version = wf[w].version /\ wf'[w].expires = wf[w].expires
    BY <1>1, <2>1, <2>3
  <2>5. run'[t] = run[t]
    BY <1>1, <1>2, <2>1, <2>2, <2>4
  <2> QED
    BY <1>2, <2>4, <2>5
<1>10. ASSUME NEW a \in Admins, WriteConfig(a)
       PROVE  wf'[w] = wf[w] /\ run'[t] = run[t]
  <2>1. \A c : Configured(w, c).token = None
    BY <1>1 DEF Configured, WorkflowRow
  <2> QED
    BY <1>10, <2>1 DEF WriteConfig
<1> QED
  BY <1>3, <1>4, <1>5, <1>6, <1>7, <1>8, <1>9, <1>10, WritersOfRows DEF ClaimSome, vars

\* A run is succeeded exactly when the same step published it.
LEMMA PublishedStep ==
  ASSUME IndInv, [Next]_vars
  PROVE  PublishedIffSucceeded'
<1>1. /\ run \in [Runs -> RunRow] /\ published = {r \in Runs : run[r].status = "succeeded"}
  BY DEF IndInv, TypeOK, PublishedIffSucceeded
<1>2. ASSUME UNCHANGED published,
             \A r \in Runs : (run'[r].status = "succeeded") <=> (run[r].status = "succeeded")
      PROVE  PublishedIffSucceeded'
  BY <1>1, <1>2 DEF PublishedIffSucceeded
<1>3. ASSUME NEW s \in Runs, published' = published \cup {s}, run'[s].status = "succeeded",
             \A r \in Runs : r # s => run'[r] = run[r]
      PROVE  PublishedIffSucceeded'
  BY <1>1, <1>3 DEF PublishedIffSucceeded
<1>4. ASSUME NEW k \in Workers, CommitPublish(k)
      PROVE  PublishedIffSucceeded'
  <2>1. worker[k].run \in Runs
    BY <1>4, WorkingRun DEF CommitPublish
  <2>2. /\ run' = [run EXCEPT ![worker[k].run] = SettledRun(worker[k].run, "succeeded")]
        /\ published' = published \cup {worker[k].run}
    BY <1>4 DEF CommitPublish
  <2>3. SettledRun(worker[k].run, "succeeded").status = "succeeded"
    BY <1>1, <2>1 DEF SettledRun, RunRow
  <2> QED
    BY <1>1, <1>3, <2>1, <2>2, <2>3
<1>5. ASSUME NEW c \in Callers, PublishManual(c)
      PROVE  PublishedIffSucceeded'
  <2>1. caller[c].run \in Runs
    BY <1>5 DEF PublishManual, FinishManual, IndInv, TypeOK, CallerState
  <2>2. /\ run' = [run EXCEPT ![caller[c].run].status = "succeeded"]
        /\ published' = published \cup {caller[c].run}
    BY <1>5 DEF PublishManual, FinishManual
  <2>3. run'[caller[c].run].status = "succeeded"
    BY <1>1, <2>1, <2>2 DEF RunRow
  <2> QED
    BY <1>1, <1>3, <2>1, <2>2, <2>3
<1>6. ASSUME NEW c \in Callers, FailManual(c)
      PROVE  PublishedIffSucceeded'
  <2>1. caller[c].run \in Runs /\ run[caller[c].run].status = "started"
    BY <1>6 DEF FailManual, FinishManual, IndInv, TypeOK, CallerState, CallersOK
  <2>2. run' = [run EXCEPT ![caller[c].run].status = "failed"] /\ UNCHANGED published
    BY <1>6 DEF FailManual, FinishManual
  <2> QED
    BY <1>1, <1>2, <2>1, <2>2 DEF RunRow
<1>7. ASSUME UNCHANGED published, ~(\E k \in Workers : CommitPublish(k)),
             \A r \in Runs : ~RunEnded(r)
      PROVE  PublishedIffSucceeded'
  <2> SUFFICES ASSUME NEW r \in Runs
               PROVE  (run'[r].status = "succeeded") <=> (run[r].status = "succeeded")
    BY <1>2, <1>7
  <2>1. run[r] \in RunRow
    BY <1>1
  <2>2. CASE RunKept(r) \/ RunRenewed(r)
    BY <2>1, <2>2 DEF RunKept, RunRenewed, RunRow
  <2>3. CASE RunClaimed(r) \/ RunBegun(r)
    <3>1. run[r].status = "absent"
      BY <2>3 DEF RunClaimed, RunBegun
    <3>2. CASE RunClaimed(r)
      BY <3>1, <3>2 DEF RunClaimed
    <3>3. CASE RunBegun(r)
      <4>1. PICK w \in Workflows : run'[r] = [NoRow EXCEPT !.status = "started", !.workflow = w]
        BY <3>3 DEF RunBegun
      <4>2. run'[r].status = "started"
        BY <4>1 DEF NoRow
      <4> QED
        BY <3>1, <4>2
    <3> QED
      BY <2>3, <3>2, <3>3
  <2>4. CASE RunFinished(r)
    BY <1>7, <2>1, <2>4 DEF RunFinished, SettledRun, RunRow
  <2> QED
    BY <1>7, <2>2, <2>3, <2>4, RunSteps
<1>8. \/ \E k \in Workers : CommitPublish(k)
      \/ \E c \in Callers : PublishManual(c) \/ FailManual(c)
      \/ UNCHANGED published /\ \A r \in Runs : ~RunEnded(r)
  <2>1. ASSUME NEW c \in Callers, CallerStep(c)
        PROVE  \/ PublishManual(c) \/ FailManual(c)
               \/ UNCHANGED published /\ \A r \in Runs : ~RunEnded(r)
    <3>1. CASE AbandonManual(c)
      <4>1. UNCHANGED <<run, published>>
        BY <3>1 DEF AbandonManual
      <4>2. \A r \in Runs : ~RunEnded(r)
        BY <1>1, <4>1 DEF RunEnded, RunRow
      <4> QED
        BY <4>1, <4>2
    <3>2. ASSUME NEW w \in Workflows, NEW s \in Runs, BeginRun(c, w, s)
          PROVE  UNCHANGED published /\ \A r \in Runs : ~RunEnded(r)
      <4>1. UNCHANGED published
        BY <3>2 DEF BeginRun
      <4>2. \A r \in Runs : run'[r] = run[r] \/ run'[r].status = "started"
        BY <1>1, <3>2 DEF BeginRun, NoRow
      <4>3. ASSUME NEW r \in Runs, RunEnded(r) PROVE FALSE
        <5>1. /\ run[r].status = "started"
              /\ run'[r].status = "succeeded" \/ run'[r].status = "failed"
          <6>1. PICK o \in {"succeeded", "failed"} : run'[r] = [run[r] EXCEPT !.status = o]
            BY <4>3 DEF RunEnded
          <6>2. run[r] \in RunRow /\ run[r].status = "started"
            BY <1>1, <4>3 DEF RunEnded
          <6> QED
            BY <6>1, <6>2 DEF RunRow
        <5> QED
          BY <4>2, <5>1
      <4> QED
        BY <4>1, <4>3
    <3> QED
      BY <2>1, <3>1, <3>2 DEF CallerStep
  <2>2. ASSUME UNCHANGED caller
        PROVE  \A r \in Runs : ~RunEnded(r)
    BY <2>2, NullIsNoRow DEF RunEnded
  <2>3. \/ \E k \in Workers : CommitPublish(k)
        \/ \E c \in Callers : CallerStep(c)
        \/ UNCHANGED <<published, caller>>
    BY WritersOfCallers
  <2> QED
    BY <2>1, <2>2, <2>3
<1> QED
  BY <1>4, <1>5, <1>6, <1>7, <1>8

-----------------------------------------------------------------------------
\* Scheduler rows

\* What one workflow row can become in one step, as far as the claim and the
\* next run are concerned.
RowSame(w)    == /\ wf'[w].enabled = wf[w].enabled /\ wf'[w].paused = wf[w].paused
                 /\ wf'[w].token = wf[w].token /\ wf'[w].next = wf[w].next
RowManual(w)  == /\ wf'[w].enabled = wf[w].enabled /\ wf'[w].paused = wf[w].paused
                 /\ wf'[w].token = wf[w].token
                 /\ wf'[w].next # NoTime => Ahead(wf'[w].next, now)
RowClaimed(w) == /\ wf[w].enabled /\ ~wf[w].paused
                 /\ wf'[w].enabled = wf[w].enabled /\ wf'[w].paused = wf[w].paused
                 /\ wf[w].next # NoTime /\ wf'[w].next = wf[w].next
                 /\ \E r \in Fresh : wf'[w].token = r /\ run'[r].slot = wf[w].next
RowReaped(w)  == wf'[w].token = None /\ wf'[w].next = wf[w].next
RowSettled(w) == /\ wf'[w].token = None
                 /\ \E k \in Workers :
                      /\ worker[k].phase \in {"publishing", "settling"}
                      /\ wf[w].token = worker[k].run
                      /\ IF worker[k].phase = "publishing"
                         THEN wf'[w].next # NoTime => Ahead(wf'[w].next, worker[k].since)
                         ELSE wf'[w].next = worker[k].next
RowConfigured(w) == /\ wf'[w].token = None
                    /\ wf'[w].next # NoTime => Ahead(wf'[w].next, now)

\* Every step treats every workflow row in one of these ways.
LEMMA RowSteps ==
  ASSUME IndInv, [Next]_vars
  PROVE  \A w \in Workflows :
           \/ RowSame(w) \/ RowManual(w) \/ RowClaimed(w)
           \/ RowReaped(w) \/ RowSettled(w) \/ RowConfigured(w)
<1>0. /\ wf \in [Workflows -> WorkflowRow] /\ run \in [Runs -> RunRow] /\ now \in Nat
      /\ worker \in [Workers -> WorkerState]
  BY DEF IndInv, TypeOK
<1>1. \A w \in Workflows : wf'[w] = wf[w] => RowSame(w)
  BY DEF RowSame
<1>2. ASSUME NEW k \in Workers, Reap(k), NEW w \in Workflows
      PROVE  RowSame(w) \/ RowReaped(w)
  <2>1. \/ wf'[w] = wf[w]
        \/ wf'[w] = SettledWorkflow(w, wf[w].token, "failed", wf[w].next)
    BY <1>2 DEF Reap, ReapedWorkflows
  <2>2. wf[w] \in WorkflowRow
    BY <1>0
  <2> QED
    BY <1>1, <2>1, <2>2 DEF RowReaped, SettledWorkflow, WorkflowRow
<1>3. ASSUME NEW k \in Workers, NEW v \in Workflows, NEW r \in Runs, Claim(k, v, r),
             NEW w \in Workflows
      PROVE  RowSame(w) \/ RowClaimed(w)
  <2>1. CASE w = v
    <3>1. wf'[w] = ClaimedRow(w, r) /\ r \in Fresh
      BY <1>0, <1>3, <2>1 DEF Claim
    <3>2. /\ wf'[w].enabled = wf[w].enabled /\ wf'[w].paused = wf[w].paused
          /\ wf'[w].token = r /\ wf'[w].next = wf[w].next
      BY <1>0, <3>1 DEF ClaimedRow, WorkflowRow
    <3>3. Due(w, worker[k].checked)
      BY <1>3, <2>1 DEF Claim, Claimable
    <3>4. run'[r] = [status |-> "started", workflow |-> w, token |-> r,
                     version |-> ClaimedRow(w, r).version, expires |-> now + Lease,
                     slot |-> wf[w].next]
      BY <1>0, <1>3, <2>1 DEF Claim
    <3>5. run'[r].slot = wf[w].next
      BY <3>4
    <3> QED
      BY <3>1, <3>2, <3>3, <3>5 DEF RowClaimed, Due
  <2>2. CASE w # v
    BY <1>0, <1>1, <1>3, <2>2 DEF Claim
  <2> QED
    BY <2>1, <2>2
<1>4. ASSUME NEW k \in Workers, CommitPublish(k), NEW w \in Workflows
      PROVE  RowSame(w) \/ RowSettled(w)
  <2> DEFINE r == worker[k].run
             v == run[r].workflow
  <2>1. r \in Runs /\ v \in Workflows /\ wf[v].token = r /\ worker[k].phase = "publishing"
    BY <1>4, WorkingRun, LiveFence DEF CommitPublish
  <2>2. PICK t \in worker[k].since .. now :
          wf' = [wf EXCEPT ![v] = SettledWorkflow(v, r, "succeeded", NextRunAt(wf[v], t))]
    BY <1>4 DEF CommitPublish
  <2>3. worker[k].since \in Nat /\ t \in Nat /\ worker[k].since <= t
    BY <1>0, <2>2 DEF WorkerState
  <2>4. NextRunAt(wf[v], t) # NoTime => Ahead(NextRunAt(wf[v], t), worker[k].since)
    BY <2>3, NextRunAhead, AheadOfEarlier DEF Times, NoTime
  <2>5. CASE w = v
    <3>1. wf'[w] = SettledWorkflow(w, r, "succeeded", NextRunAt(wf[w], t))
      BY <1>0, <2>1, <2>2, <2>5
    <3>2. wf'[w].token = None /\ wf'[w].next = NextRunAt(wf[w], t)
      BY <1>0, <3>1 DEF SettledWorkflow, WorkflowRow
    <3> QED
      BY <2>1, <2>4, <2>5, <3>2 DEF RowSettled
  <2>6. CASE w # v
    BY <1>0, <1>1, <2>1, <2>2, <2>6
  <2> QED
    BY <2>5, <2>6
<1>5. ASSUME NEW k \in Workers, SettleFailed(k), NEW w \in Workflows
      PROVE  RowSame(w) \/ RowSettled(w)
  <2> DEFINE r == worker[k].run
             v == run[r].workflow
  <2>1. r \in Runs /\ v \in Workflows /\ worker[k].phase = "settling"
    BY <1>5, WorkingRun DEF SettleFailed
  <2>2. \/ wf' = wf
        \/ /\ wf[v].token = r
           /\ wf' = [wf EXCEPT ![v] = SettledWorkflow(v, r, "failed", worker[k].next)]
    BY <1>5, <2>1, LiveFence DEF SettleFailed
  <2>3. CASE w = v /\ wf' # wf
    <3>1. wf'[w] = SettledWorkflow(w, r, "failed", worker[k].next)
      BY <1>0, <2>1, <2>2, <2>3
    <3>2. wf'[w].token = None /\ wf'[w].next = worker[k].next
      BY <1>0, <3>1 DEF SettledWorkflow, WorkflowRow
    <3> QED
      BY <2>1, <2>2, <2>3, <3>2 DEF RowSettled
  <2>4. CASE w # v \/ wf' = wf
    BY <1>0, <1>1, <2>1, <2>2, <2>4
  <2> QED
    BY <2>3, <2>4
<1>6. ASSUME NEW k \in Workers, Heartbeat(k), NEW w \in Workflows
      PROVE  RowSame(w)
  <2>1. wf' = [wf EXCEPT ![run[worker[k].run].workflow].expires = now + Lease]
    BY <1>6 DEF Heartbeat
  <2> QED
    BY <1>0, <2>1 DEF RowSame, WorkflowRow
<1>7. ASSUME NEW c \in Callers, PublishManual(c) \/ FailManual(c), NEW w \in Workflows
      PROVE  RowSame(w) \/ RowManual(w)
  <2>1. PICK o : wf' = [wf EXCEPT ![caller[c].workflow] = ManualRow(c, o)]
    BY <1>7 DEF PublishManual, FailManual, FinishManual
  <2>2. CASE w = caller[c].workflow
    <3>1. wf'[w] = ManualRow(c, o)
      BY <1>0, <2>1, <2>2
    <3>2. /\ wf'[w].enabled = wf[w].enabled /\ wf'[w].paused = wf[w].paused
          /\ wf'[w].token = wf[w].token /\ wf'[w].next = NextRunAt(caller[c].seen, now)
      BY <1>0, <2>2, <3>1 DEF ManualRow, WorkflowRow
    <3> QED
      BY <1>0, <3>2, NextRunAhead DEF RowManual
  <2>3. CASE w # caller[c].workflow
    BY <1>0, <1>1, <2>1, <2>3
  <2> QED
    BY <2>2, <2>3
<1>8. ASSUME NEW a \in Admins, WriteConfig(a), NEW w \in Workflows
      PROVE  RowSame(w) \/ RowConfigured(w)
  <2>1. CASE w \in admin[a].targets
    <3>1. wf'[w] = Configured(w, NewConfig(a, w))
      BY <1>8, <2>1 DEF WriteConfig
    <3>2. wf'[w].token = None /\ wf'[w].next = NextRunAt(NewConfig(a, w), now)
      BY <1>0, <3>1 DEF Configured, WorkflowRow
    <3> QED
      BY <1>0, <3>2, NextRunAhead DEF RowConfigured
  <2>2. CASE w \notin admin[a].targets
    BY <1>1, <1>8, <2>2 DEF WriteConfig
  <2> QED
    BY <2>1, <2>2
<1>9. ASSUME NEW c \in Callers, NEW v \in Workflows, NEW s \in Runs, BeginRun(c, v, s)
      PROVE  UNCHANGED wf
  BY <1>9 DEF BeginRun
<1> QED
  BY <1>1, <1>2, <1>3, <1>4, <1>5, <1>6, <1>7, <1>8, <1>9, WritersOfRows
  DEF ClaimSome, vars

\* A paused or disabled row loses its claim in the same step.
LEMMA PausedStep ==
  ASSUME IndInv, [Next]_vars
  PROVE  PausedHasNoClaim'
<1> SUFFICES ASSUME NEW w \in Workflows, wf'[w].paused \/ ~wf'[w].enabled
             PROVE  wf'[w].token = None
  BY DEF PausedHasNoClaim
<1>1. (wf[w].paused \/ ~wf[w].enabled) => wf[w].token = None
  BY DEF IndInv, PausedHasNoClaim
<1> QED
  BY <1>1, RowSteps DEF RowSame, RowManual, RowClaimed, RowReaped, RowSettled, RowConfigured

-----------------------------------------------------------------------------
\* Only slots of the repeated hour are published again

\* Only a publication makes a claimed run succeed.
LEMMA NewlySucceeded ==
  ASSUME IndInv, [Next]_vars, NEW s \in Runs,
         run'[s].status = "succeeded", IsClaimed(s)'
  PROVE  \/ /\ run[s].status = "succeeded" /\ IsClaimed(s)
            /\ run'[s].workflow = run[s].workflow /\ run'[s].slot = run[s].slot
         \/ \E k \in Workers : CommitPublish(k) /\ worker[k].run = s
<1>0. run[s] \in RunRow /\ s # None
  BY NullIsNoRow DEF IndInv, TypeOK
<1>1. CASE RunKept(s)
  BY <1>1 DEF RunKept, IsClaimed
<1>2. CASE RunRenewed(s)
  BY <1>0, <1>2 DEF RunRenewed, RunRow, IndInv, RunsOK
<1>3. CASE RunClaimed(s)
  BY <1>3 DEF RunClaimed
<1>4. CASE RunBegun(s)
  BY <1>4 DEF RunBegun, NoRow
<1>5. CASE RunEnded(s)
  <2>1. ~IsClaimed(s)
    BY <1>0, <1>5 DEF RunEnded, IndInv, CallersOK
  <2>2. run'[s].slot = run[s].slot
    BY <1>0, <1>5 DEF RunEnded, RunRow
  <2> QED
    BY <2>1, <2>2 DEF IsClaimed
<1>6. CASE RunFinished(s)
  BY <1>0, <1>6 DEF RunFinished, SettledRun, RunRow
<1> QED
  BY <1>1, <1>2, <1>3, <1>4, <1>5, <1>6, RunSteps

\* What a commit does to the claimed row, and that it touches no other run.
LEMMA CommitFacts ==
  ASSUME IndInv, NEW k \in Workers, CommitPublish(k)
  PROVE  LET s == worker[k].run  w == run[s].workflow IN
         /\ s \in Runs /\ w \in Workflows /\ wf[w].token = s /\ IsClaimed(s)
         /\ run'[s].workflow = w /\ run'[s].slot = run[s].slot
         /\ \A r \in Runs : r # s => run'[r] = run[r]
         /\ wf'[w].token = None
         /\ wf'[w].next # NoTime => Ahead(wf'[w].next, run[s].slot)
<1> DEFINE s == worker[k].run
           w == run[s].workflow
<1>1. /\ s \in Runs /\ w \in Workflows /\ wf[w].token = s /\ IsClaimed(s)
      /\ worker[k].phase = "publishing"
  BY WorkingRun, LiveFence DEF CommitPublish
<1>2. /\ wf \in [Workflows -> WorkflowRow] /\ run \in [Runs -> RunRow]
      /\ worker[k] \in WorkerState /\ now \in Nat /\ run[s] \in RunRow
  BY <1>1 DEF IndInv, TypeOK
<1>3. PICK t \in worker[k].since .. now :
        wf' = [wf EXCEPT ![w] = SettledWorkflow(w, s, "succeeded", NextRunAt(wf[w], t))]
  BY DEF CommitPublish
<1>4. worker[k].since \in Nat /\ t \in Nat /\ worker[k].since <= t
  BY <1>2, <1>3 DEF WorkerState
<1>5. run[s].slot <= worker[k].since /\ run[s].slot \in Nat
  BY <1>1, <1>2 DEF IndInv, WorkersOK, Row, IsClaimed, RunRow, Times
<1>6. wf'[w].token = None /\ wf'[w].next = NextRunAt(wf[w], t)
  BY <1>1, <1>2, <1>3 DEF SettledWorkflow, WorkflowRow
<1>7. NextRunAt(wf[w], t) # NoTime => NextRunAt(wf[w], t) \in Nat /\ Ahead(NextRunAt(wf[w], t), t)
  BY <1>4, NextRunAhead DEF Times
<1>8. wf'[w].next # NoTime => Ahead(wf'[w].next, run[s].slot)
  BY <1>4, <1>5, <1>6, <1>7, AheadOfEarlier
<1>9. run' = [run EXCEPT ![s] = SettledRun(s, "succeeded")]
  BY DEF CommitPublish
<1>10. run'[s].workflow = w /\ run'[s].slot = run[s].slot
  BY <1>1, <1>2, <1>9 DEF SettledRun, RunRow
<1> QED
  BY <1>1, <1>2, <1>6, <1>8, <1>9, <1>10

\* Two publications of another slot would need two tokens in one row.
LEMMA SlotsAgainStep ==
  ASSUME IndInv, [Next]_vars
  PROVE  OnlyRepeatedSlotsAgain'
<1>0. published' = {r \in Runs : run'[r].status = "succeeded"}
  BY PublishedStep DEF PublishedIffSucceeded
<1>1. published = {r \in Runs : run[r].status = "succeeded"}
  BY DEF IndInv, PublishedIffSucceeded
<1> SUFFICES ASSUME NEW r \in Runs, NEW s \in Runs,
                    run'[r].status = "succeeded", run'[s].status = "succeeded",
                    run'[r].slot # NoTime,
                    run'[r].workflow = run'[s].workflow, run'[r].slot = run'[s].slot
             PROVE  r = s \/ Repeated(run'[r].slot)
  BY <1>0 DEF OnlyRepeatedSlotsAgain
<1>2. IsClaimed(r)' /\ IsClaimed(s)'
  BY DEF IsClaimed
<1> DEFINE Old(x) == /\ run[x].status = "succeeded" /\ IsClaimed(x)
                     /\ run'[x].workflow = run[x].workflow /\ run'[x].slot = run[x].slot
<1>3. CASE Old(r) /\ Old(s)
  BY <1>1, <1>3 DEF IndInv, OnlyRepeatedSlotsAgain, IsClaimed
<1>4. ASSUME NEW x \in Runs, NEW y \in Runs, NEW k \in Workers,
             CommitPublish(k), worker[k].run = x, x # y, IsClaimed(y)',
             run'[y].status = "succeeded", run'[y].workflow = run'[x].workflow,
             run'[y].slot = run'[x].slot
      PROVE  Repeated(run'[x].slot)
  <2> DEFINE w == run[x].workflow
  <2>1. /\ w \in Workflows /\ wf[w].token = x
        /\ run'[x].workflow = w /\ run'[x].slot = run[x].slot /\ run'[y] = run[y]
    BY <1>4, CommitFacts
  <2>2. y \in Succeeded(w)
    BY <1>4, <2>1 DEF Succeeded, IsClaimed
  <2>3. Ahead(run[x].slot, run[y].slot)
    BY <2>1, <2>2, NullIsNoRow DEF IndInv, SlotsOK
  <2>4. run[y].slot \in Int /\ run[x].slot = run[y].slot
    BY <1>4, <2>1 DEF IndInv, TypeOK, RunRow, Times, NoTime
  <2> QED
    BY <2>1, <2>3, <2>4 DEF Ahead
<1>5. /\ Old(r) \/ \E k \in Workers : CommitPublish(k) /\ worker[k].run = r
      /\ Old(s) \/ \E k \in Workers : CommitPublish(k) /\ worker[k].run = s
  BY <1>2, NewlySucceeded
<1> QED
  BY <1>2, <1>3, <1>4, <1>5

\* The type invariant is kept, so the new rows are rows.
LEMMA TypesStep ==
  ASSUME IndInv, [Next]_vars
  PROVE  TypeOK'
<1>1. CASE UNCHANGED vars
  BY <1>1 DEF vars, IndInv, TypeOK
<1> QED
  BY <1>1, ScanTyped, RequestTyped DEF Next

\* In particular a next run is a time or NULL.
LEMMA RowsTyped ==
  ASSUME IndInv, [Next]_vars, NEW w \in Workflows
  PROVE  wf'[w].next \in Times /\ wf'[w].next \in Int
  BY TypesStep DEF TypeOK, WorkflowRow, Times, NoTime

\* Only ReadForFailure brings a worker into the settling phase.
LEMMA EntersSettling ==
  ASSUME IndInv, [Next]_vars, NEW k \in Workers, worker'[k].phase = "settling"
  PROVE  \/ worker'[k] = worker[k] /\ worker[k].phase = "settling"
         \/ ReadForFailure(k)
<1>1. worker[k] \in WorkerState /\ worker \in [Workers -> WorkerState]
  BY DEF IndInv, TypeOK
<1>2. ASSUME StartScan(k) \/ EndScan(k) \/ Crash(k) PROVE FALSE
  <2>1. \/ worker'[k] = [IdleWorker EXCEPT !.phase = "reaping", !.checked = now, !.left = Limit]
        \/ worker'[k] = IdleWorker
    BY <1>1, <1>2 DEF StartScan, EndScan, Crash
  <2>2. /\ [IdleWorker EXCEPT !.phase = "reaping", !.checked = now, !.left = Limit].phase = "reaping"
        /\ IdleWorker.phase = "idle"
    BY DEF IdleWorker
  <2> QED
    BY <2>1, <2>2
<1>3. ASSUME Reap(k) \/ AbortPublish(k) \/ Execute(k) PROVE FALSE
  BY <1>1, <1>3 DEF Reap, AbortPublish, Execute, WorkerState
<1>4. ASSUME HeartbeatLost(k) PROVE FALSE
  BY <1>1, <1>4 DEF HeartbeatLost, WorkerState
<1>5. ASSUME LockForPublish(k) PROVE FALSE
  BY <1>1, <1>5 DEF LockForPublish, WorkerState
<1>6. ASSUME ClaimSome(k) PROVE FALSE
  BY <1>1, <1>6 DEF ClaimSome, Claim, WorkerState
<1>7. ASSUME CommitPublish(k) \/ SettleFailed(k) PROVE FALSE
  <2>1. BackToClaiming(k)
    BY <1>7 DEF CommitPublish, SettleFailed
  <2> QED
    BY <1>1, <2>1 DEF BackToClaiming, WorkerState
<1> QED
  BY <1>2, <1>3, <1>4, <1>5, <1>6, <1>7, OwnSteps DEF WorkerStep

\* A publication that is open was open before or has just taken its locks.
LEMMA OpensPublication ==
  ASSUME IndInv, [Next]_vars, NEW k \in Workers, worker'[k].phase = "publishing"
  PROVE  \/ worker'[k] = worker[k] /\ worker[k].phase = "publishing"
         \/ LockForPublish(k)
  BY OwnSteps, EntersPublishing

\* The published slots stay behind everything that will be scheduled.
LEMMA SlotsStep ==
  ASSUME IndInv, [Next]_vars
  PROVE  SlotsOK'
<1> DEFINE Behind(w, s) ==
      /\ wf[w].next # NoTime => Ahead(wf[w].next, run[s].slot)
      /\ wf[w].token # None => Ahead(run[wf[w].token].slot, run[s].slot)
      /\ \A k \in Workers : wf[w].token = worker[k].run =>
           /\ (worker[k].phase = "settling" /\ worker[k].next # NoTime)
                => Ahead(worker[k].next, run[s].slot)
           /\ worker[k].phase = "publishing" => run[s].slot <= worker[k].since
<1> SUFFICES ASSUME NEW w \in Workflows, NEW s \in Runs, run'[s].status = "succeeded",
                    run'[s].workflow = w, IsClaimed(s)'
             PROVE  Behind(w, s)'
  BY DEF SlotsOK, Succeeded
<1>0. /\ wf \in [Workflows -> WorkflowRow] /\ run \in [Runs -> RunRow] /\ now \in Nat
      /\ worker \in [Workers -> WorkerState] /\ None \notin Runs
      /\ wf[w] \in WorkflowRow
  BY NullIsNoRow DEF IndInv, TypeOK
<1>1. \A k \in Workers : worker'[k].phase \in {"publishing", "settling"}
                           => worker'[k].run \in Runs
  BY WorkersStep DEF WorkersOK, Working, Phases
<1>2. ASSUME NEW k \in Workers, CommitPublish(k), worker[k].run = s
      PROVE  Behind(w, s)'
  <2>1. /\ run'[s].workflow = run[s].workflow /\ run'[s].slot = run[s].slot
        /\ wf'[w].token = None
        /\ wf'[w].next # NoTime => Ahead(wf'[w].next, run[s].slot)
    BY <1>2, CommitFacts
  <2> QED
    BY <1>0, <1>1, <2>1 DEF Ahead, Repeated
<1>3. CASE /\ run[s].status = "succeeded" /\ IsClaimed(s)
           /\ run'[s].workflow = run[s].workflow /\ run'[s].slot = run[s].slot
  <2>1. s \in Succeeded(w)
    BY <1>3 DEF Succeeded
  <2>2. Behind(w, s)
    BY <2>1 DEF IndInv, SlotsOK
  <2>3. run[s].slot \in Nat /\ run[s].slot <= now
    BY <1>0, <1>3 DEF IndInv, RunsOK, IsClaimed, RunRow, Times
  <2>4. wf'[w].next # NoTime => Ahead(wf'[w].next, run[s].slot)
    <3>1. CASE RowSame(w) \/ RowClaimed(w) \/ RowReaped(w)
      BY <2>2, <3>1 DEF RowSame, RowClaimed, RowReaped
    <3>2. CASE RowManual(w) \/ RowConfigured(w)
      <4>1. wf'[w].next # NoTime => Ahead(wf'[w].next, now)
        BY <3>2 DEF RowManual, RowConfigured
      <4>2. wf'[w].next \in Int
        BY RowsTyped
      <4> QED
        BY <1>0, <2>3, <4>1, <4>2, AheadOfEarlier
    <3>3. CASE RowSettled(w)
      <4>1. PICK k \in Workers :
              /\ worker[k].phase \in {"publishing", "settling"}
              /\ wf[w].token = worker[k].run
              /\ IF worker[k].phase = "publishing"
                 THEN wf'[w].next # NoTime => Ahead(wf'[w].next, worker[k].since)
                 ELSE wf'[w].next = worker[k].next
        BY <3>3 DEF RowSettled
      <4>2. CASE worker[k].phase = "publishing"
        <5>1. run[s].slot <= worker[k].since
          BY <2>2, <4>1, <4>2
        <5>2. worker[k].since \in Nat /\ wf'[w].next \in Int
          BY <1>0, RowsTyped DEF WorkerState
        <5> QED
          BY <2>3, <4>1, <4>2, <5>1, <5>2, AheadOfEarlier
      <4>3. CASE worker[k].phase = "settling"
        BY <2>2, <4>1, <4>3
      <4> QED
        BY <4>1, <4>2, <4>3
    <3> QED
      BY <3>1, <3>2, <3>3, RowSteps
  <2>5. ASSUME wf'[w].token # None
        PROVE  \/ /\ wf'[w].token = wf[w].token /\ run'[wf[w].token].slot = run[wf[w].token].slot
               \/ \E r \in Fresh : /\ wf'[w].token = r /\ run'[r].slot = wf[w].next
                                   /\ wf[w].next # NoTime
    <3>1. CASE RowSame(w) \/ RowManual(w)
      <4>1. wf'[w].token = wf[w].token /\ wf[w].token \in Runs
        BY <1>0, <2>5, <3>1 DEF RowSame, RowManual, WorkflowRow
      <4>2. run[wf[w].token].status # "absent"
        BY <2>5, <4>1 DEF IndInv, ClaimBacked
      <4> QED
        BY <4>1, <4>2, RunIdentityKept
    <3>2. CASE RowClaimed(w)
      BY <3>2 DEF RowClaimed
    <3> QED
      BY <2>5, <3>1, <3>2, RowSteps DEF RowReaped, RowSettled, RowConfigured
  <2>6. ASSUME wf'[w].token # None
        PROVE  Ahead(run'[wf'[w].token].slot, run[s].slot)
    BY <2>2, <2>5, <2>6
  <2>7. ASSUME NEW k \in Workers, worker'[k] = worker[k],
               worker[k].phase \in {"publishing", "settling"}, wf'[w].token = worker'[k].run
        PROVE  wf[w].token = worker[k].run
    <3>1. wf'[w].token # None
      BY <1>0, <1>1, <2>7
    <3>2. worker[k].run \notin Fresh
      BY <2>7, WorkingRun DEF Fresh
    <3> QED
      BY <2>5, <2>7, <3>1, <3>2
  <2>8. ASSUME NEW k \in Workers, worker'[k].phase = "settling",
               wf'[w].token = worker'[k].run, worker'[k].next # NoTime
        PROVE  Ahead(worker'[k].next, run[s].slot)
    <3>1. CASE worker'[k] = worker[k] /\ worker[k].phase = "settling"
      BY <2>2, <2>7, <2>8, <3>1
    <3>2. CASE ReadForFailure(k)
      <4>1. worker'[k].next = NextRunAt(wf[Row(k).workflow], now)
        BY <1>0, <3>2 DEF ReadForFailure, WorkerState
      <4>2. Ahead(worker'[k].next, now) /\ worker'[k].next \in Int
        BY <1>0, <2>8, <4>1, NextRunAhead DEF Times, NoTime
      <4> QED
        BY <1>0, <2>3, <4>2, AheadOfEarlier
    <3> QED
      BY <2>8, <3>1, <3>2, EntersSettling
  <2>9. ASSUME NEW k \in Workers, worker'[k].phase = "publishing",
               wf'[w].token = worker'[k].run
        PROVE  run[s].slot <= worker'[k].since
    <3>1. CASE worker'[k] = worker[k] /\ worker[k].phase = "publishing"
      BY <2>2, <2>7, <2>9, <3>1
    <3>2. CASE LockForPublish(k)
      <4>1. worker[k] \in WorkerState
        BY <1>0
      <4>2. \/ worker'[k] = [worker[k] EXCEPT !.phase = "publishing", !.since = now]
            \/ worker'[k] = [worker[k] EXCEPT !.phase = "failing"]
        BY <1>0, <3>2 DEF LockForPublish
      <4>3. worker'[k].since = now
        BY <2>9, <4>1, <4>2 DEF WorkerState
      <4> QED
        BY <2>3, <4>3
    <3> QED
      BY <2>9, <3>1, <3>2, OpensPublication
  <2> QED
    BY <1>3, <2>4, <2>6, <2>8, <2>9
<1> QED
  BY <1>2, <1>3, NewlySucceeded

-----------------------------------------------------------------------------
\* The theorems

\* The scheduler starts in the invariant ...
LEMMA InitIndInv == Init => IndInv
<1> SUFFICES ASSUME Init PROVE IndInv
  OBVIOUS
<1>1. TypeOK
  BY InitTyped
<1>2. /\ wf \in [Workflows -> {InitialRow(TRUE), InitialRow(FALSE)}]
      /\ run = [r \in Runs |-> NoRow] /\ published = {}
      /\ locked = [w \in Workflows |-> None]
      /\ worker = [k \in Workers |-> IdleWorker]
      /\ caller = [c \in Callers |-> IdleCaller]
      /\ admin = [a \in Admins |-> IdleAdmin] /\ now = 0
  BY DEF Init
<1>3. \A w \in Workflows : wf[w].token = None
  BY <1>2 DEF InitialRow
<1>4. \A r \in Runs : /\ run[r].status = "absent" /\ run[r].token = None
                      /\ run[r].workflow = None /\ ~IsClaimed(r)
  BY <1>2 DEF NoRow, IsClaimed
<1>5. \A k \in Workers : worker[k].phase = "idle" /\ worker[k].checked = 0
  BY <1>2 DEF IdleWorker
<1>6. RunsOK
  BY <1>4 DEF RunsOK
<1>7. WorkersOK
  BY <1>2, <1>5 DEF WorkersOK, Working
<1>8. LocksOK
  BY <1>2 DEF LocksOK
<1>9. CallersOK /\ AdminsOK
  BY <1>2 DEF CallersOK, AdminsOK, IdleCaller, IdleAdmin
<1>10. ClaimBacked /\ PublisherHoldsFence /\ PausedHasNoClaim
  BY <1>3, <1>5 DEF ClaimBacked, PublisherHoldsFence, PausedHasNoClaim
<1>11. PublishedIffSucceeded /\ OnlyRepeatedSlotsAgain /\ SlotsOK
  BY <1>2, <1>4 DEF PublishedIffSucceeded, OnlyRepeatedSlotsAgain, SlotsOK, Succeeded
<1> QED
  BY <1>1, <1>6, <1>7, <1>8, <1>9, <1>10, <1>11 DEF IndInv

\* ... and no step leaves it.
LEMMA NextIndInv == IndInv /\ [Next]_vars => IndInv'
  BY TypesStep, RunsStep, WorkersStep, LocksStep, CallersStep, AdminsStep,
     ClaimBackedStep, PublisherStep, PublishedStep, PausedStep, SlotsStep,
     SlotsAgainStep
  DEF IndInv

\* The inductive invariant holds in every state of the scheduler.
THEOREM SchedulerInvariant == Spec => []IndInv
  BY InitIndInv, NextIndInv, PTL DEF Spec

\* Every row and every local state keeps its shape.
THEOREM TypeCorrect == Spec => []TypeOK
<1>1. IndInv => TypeOK
  BY DEF IndInv
<1> QED
  BY <1>1, SchedulerInvariant, PTL

\* A claim is always backed by the one started run that carries it.
THEOREM ClaimsAreBacked == Spec => []ClaimBacked
<1>1. IndInv => ClaimBacked
  BY DEF IndInv
<1> QED
  BY <1>1, SchedulerInvariant, PTL

\* Nobody takes the claim of an open publication transaction away.
THEOREM PublishersHoldTheirFence == Spec => []PublisherHoldsFence
<1>1. IndInv => PublisherHoldsFence
  BY DEF IndInv
<1> QED
  BY <1>1, SchedulerInvariant, PTL

\* Staged writes are published exactly for the runs that succeeded.
THEOREM NothingPublishedOnFailure == Spec => []PublishedIffSucceeded
<1>1. IndInv => PublishedIffSucceeded
  BY DEF IndInv
<1> QED
  BY <1>1, SchedulerInvariant, PTL

\* A paused or disabled workflow has no claim that could publish.
THEOREM PauseRevokesClaims == Spec => []PausedHasNoClaim
<1>1. IndInv => PausedHasNoClaim
  BY DEF IndInv
<1> QED
  BY <1>1, SchedulerInvariant, PTL

\* No scheduled slot is ever published twice, but for one the clock shows twice.
THEOREM SlotsAgainOnlyIfRepeated == Spec => []OnlyRepeatedSlotsAgain
<1>1. IndInv => OnlyRepeatedSlotsAgain
  BY DEF IndInv
<1> QED
  BY <1>1, SchedulerInvariant, PTL

\* A finished run is never reopened and its outcome never changes.
THEOREM RunsStayFinished == Spec => FinishedRunsStay
<1>1. IndInv /\ [Next]_vars => [FinishedStays]_vars
  BY FinishedStep
<1> QED
  BY <1>1, SchedulerInvariant, PTL DEF Spec, FinishedRunsStay

\* A claimed run publishes only while its workflow is enabled, not paused and
\* still claimed by it.
LEMMA PublishesStep ==
  ASSUME IndInv, [Next]_vars
  PROVE  PublishesUnderClaim
<1> SUFFICES ASSUME NEW s \in published' \ published, run[s].slot # NoTime
             PROVE  LET w == run[s].workflow IN
                    wf[w].enabled /\ ~wf[w].paused /\ wf[w].token = s
  BY DEF PublishesUnderClaim
<1>1. /\ s \in Runs /\ run'[s].status = "succeeded" /\ run[s].status # "succeeded"
      /\ IsClaimed(s) /\ s # None
  BY PublishedStep, TypesStep, NullIsNoRow
  DEF IndInv, PublishedIffSucceeded, TypeOK, IsClaimed
<1>2. IsClaimed(s)'
  BY <1>1, RunIdentityKept DEF IsClaimed, IndInv, RunsOK
<1>3. PICK k \in Workers : CommitPublish(k) /\ worker[k].run = s
  BY <1>1, <1>2, NewlySucceeded
<1>4. run[s].workflow \in Workflows /\ wf[run[s].workflow].token = s
  BY <1>3, CommitFacts
<1>5. wf[run[s].workflow] \in WorkflowRow
  BY <1>4 DEF IndInv, TypeOK
<1> QED
  BY <1>1, <1>4, <1>5 DEF IndInv, PausedHasNoClaim, WorkflowRow

\* A pause that committed before a publication wins over it.
THEOREM PublicationIsFenced == Spec => PublishOnlyUnderClaim
<1>1. IndInv /\ [Next]_vars => [PublishesUnderClaim]_vars
  BY PublishesStep
<1> QED
  BY <1>1, SchedulerInvariant, PTL DEF Spec, PublishOnlyUnderClaim

=============================================================================

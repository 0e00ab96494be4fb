-------------------------- MODULE SchedulerClaims --------------------------
(***************************************************************************)
(* The durable scheduler of Alice: fenced claims on scheduler_workflows,   *)
(* the durable scheduler_runs they create, and every actor that touches    *)
(* the two tables.                                                         *)
(*                                                                         *)
(*   Workers  run run_due_workflows_durable (the daemon, the CLI, MCP and  *)
(*            HTTP due scans all do) together with their heartbeat thread; *)
(*   Callers  run run_now_durable, a manual run of one workflow;           *)
(*   Admins   run configure_workflow, pause_all and resume_all.            *)
(*                                                                         *)
(* One action is one PostgreSQL transaction (or one statement of it when   *)
(* the code reads first and writes later), so everything that may happen   *)
(* between two transactions of one actor is a step of somebody else.  A    *)
(* claim token is a fresh uuid4 created together with the run that carries *)
(* it: the run's identity stands for it.  Application and database clocks  *)
(* are one clock; what the code reads early and uses late (checked_at, the *)
(* snapshots of a manual run, of a failed settlement and of a              *)
(* configuration request) is kept and used late here too.                  *)
(*                                                                         *)
(* A definition whose name starts with Bad is a faulty variant of the one  *)
(* that follows it; no specification uses it.  It is there to be put in    *)
(* the place of the other, to see which property notices.                  *)
(***************************************************************************)
EXTENDS Integers, FiniteSets

CONSTANTS
  Workflows,  \* scheduler_workflows rows, one per workflow_type
  Workers,    \* due-scan loops
  Callers,    \* manual run requests in flight
  Admins,     \* configuration requests in flight
  Requests,   \* what a configuration request may ask for
  Runs,       \* identities of scheduler_runs rows (a bound on their number)
  None,       \* SQL NULL
  Lease,      \* claim_lease_seconds
  Period,     \* distance of two slots of a timed schedule
  ChangeAt,   \* the instant at which the zone's offset changes (a bound: once)
  SetBack,    \* how far its clocks go back then, less than 0 if they go ahead
  Limit,      \* claims one due scan may take
  ReapBatch,  \* claims one reap may fail
  MaxTime,    \* bound on the clock
  MaxVersion, \* bound on the claim_version a configuration write may reach
  MaxCrashes  \* bound on the crashes of due-scan workers

Statuses == {"absent", "started", "succeeded", "failed"}
Kinds    == {"manual", "timed"}
Phases   == {"idle", "reaping", "claiming", "executing", "executed",
             "publishing", "failing", "settling"}
NoTime   == -1
Times    == Nat \cup {NoTime}
Config   == [enabled : BOOLEAN, paused : BOOLEAN, kind : Kinds]
Request  == [enabled : BOOLEAN \cup {None}, paused : BOOLEAN \cup {None},
             kind : Kinds \cup {None}]

ASSUME BoundsAreNaturals ==
  /\ Lease \in Nat \ {0} /\ Period \in Nat \ {0} /\ Limit \in Nat \ {0}
  /\ ReapBatch \in Nat \ {0}
  /\ ChangeAt \in Nat /\ SetBack \in Int /\ SetBack <= ChangeAt
  /\ MaxTime \in Nat /\ MaxVersion \in Nat /\ MaxCrashes \in Nat
ASSUME NullIsNoRow   == None \notin Runs \cup Workers \cup Workflows
ASSUME RequestsTyped == Requests \subseteq Request

VARIABLES
  now,       \* the clock
  wf,        \* scheduler_workflows
  run,       \* scheduler_runs
  published, \* runs whose staged plan is committed to the domain tables
  locked,    \* the worker whose publication transaction holds the row locks
  worker,    \* volatile state of the due scans
  caller,    \* volatile state of the manual requests
  admin,     \* volatile state of the configuration requests
  crashes    \* crashes so far, for the bound MaxCrashes

vars == <<now, wf, run, published, locked, worker, caller, admin, crashes>>

-----------------------------------------------------------------------------
\* compute_next_run_at: slots are times of the local clock, one every Period.
\* astimezone shows an instant on that clock; a slot turned back into an instant
\* (fold = 0) is the first of the two that show it, and one the clock skips is
\* read with the offset before the change.
LocalTime(t) == IF t < ChangeAt THEN t ELSE t - SetBack
Instant(x) == IF x < ChangeAt \/ x < ChangeAt - SetBack THEN x ELSE x + SetBack

\* "candidate > local_now" compares what the clock shows: while the clock goes
\* through an hour again, the slot it shows next is one that has been.
BadNextSlot(t) == (t \div Period) * Period  \* a slot "at or after" t
NextSlot(t) == Instant(((LocalTime(t) \div Period) + 1) * Period)

\* The slots of the hour that the clock shows twice; a slot x serves a run after t
\* if it is later, or else such a slot.
Repeated(x) == ChangeAt - SetBack < x /\ x < ChangeAt
Ahead(x, t) == t < x \/ Repeated(x)

\* NULL unless the workflow is enabled, not paused and on a timed schedule.
NextRunAt(c, t) ==
  IF c.enabled /\ ~c.paused /\ c.kind = "timed" THEN NextSlot(t) ELSE NoTime

IdleWorker == [phase |-> "idle", checked |-> 0, left |-> 0, run |-> None,
               fenced |-> FALSE, since |-> 0, next |-> NoTime]
NoRow      == [status |-> "absent", workflow |-> None, token |-> None,
               version |-> 0, expires |-> NoTime, slot |-> NoTime]
IdleCaller == [run |-> None, workflow |-> None, seen |-> None]
IdleAdmin  == [targets |-> {}, asked |-> None, seen |-> None]

\* A row is as ensure_default_workflows creates it, or as one configuration
\* that turned a timed schedule on at time 0 left it.
InitialRow(on) ==
  [enabled |-> on, paused |-> FALSE, kind |-> "timed",
   next |-> IF on THEN NextSlot(0) ELSE NoTime, token |-> None,
   version |-> IF on THEN 1 ELSE 0, expires |-> NoTime,
   last |-> None, result |-> None]

Init ==
  /\ now = 0
  /\ wf \in [Workflows -> {InitialRow(TRUE), InitialRow(FALSE)}]
  /\ run = [r \in Runs |-> NoRow]
  /\ published = {}
  /\ locked = [w \in Workflows |-> None]
  /\ worker = [k \in Workers |-> IdleWorker]
  /\ caller = [c \in Callers |-> IdleCaller]
  /\ admin = [a \in Admins |-> IdleAdmin]
  /\ crashes = 0

-----------------------------------------------------------------------------
Fresh       == {r \in Runs : run[r].status = "absent"}
Unlocked(w) == locked[w] = None
Row(k)      == run[worker[k].run]

\* The fence of heartbeat_, lock_ and finalize_scheduler_claim: the run is
\* started, run and workflow agree on token and version, neither expired.
BadLiveRunOnly(r) ==                        \* the workflow is not joined
  run[r].status = "started" /\ run[r].token = r /\ run[r].expires > now
Live(r) ==
  LET w == run[r].workflow IN
  /\ run[r].status = "started"
  /\ run[r].token = r
  /\ wf[w].token = r
  /\ wf[w].version = run[r].version
  /\ run[r].expires > now
  /\ wf[w].expires > now

\* What finalize_scheduler_claim writes when the fence held.
SettledRun(r, outcome) ==
  [run[r] EXCEPT !.status = outcome, !.token = None, !.expires = NoTime]
BadSettledWorkflow(w, r, outcome, next) ==  \* last_run_id is forgotten
  [wf[w] EXCEPT !.result = outcome, !.next = next,
                !.token = None, !.expires = NoTime]
SettledWorkflow(w, r, outcome, next) ==
  [wf[w] EXCEPT !.last = r, !.result = outcome, !.next = next,
                !.token = None, !.expires = NoTime]

-----------------------------------------------------------------------------
\* run_due_workflows_durable reads the clock once for the whole scan ...
StartScan(k) ==
  /\ worker[k].phase = "idle"
  /\ worker' = [worker EXCEPT ![k] =
       [IdleWorker EXCEPT !.phase = "reaping", !.checked = now, !.left = Limit]]
  /\ UNCHANGED <<now, wf, run, published, locked, caller, admin, crashes>>

\* ... then reaps the claims that had expired by that reading, the oldest first.
\* FOR UPDATE SKIP LOCKED passes over a run whose publication transaction is
\* open.
BadExpired(t) ==                            \* only runs that still hold a claim
  {r \in Runs : /\ run[r].status = "started" /\ run[r].token # None
                /\ run[r].expires <= t
                /\ wf[run[r].workflow].token = r
                /\ Unlocked(run[r].workflow)}
Expired(t) ==
  {r \in Runs : /\ run[r].status = "started"
                /\ run[r].token # None
                /\ run[r].expires <= t
                /\ \A j \in Workers : locked[run[r].workflow] = j
                                        => worker[j].run # r}
Oldest(D, E) ==
  /\ D = E \/ Cardinality(D) = ReapBatch
  /\ Cardinality(D) <= ReapBatch
  /\ \A d \in D, e \in E \ D : run[d].expires <= run[e].expires
ReapedRuns(D) ==
  [r \in Runs |-> IF r \in D THEN SettledRun(r, "failed") ELSE run[r]]
ReapedWorkflows(D) ==
  [w \in Workflows |->
     LET r == wf[w].token IN
     IF r \in D /\ run[r].workflow = w /\ run[r].version = wf[w].version
     THEN SettledWorkflow(w, r, "failed", wf[w].next)
     ELSE wf[w]]
Reap(k) ==
  /\ worker[k].phase = "reaping"
  /\ \E D \in SUBSET Expired(worker[k].checked) :
       /\ Oldest(D, Expired(worker[k].checked))
       /\ run' = ReapedRuns(D)
       /\ wf' = ReapedWorkflows(D)
  /\ worker' = [worker EXCEPT ![k].phase = "claiming"]
  /\ UNCHANGED <<now, published, locked, caller, admin, crashes>>

Due(w, t) ==
  /\ wf[w].enabled /\ ~wf[w].paused
  /\ wf[w].next # NoTime /\ wf[w].next <= t
  /\ wf[w].expires = NoTime \/ wf[w].expires <= t

\* claim_due_scheduler_workflow: the earliest due row nobody holds locked gets
\* a new token, version and expiry, and a started run that carries all three.
Claimable(k) == {w \in Workflows : Unlocked(w) /\ Due(w, worker[k].checked)}

ClaimedRow(w, r) ==
  [wf[w] EXCEPT !.token = r, !.version = wf[w].version + 1,
                !.expires = now + Lease]

MayClaim(k) == worker[k].phase = "claiming" /\ worker[k].left > 0

Claim(k, w, r) ==
  /\ MayClaim(k)
  /\ w \in Claimable(k)
  /\ \A v \in Claimable(k) : wf[w].next <= wf[v].next
  /\ r \in Fresh
  /\ wf' = [wf EXCEPT ![w] = ClaimedRow(w, r)]
  /\ run' = [run EXCEPT ![r] =
       [status |-> "started", workflow |-> w, token |-> r,
        version |-> ClaimedRow(w, r).version, expires |-> now + Lease,
        slot |-> wf[w].next]]
  /\ worker' = [worker EXCEPT ![k] =
       [@ EXCEPT !.phase = "executing", !.run = r, !.fenced = TRUE]]
  /\ UNCHANGED <<now, published, locked, caller, admin, crashes>>

\* Nothing left to claim, or the limit (or the bound Runs) is reached.
EndScan(k) ==
  /\ worker[k].phase = "claiming"
  /\ worker[k].left = 0 \/ Claimable(k) = {} \/ Fresh = {}
  /\ worker' = [worker EXCEPT ![k] = IdleWorker]
  /\ UNCHANGED <<now, wf, run, published, locked, caller, admin, crashes>>

-----------------------------------------------------------------------------
\* The heartbeat thread extends a live fence on both rows.  The join that ends
\* it has a timeout: a renewal under way may still land after the provider
\* returned.
Heartbeat(k) ==
  LET r == worker[k].run IN
  /\ worker[k].phase \in {"executing", "executed", "failing", "settling"}
  /\ worker[k].fenced
  /\ Live(r) /\ Unlocked(run[r].workflow)
  /\ run' = [run EXCEPT ![r].expires = now + Lease]
  /\ wf' = [wf EXCEPT ![run[r].workflow].expires = now + Lease]
  /\ UNCHANGED <<now, published, locked, worker, caller, admin, crashes>>

\* A renewal that found the fence gone, or that raised, ends the thread and
\* sets fence_lost for good.
HeartbeatLost(k) ==
  /\ worker[k].phase = "executing" /\ worker[k].fenced
  /\ worker' = [worker EXCEPT ![k].fenced = FALSE]
  /\ UNCHANGED <<now, wf, run, published, locked, caller, admin, crashes>>

\* The provider returned: a plan may be published unless the fence is known to
\* be lost; an exception has nothing to publish.
Execute(k) ==
  /\ worker[k].phase = "executing"
  /\ \E ok \in BOOLEAN :
       worker' = [worker EXCEPT ![k].phase =
                    IF ok /\ worker[k].fenced THEN "executed" ELSE "failing"]
  /\ UNCHANGED <<now, wf, run, published, locked, caller, admin, crashes>>

\* lock_scheduler_claim_for_publish opens the publication transaction.
LockForPublish(k) ==
  LET r == worker[k].run  w == run[r].workflow IN
  /\ worker[k].phase = "executed" /\ Unlocked(w)
  /\ IF Live(r)
     THEN /\ worker' = [worker EXCEPT ![k] =
                          [@ EXCEPT !.phase = "publishing", !.since = now]]
          /\ locked' = [locked EXCEPT ![w] = k]
     ELSE /\ worker' = [worker EXCEPT ![k].phase = "failing"]
          /\ UNCHANGED locked
  /\ UNCHANGED <<now, wf, run, published, caller, admin, crashes>>

BackToClaiming(k) ==
  worker' = [worker EXCEPT ![k] =
    [@ EXCEPT !.phase = "claiming", !.left = worker[k].left - 1, !.run = None,
              !.fenced = FALSE, !.since = 0, !.next = NoTime]]

\* plan.publish and finalize_scheduler_claim("succeeded") commit together; the
\* next run is computed from the locked row at some instant of the transaction.
CommitPublish(k) ==
  LET r == worker[k].run  w == run[r].workflow IN
  /\ worker[k].phase = "publishing"
  /\ Live(r)
  /\ \E t \in worker[k].since .. now :
       wf' = [wf EXCEPT ![w] =
                SettledWorkflow(w, r, "succeeded", NextRunAt(wf[w], t))]
  /\ run' = [run EXCEPT ![r] = SettledRun(r, "succeeded")]
  /\ published' = published \cup {r}
  /\ locked' = [locked EXCEPT ![w] = None]
  /\ BackToClaiming(k)
  /\ UNCHANGED <<now, caller, admin, crashes>>

\* A staged write raised, or finalize found the claim expired: rollback.
BadAbortPublish(k) ==                       \* the staged writes stay
  /\ worker[k].phase = "publishing"
  /\ locked' = [locked EXCEPT ![Row(k).workflow] = None]
  /\ published' = published \cup {worker[k].run}
  /\ worker' = [worker EXCEPT ![k].phase = "failing"]
  /\ UNCHANGED <<now, wf, run, caller, admin, crashes>>
BadAbortPublishLocked(k) ==                 \* the row locks are never released
  /\ worker[k].phase = "publishing"
  /\ worker' = [worker EXCEPT ![k].phase = "failing"]
  /\ UNCHANGED <<now, wf, run, published, locked, caller, admin, crashes>>
AbortPublish(k) ==
  /\ worker[k].phase = "publishing"
  /\ locked' = [locked EXCEPT ![Row(k).workflow] = None]
  /\ worker' = [worker EXCEPT ![k].phase = "failing"]
  /\ UNCHANGED <<now, wf, run, published, caller, admin, crashes>>

\* The failure transaction reads the workflow row without locking it ...
ReadForFailure(k) ==
  /\ worker[k].phase = "failing"
  /\ worker' = [worker EXCEPT ![k] =
       [@ EXCEPT !.phase = "settling",
                 !.next = NextRunAt(wf[Row(k).workflow], now)]]
  /\ UNCHANGED <<now, wf, run, published, locked, caller, admin, crashes>>

\* ... and finalizes with what it read, if the fence still holds.
SettleFailed(k) ==
  LET r == worker[k].run  w == run[r].workflow IN
  /\ worker[k].phase = "settling" /\ Unlocked(w)
  /\ IF Live(r)
     THEN /\ wf' = [wf EXCEPT ![w] =
                      SettledWorkflow(w, r, "failed", worker[k].next)]
          /\ run' = [run EXCEPT ![r] = SettledRun(r, "failed")]
     ELSE UNCHANGED <<wf, run>>
  /\ BackToClaiming(k)
  /\ UNCHANGED <<now, published, locked, caller, admin, crashes>>

\* The process dies anywhere; its open transaction rolls back, its claim stays.
Crash(k) ==
  /\ worker[k].phase # "idle" /\ crashes < MaxCrashes
  /\ worker' = [worker EXCEPT ![k] = IdleWorker]
  /\ locked' = [w \in Workflows |-> IF locked[w] = k THEN None ELSE locked[w]]
  /\ crashes' = crashes + 1
  /\ UNCHANGED <<now, wf, run, published, caller, admin>>

-----------------------------------------------------------------------------
\* begin_run: a started run with no claim, and the row as it was then.
BeginRun(c, w, r) ==
  /\ caller[c].run = None
  /\ r \in Fresh
  /\ run' = [run EXCEPT ![r] =
       [NoRow EXCEPT !.status = "started", !.workflow = w]]
  /\ caller' = [caller EXCEPT ![c] =
       [run |-> r, workflow |-> w,
        seen |-> [enabled |-> wf[w].enabled, paused |-> wf[w].paused,
                  kind |-> wf[w].kind]]]
  /\ UNCHANGED <<now, wf, published, locked, worker, admin, crashes>>

\* update_scheduler_run, and the result-only update_scheduler_workflow, which
\* leaves a live claim alone and reschedules from the row begin_run saw.
BadManualRow(c, outcome) ==                 \* bookkeeping revokes the claim
  [wf[caller[c].workflow] EXCEPT
     !.last = caller[c].run, !.result = outcome,
     !.next = NextRunAt(caller[c].seen, now), !.token = None, !.expires = NoTime]
ManualRow(c, outcome) ==
  [wf[caller[c].workflow] EXCEPT
     !.last = caller[c].run, !.result = outcome,
     !.next = NextRunAt(caller[c].seen, now)]

FinishManual(c, outcome) ==
  LET r == caller[c].run  w == caller[c].workflow IN
  /\ r # None /\ Unlocked(w)
  /\ run' = [run EXCEPT ![r].status = outcome]
  /\ wf' = [wf EXCEPT ![w] = ManualRow(c, outcome)]
  /\ caller' = [caller EXCEPT ![c] = IdleCaller]
  /\ UNCHANGED <<now, locked, worker, admin, crashes>>

PublishManual(c) ==
  /\ FinishManual(c, "succeeded")
  /\ published' = published \cup {caller[c].run}

FailManual(c) ==
  /\ FinishManual(c, "failed")
  /\ UNCHANGED published

\* The request dies while its plan is prepared; nothing will finish its run.
AbandonManual(c) ==
  /\ caller[c].run # None
  /\ caller' = [caller EXCEPT ![c] = IdleCaller]
  /\ UNCHANGED <<now, wf, run, published, locked, worker, admin, crashes>>

-----------------------------------------------------------------------------
\* configure_workflow reads the row (pause_all and resume_all: every row) ...
ReadConfig(a, targets, request) ==
  /\ admin[a].targets = {}
  /\ admin' = [admin EXCEPT ![a] =
       [targets |-> targets, asked |-> request,
        seen |-> [w \in targets |-> [enabled |-> wf[w].enabled,
                                     paused |-> wf[w].paused,
                                     kind |-> wf[w].kind]]]]
  /\ UNCHANGED <<now, wf, run, published, locked, worker, caller, crashes>>

Asked(value, current) == IF value = None THEN current ELSE value
NewConfig(a, w) ==
  LET ask == admin[a].asked  old == admin[a].seen[w] IN
  [enabled |-> Asked(ask.enabled, old.enabled),
   paused  |-> Asked(ask.paused, old.paused),
   kind    |-> Asked(ask.kind, old.kind)]

\* ... and overwrites it; a configuration write revokes the live claim.
BadConfigured(w, c) ==                      \* a configuration keeps the claim
  [wf[w] EXCEPT !.enabled = c.enabled, !.paused = c.paused, !.kind = c.kind,
                !.next = NextRunAt(c, now)]
Configured(w, c) ==
  [wf[w] EXCEPT !.enabled = c.enabled, !.paused = c.paused, !.kind = c.kind,
                !.next = NextRunAt(c, now), !.token = None,
                !.version = wf[w].version + 1, !.expires = NoTime]

WriteConfig(a) ==
  /\ admin[a].targets # {}
  /\ \A w \in admin[a].targets : Unlocked(w) /\ wf[w].version < MaxVersion
  /\ wf' = [w \in Workflows |->
       IF w \in admin[a].targets THEN Configured(w, NewConfig(a, w)) ELSE wf[w]]
  /\ admin' = [admin EXCEPT ![a] = IdleAdmin]
  /\ UNCHANGED <<now, run, published, locked, worker, caller, crashes>>

Tick ==
  /\ now < MaxTime
  /\ now' = now + 1
  /\ UNCHANGED <<wf, run, published, locked, worker, caller, admin, crashes>>

-----------------------------------------------------------------------------
ClaimSome(k) == \E w \in Workflows, r \in Runs : Claim(k, w, r)

\* What a due scan does of its own accord: everything but dying.
WorkerStep(k) ==
  \/ StartScan(k) \/ Reap(k) \/ ClaimSome(k) \/ EndScan(k)
  \/ Execute(k) \/ LockForPublish(k) \/ CommitPublish(k) \/ AbortPublish(k)
  \/ ReadForFailure(k) \/ SettleFailed(k)
HeartbeatStep(k) == Heartbeat(k) \/ HeartbeatLost(k)
CallerStep(c) ==
  \/ \E w \in Workflows, r \in Runs : BeginRun(c, w, r)
  \/ PublishManual(c) \/ FailManual(c) \/ AbandonManual(c)
AdminStep(a) ==
  \/ \E w \in Workflows, q \in Requests : ReadConfig(a, {w}, q)
  \/ \E q \in Requests : /\ q.enabled = None /\ q.kind = None
                         /\ ReadConfig(a, Workflows, q)
  \/ WriteConfig(a)

Next ==
  \/ Tick
  \/ \E k \in Workers : WorkerStep(k) \/ HeartbeatStep(k) \/ Crash(k)
  \/ \E c \in Callers : CallerStep(c)
  \/ \E a \in Admins : AdminStep(a)

Spec == Init /\ [][Next]_vars

\* The daemon scans for ever and the provider call returns: it has a timeout.
FairSpec == Spec /\ WF_vars(Tick) /\ \A k \in Workers : WF_vars(WorkerStep(k))

-----------------------------------------------------------------------------
RunRow == [status : Statuses, workflow : Workflows \cup {None},
           token : Runs \cup {None}, version : Nat, expires : Times, slot : Times]
WorkflowRow == [enabled : BOOLEAN, paused : BOOLEAN, kind : Kinds, next : Times,
                token : Runs \cup {None}, version : Nat, expires : Times,
                last : Runs \cup {None}, result : Statuses \cup {None}]
WorkerState == [phase : Phases, checked : Nat, left : Nat,
                run : Runs \cup {None}, fenced : BOOLEAN, since : Nat,
                next : Times]
CallerState == [run : Runs \cup {None}, workflow : Workflows \cup {None},
                seen : Config \cup {None}]
AdminState  == [targets : SUBSET Workflows, asked : Requests \cup {None},
                seen : (UNION {[W -> Config] : W \in SUBSET Workflows})
                         \cup {None}]

\* Every variable keeps the shape of the row or local state it stands for.
TypeOK ==
  /\ now \in Nat
  /\ wf \in [Workflows -> WorkflowRow]
  /\ run \in [Runs -> RunRow]
  /\ published \in SUBSET Runs
  /\ locked \in [Workflows -> Workers \cup {None}]
  /\ worker \in [Workers -> WorkerState]
  /\ caller \in [Callers -> CallerState]
  /\ admin \in [Admins -> AdminState]
  /\ crashes \in Nat

\* A workflow's claim is always backed by one started run of that workflow
\* that carries the same token, version and expiry (claim, heartbeat,
\* finalize, reap and configure keep the two tables in step).
ClaimBacked ==
  \A w \in Workflows : wf[w].token # None =>
    LET r == wf[w].token IN
    /\ run[r].status = "started"
    /\ run[r].workflow = w
    /\ run[r].token = r
    /\ run[r].version = wf[w].version
    /\ run[r].expires = wf[w].expires

\* While a publication transaction is open nobody can take its claim away: no
\* configuration, reaper, heartbeat or second claim reaches the locked rows.
PublisherHoldsFence ==
  \A k \in Workers : worker[k].phase = "publishing" =>
    /\ locked[Row(k).workflow] = k
    /\ wf[Row(k).workflow].token = worker[k].run
    /\ Row(k).status = "started"

\* Staged writes are in the domain tables exactly for the runs that are marked
\* succeeded: provider failure or fence loss publishes none of them.
PublishedIffSucceeded ==
  published = {r \in Runs : run[r].status = "succeeded"}

\* A scheduled slot is published at most once, however often it is claimed
\* again after a crash, an expiry, a reap or a reconfiguration, but for a slot
\* the local clock shows twice: compute_next_run_at may name that one again.
OnlyRepeatedSlotsAgain ==
  \A r, s \in published :
    (/\ run[r].slot # NoTime
     /\ run[r].workflow = run[s].workflow /\ run[r].slot = run[s].slot)
    => r = s \/ Repeated(run[r].slot)

\* A paused or disabled workflow has no claim left that could publish.
PausedHasNoClaim ==
  \A w \in Workflows : (wf[w].paused \/ ~wf[w].enabled) => wf[w].token = None

\* A row has a next run exactly when its own configuration schedules one.
\* Every write but the manual bookkeeping keeps this (see NextRunsPlanned).
Scheduled(c) == c.enabled /\ ~c.paused /\ c.kind = "timed"
Coherent(w) == wf[w].next # NoTime <=> Scheduled(wf[w])
NextRunCoherent == \A w \in Workflows : Coherent(w)

\* last_run_id and last_result of a workflow tell the truth about that run,
\* whichever of the four writers (finalize, reap, manual success or failure)
\* came last.
LastResultTrue ==
  \A w \in Workflows : wf[w].result # None =>
    wf[w].last # None /\ run[wf[w].last].status = wf[w].result

\* A finished run is never reopened, and its outcome never changes.
FinishedStays ==
  \A r \in Runs : run[r].status \in {"succeeded", "failed"} => run'[r] = run[r]
FinishedRunsStay == [][FinishedStays]_vars

\* A claim leaves a workflow only because its run is finished in the same
\* step, or because the version moved on (a configuration, or a new claim):
\* manual bookkeeping and late workers never drop somebody's claim.
ReleaseIsAccounted ==
  \A w \in Workflows : (wf[w].token # None /\ wf'[w].token # wf[w].token) =>
    \/ run'[wf[w].token].status \in {"succeeded", "failed"}
    \/ wf'[w].version > wf[w].version
ClaimReleaseAccounted == [][ReleaseIsAccounted]_vars

\* A manual run ends that was begun when the row was scheduled and ends when it
\* is not, or the other way round.
StaleManualEnd(w) ==
  \E c \in Callers :
    /\ caller[c].workflow = w /\ caller[c].run # None /\ caller'[c].run = None
    /\ run'[caller[c].run].status \in {"succeeded", "failed"}
    /\ ~(Scheduled(caller[c].seen) <=> Scheduled(wf[w]))

\* Whoever writes a configuration or a next run leaves the two in agreement, also
\* where they had not been: a scan that settles with what it read earlier, a
\* reap, a request over a live claim.  The one exception is a manual run that
\* outlived a change of the configuration it saw.
PlannedStep ==
  \A w \in Workflows :
    \/ Coherent(w)'
    \/ /\ wf'[w].next = wf[w].next /\ wf'[w].kind = wf[w].kind
       /\ wf'[w].enabled = wf[w].enabled /\ wf'[w].paused = wf[w].paused
    \/ StaleManualEnd(w)
NextRunsPlanned == [][PlannedStep]_vars

\* A claimed run publishes only while its workflow is enabled, not paused and
\* still claimed by it: a pause that committed earlier wins.
PublishesUnderClaim ==
  \A r \in published' \ published : run[r].slot # NoTime =>
    LET w == run[r].workflow IN
    wf[w].enabled /\ ~wf[w].paused /\ wf[w].token = r
PublishOnlyUnderClaim == [][PublishesUnderClaim]_vars

\* A claim that expired (its worker died, or its heartbeat failed) does not
\* leave its run started for ever: a later scan fails it.
ClaimExpired(r) == /\ run[r].status = "started" /\ run[r].token # None
                   /\ run[r].expires <= now
ExpiredClaimsReaped ==
  \A r \in Runs : ClaimExpired(r) ~> run[r].status \in {"succeeded", "failed"}

\* A due workflow does not stay due for ever while runs can still be created:
\* a crashed claim, a lost lock or a busy worker only delays it.
DueWorkflowsServed ==
  \A w \in Workflows :
    (Due(w, now) /\ Fresh # {}) ~> (~Due(w, now) \/ Fresh = {})

\* A committed pause is lifted only by a request that asks to resume: the global
\* pause is respected by concurrent configuration requests.
LiftedByRequest ==
  \A w \in Workflows : (wf[w].paused /\ ~wf'[w].paused) =>
    \E a \in Admins : /\ w \in admin[a].targets /\ admin'[a].targets = {}
                      /\ admin[a].asked.paused = FALSE
PauseIsRespected == [][LiftedByRequest]_vars

\* What test_scheduler_pause_clears_stale_next_run says of a paused row.
PausedHasNoNextRun ==
  \A w \in Workflows : wf[w].paused => wf[w].next = NoTime

-----------------------------------------------------------------------------
\* The parts of the inductive invariant: what each actor knows about the rows
\* it will write later.

Working(k) == worker[k].phase \in Phases \ {"idle", "reaping", "claiming"}
IsClaimed(r) == run[r].slot # NoTime
Succeeded(w) == {r \in Runs : /\ run[r].status = "succeeded"
                              /\ run[r].workflow = w /\ IsClaimed(r)}

\* A token is the run's own; a row that exists belongs to a workflow.
RunsOK ==
  \A r \in Runs :
    /\ run[r].token # None => run[r].token = r /\ run[r].status = "started"
    /\ run[r].status = "absent" <=> run[r].workflow = None
    /\ run[r].status = "absent" => ~IsClaimed(r)
    /\ run[r].token # None => IsClaimed(r)
    /\ IsClaimed(r) => run[r].slot <= now

\* A worker in the middle of a claim works for an existing claimed run.
WorkersOK ==
  \A k \in Workers :
    /\ worker[k].checked <= now
    /\ Working(k) => /\ worker[k].run \in Runs /\ IsClaimed(worker[k].run)
    /\ Working(k) => worker[k].left > 0
    /\ worker[k].phase = "publishing" => Row(k).slot <= worker[k].since

\* The row locks are held by publication transactions and by nobody else.
LocksOK ==
  \A w \in Workflows : locked[w] # None =>
    /\ worker[locked[w]].phase = "publishing"
    /\ Row(locked[w]).workflow = w

\* A manual request owns its started run, which no claim ever named.
CallersOK ==
  \A c \in Callers : caller[c].run # None =>
    /\ caller[c].workflow \in Workflows
    /\ run[caller[c].run].workflow = caller[c].workflow
    /\ run[caller[c].run].status = "started"
    /\ run[caller[c].run].token = None
    /\ ~IsClaimed(caller[c].run)
    /\ \A d \in Callers : caller[d].run = caller[c].run => d = c

\* A configuration request decides from a whole row for each of its targets.
AdminsOK ==
  \A a \in Admins : admin[a].targets # {} =>
    /\ admin[a].asked \in Requests
    /\ admin[a].seen \in [admin[a].targets -> Config]

\* The next run, the slot being claimed and the next run a failing worker will
\* write all lie after every slot of the workflow that was published, or in the
\* repeated hour; a publication opens after them all.
SlotsOK ==
  \A w \in Workflows : \A s \in Succeeded(w) :
    /\ wf[w].next # NoTime => Ahead(wf[w].next, run[s].slot)
    /\ wf[w].token # None => Ahead(run[wf[w].token].slot, run[s].slot)
    /\ \A k \in Workers : wf[w].token = worker[k].run =>
         /\ (worker[k].phase = "settling" /\ worker[k].next # NoTime)
              => Ahead(worker[k].next, run[s].slot)
         /\ worker[k].phase = "publishing" => run[s].slot <= worker[k].since

IndInv ==
  /\ TypeOK /\ RunsOK /\ WorkersOK /\ LocksOK /\ CallersOK /\ AdminsOK
  /\ ClaimBacked /\ PublisherHoldsFence /\ PublishedIffSucceeded
  /\ PausedHasNoClaim /\ SlotsOK /\ OnlyRepeatedSlotsAgain

=============================================================================

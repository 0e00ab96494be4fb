# Alice Memory: a TLA+ development

This directory holds TLA+ models of the concurrent core of Alice Memory, the TLC
configurations that check them on small instances, and proofs, checked by TLAPS,
that the most important safety properties hold for every instance.

Paths below are relative to `src/apps/api/src/alicebot_api/` unless they start
with `docs/` or `tests/` (which are under `src/`).

## 1. The system

Alice is a local-first memory and continuity service for agents: a FastAPI
application, an MCP server and a command line over one service layer, with
PostgreSQL (all features) or SQLite (the small profile) below it. Most of its
two hundred thousand lines are sequential: one request, one transaction,
rows in and rows out. The parts where order matters are few, and they are what
this project is about.

### 1.1 Inventory

| component | state it keeps | operations | what is hard | what makes it correct |
|---|---|---|---|---|
| durable scheduler (`vnext_scheduler.py`, `vnext_scheduler_runtime.py`, `vnext_store.py`) | `scheduler_workflows` (configuration, next run, claim token, version, expiry), `scheduler_runs` (status, claim columns, slot) | due scan (reap, claim, heartbeat, publish, fail), manual run, configure, pause_all, resume_all | several scans (daemon, CLI, MCP, HTTP) and users write the same rows; the provider call runs outside any transaction; leases expire; processes die | staged writes are published once, only under a live fence, never after a pause; no claim or due workflow is stuck |
| scheduler daemon (`vnext_scheduler_runtime.py`) | owner lease, pid record and status file; processes | start (background, foreground), stop, status | three files and no lock across them; pids reused, identities unreadable, zombies, kills | one scan loop at a time; stop and status address that loop; dead owners do not block a start |
| task queue and artifact review (`vnext_queue.py`, `vnext_review.py`, `vnext_artifact_review.py`) | `task_queue`, `generated_artifacts`, the memories promoted from them | enqueue, process next (SKIP LOCKED), complete, fail, review, promote | two callers, keys that may read some tasks only, lost transactions, two reviewers | a task yields one result; decisions stand; a trusted memory stands for a promoted artifact; nobody starves behind what he may not read |
| response generation jobs (`response_jobs.py`, `response_generation.py`, `routers/providers.py`) | `response_generation_jobs`, thread events | reserve, prepare, call the provider, finalize, poll, abandon | retries of a request with the same key, crash between call and result, another turn on the thread | one provider call and one user turn per key; every answer for a key agrees |
| embedding compare-and-set, vector caches (`vnext_embeddings.py`, `embedding_cas.py`, `vector_scan.py`) | vectors beside the texts they belong to, a stamp, resident matrices | embed, store, clear, search | the text changes while the provider computes; the statements of one search run on different snapshots | a stored vector is that of the stored text; a resident vector is the stored one; a ranking misses no candidate |
| browser clip capabilities | one-time capability rows | issue, redeem, expire | double submit, expiry | redeemed at most once and not after expiry |
| memory commit and lifecycle (`vnext_memory_commit.py`, `vnext_lifecycle.py`, `vnext_memory_review.py`) | memories, their confirmations, supersession pointers, merge candidates | commit, confirm, correct, forget, undo, merge, expire, review, sweep | five surfaces write one row; candidates and sweeps are computed from rows that change before they are applied | retirement is final; pointers agree and have no cycle; a merged row and its merge are never both in use; what was refused stays out |
| project update review (`vnext_projects.py`) | candidate memories and artifacts under a digest, their events | generate, accept, edit, reject, redact | generators with equal inputs; a review repeated long afterwards | one candidate per inputs; memory and artifact tell one outcome; the stored events prove it |
| agents, policies, approvals | profiles, policies, approval rows | request, resolve, execute | approval resolved twice | executed at most once, as approved |
| tasks, task runs, proxy execution, budgets (legacy) | tasks, steps, runs, budgets | tick, pause, retry, execute | retries, budget windows | no execution over a budget |
| provider configuration and secrets | configuration revision, secret files | update, rotate, delete | row and file change in two steps | the row never points to a missing secret |
| connectors, capture, retrieval, labels, clustering and roll-ups, legacy continuity, SQLite profile | rows | sequential | contents, not order | unit-testable functions of their input |
| HTTP, MCP, CLI, install, migrations, web, evaluation | none of their own | parsing, formatting, I/O | none here | out of scope |

`PROJECT.json` lists each with its files and status.

### 1.2 How the parts interact

* The **daemon** runs the **due scan** (`run_due_workflows_durable`) in a loop.
  The HTTP route, the MCP tool and the CLI run the same scan beside it.
* A scan and a **manual run** share the two scheduler tables and nothing else.
  A scan takes a claim in one transaction, prepares a plan with no transaction
  open while a **heartbeat thread** renews the claim over its own connection, and
  publishes plan and result in a third transaction.
* **Configuration** requests read a workflow and then write it; the write revokes
  a live claim (`revoke_claim`), the bookkeeping of a manual run must not.
* Start, stop and status commands share only three files and the operating
  system's table of processes. Acquiring, replacing and releasing the owner lease
  are done under one `flock`; reading the files and signalling are not.
* The **scheduler** also stages what `MemoryLifecycle` and `ProjectUpdates` apply:
  a staleness sweep, merge candidates and project update candidates are computed
  with no transaction open and published in the scan's third transaction, over
  whatever the rows have become.
* Requests that change a **memory** meet in the user's lifecycle lock; the
  staleness sweep and the generation of candidates stand outside it.
* A **task** call is one transaction that holds its task's row; a **review** one that
  holds its artifact's row. A promotion stores a memory.
* Every change of a memory's text clears its **vector**; the vector is computed with
  no transaction open and stored by compare-and-set. Processes learn of lost
  vectors through the stamp alone.
* A **response job** request is two transactions, a provider call and a third
  transaction. Requests meet in the job row of their key, and all writers of a
  thread (other requests, the proxy execution) in the thread's advisory lock.

### 1.3 Hazards

`PROJECT.json` lists, at the line where each bites, what could go wrong here and
would hardly be met by a test. For the scheduler: a publication racing a reap, a
pause, a renewal or a second claim; a lost fence that is read once; a lease that
ends inside the publication transaction; a crash with a claim held; a reap that
comes after a second claim; manual bookkeeping over a live claim; stale reads
written back (manual run, configuration); a slot served again although the clock
shows it once; starvation. For the daemon: two starts reclaiming one dead owner; a
reused pid or an unreadable identity; the hand-over that precedes the records; stop
between a look and a signal; a second SIGTERM; a crash that leaves a torn owner
file. For the response jobs: a request that dies after the provider was called; a
late answer racing a retry that gives the job up; a reply inserted before its fence
is checked; a thread that grows while the model thinks; two lock orders; a key
reused. For memories: a sweep or a merge that applies what it read to rows that have
changed; pointers set by undo, merge and review in any order; a confirmation that
comes late or twice. For the task queue: two callers of one task, a lost
transaction, a limited key behind tasks it may not read, two reviewers. For project
updates: generators with equal inputs, reviews repeated after generators and later
changes went on, and sweeps that mark what they read before. For vectors: a late
answer, a text corrected back, a stamp that is not rewritten, a search whose
statements see different tables.

## 2. Modules

| module | what it is |
|---|---|
| `SchedulerClaims` | the durable scheduler: state, one action per transaction, properties, inductive invariant |
| `FencedLease` | what the claim columns promise, without time, rows or workers |
| `SchedulerRefinement` | the refinement mapping from `SchedulerClaims` to `FencedLease` |
| `MCSchedulerClaims` | requests and symmetries for TLC |
| `SchedulerClaimsProofs` | theorems about `SchedulerClaims` |
| `SchedulerRefinementProofs` | the refinement of `FencedLease`, and what releases, results and planned runs promise, as theorems |
| `SchedulerDaemon` | launchers, daemons, stop commands and their files |
| `MCSchedulerDaemon` | for TLC |
| `SchedulerDaemonProofs` | theorems about `SchedulerDaemon` |
| `ResponseJobs` | the requests of one thread, their jobs and the thread |
| `KeyedCall` | what an idempotency key promises, without requests, leases or locks |
| `ResponseRefinement` | the refinement mapping from `ResponseJobs` to `KeyedCall` |
| `MCResponseJobs` | for TLC |
| `ResponseJobsProofs` | theorems about `ResponseJobs`, and the refinement |
| `MemoryLifecycle` | memory rows, their confirmations, merge candidates and the staleness sweep |
| `Succession` | what becomes of rows and their successors, without requests, reviews or merges |
| `MemoryRefinement` | the refinement mapping from `MemoryLifecycle` to `Succession` |
| `MCMemoryLifecycle` | symmetry for TLC |
| `MemoryLifecycleProofs` | theorems about `MemoryLifecycle`, and the refinement |
| `TaskQueue` | queued tasks, generated artifacts and their review |
| `WorkDesk` | what the queue and the review promise, without callers, locks, transactions or labels |
| `TaskQueueRefinement` | the refinement mapping from `TaskQueue` to `WorkDesk` |
| `MCTaskQueue` | the labels of callers for TLC |
| `TaskQueueProofs` | theorems about `TaskQueue`, and the refinement |
| `ProjectUpdates` | update candidates of a project: generators, reviews, redaction |
| `ReviewBook` | what the digests and the review promise, without generators, events or rows |
| `ProjectUpdatesRefinement` | the refinement mapping from `ProjectUpdates` to `ReviewBook` |
| `MCProjectUpdates` | symmetry for TLC |
| `ProjectUpdatesProofs` | theorems about `ProjectUpdates`, and the refinement |
| `VectorCache` | embeddings by compare-and-set, the stamp, a search with resident vectors |
| `VectorHistory` | `VectorCache` with what every row has shown since a search began |
| `MCVectorCache` | symmetry for TLC |
| `VectorCacheProofs` | theorems about `VectorCache` and `VectorHistory` |

A definition whose name begins with `Bad` is a faulty variant of the definition
that follows it (a dropped guard, a missing reset, a swapped order). No
specification uses it: it documents which mistake each property would notice.

### 2.1 SchedulerClaims

| variable | code |
|---|---|
| `wf` | rows of `scheduler_workflows`; `next` is `next_run_at`, `token`/`version`/`expires` the claim columns, `last`/`result` are `last_run_id`/`last_result` |
| `run` | rows of `scheduler_runs`; `slot` is the `scheduled_for` of a claimed run (none for a manual one) |
| `published` | runs whose staged plan is committed to the domain tables |
| `locked` | the row locks that an open publication transaction holds |
| `worker` | what one `run_due_workflows_durable` call knows: `checked` is `checked_at`, `left` what remains of `limit`, `fenced` the negation of `fence_lost`, `next` the next run it read for a failure |
| `caller` | a `run_now_durable` call: its run, and the workflow row it read first |
| `admin` | a `configure_workflow`, `pause_all` or `resume_all` call: its targets, its request and the rows it read |

| action | code |
|---|---|
| `StartScan`, `Reap`, `Claim`, `EndScan` | the scan's head and loop, `reap_expired_scheduler_claims`, `claim_due_scheduler_workflow` |
| `Heartbeat`, `HeartbeatLost` | `_claim_heartbeat` and `heartbeat_scheduler_claim`, including a renewal that lands after the join's timeout |
| `Execute` | the provider call, with or without a plan |
| `LockForPublish`, `CommitPublish`, `AbortPublish` | the publication transaction: `lock_scheduler_claim_for_publish`, `plan.publish`, `finalize_scheduler_claim`, or its rollback |
| `ReadForFailure`, `SettleFailed` | the failure transaction: an unlocked read, then a fenced finalize |
| `Crash` | the process dies, or an exception leaves the scan |
| `BeginRun`, `PublishManual`, `FailManual`, `AbandonManual` | `begin_run`, `publish_started_workflow`, `fail_started_workflow`, a request that dies in between |
| `ReadConfig`, `WriteConfig` | the read and the write of a configuration request |
| `Tick` | the clock |

Abstractions. A claim token is a fresh `uuid4` that is created with the run that
carries it, so the run's identity stands for it. The clock of the application
and that of the database are one. A schedule is either manual or timed with a
fixed distance `Period` between slots. Slots are times of the zone's local clock,
whose offset changes at the instant `ChangeAt`: the clock goes back by `SetBack`, or
ahead if that is negative, once in a behaviour (a bound). `NextSlot` compares the
times that the clock shows, as `compute_next_run_at` does: Python leaves `fold` aside
when it compares two datetimes of one zone. A slot that the clock shows twice is
read as the first of the two instants, a skipped one with the offset before the
change, as `astimezone` does with `fold` = 0. The rows that
`ensure_default_workflows` creates exist from the start. `pause_all` and
`resume_all` read all rows at one instant and write them in one step: the code
reads and writes row by row inside one transaction, so other transactions see
its writes together, but it may read later rows later than the model does. The
transaction-level advisory lock of a publication excludes nothing that the row
locks do not. Reports, plans and event-log entries have no contents. The
single-transaction `run_now` (`cli/capture.py`, `cli/smokes.py`) is `BeginRun`
directly followed by `PublishManual` or `FailManual`: other transactions see both
at its commit. `run_due_workflows` of `VNextSchedulerService`, which nothing but
tests calls, is not modelled.

### 2.2 FencedLease and SchedulerRefinement

`FencedLease` says that a workflow has at most one holder, that a claimed run
publishes only while it holds its workflow, that a run ends once and that a holder
may be displaced or revoked at any time. `SchedulerRefinement` maps `holder` to the
token column, `state` to the run's status and `claimed` to the runs with a slot.
That the mapping is a refinement means that neither lease expiry nor any order of
reaps, renewals and configuration is visible to the domain tables other than
as a displaced holder.

### 2.3 SchedulerDaemon

| variable | code |
|---|---|
| `phase` | how far each process (a launcher or a daemon of a start command) is |
| `owner`, `pidFile`, `status` | `<pid file>.owner`, the pid record, the status file: the process each names |
| `stop` | the daemons whose `stop_requested` is set |
| `target` | the process a stop command has looked at and is about to signal |

`Acquire`, `HandOver` and the two releases are `_acquire_owner_lease`,
`_replace_owner_lease` and `_release_owner_lease` (one action each: they run under
`_lease_guard`). `LauncherCheck` and `DaemonCheck` are the two uses of
`daemon_status`, with their different conditions. `Spawn` … `LauncherWritesStatus`
follow `start_background_daemon`; `InstallHandlers` … `DaemonRelease` follow
`run_foreground_daemon`; `StopCheck` and `StopSignal` are `stop_daemon`, which looks
and signals in two steps. `DieAcquiring` is a crash between creating (or unlinking)
the owner file and writing it; `Kill` is any other.

`Sightings` is what `_pid_running` and `_process_identity` can answer about a
recorded process. The dead pid of a start in `Reuse` may belong to a stranger, the
identity of one in `Opaque` may be unreadable. A daemon that has exited stays visible, with its
identity, while its launcher lives: that is what `/proc/<pid>/stat` shows of a
zombie. On a system where the identity comes from `ps`, a zombie may look
different; the model follows Linux.

Abstractions. A process stands for its pid together with its birth identity.
`daemon_status` reads its files in one step. `--once` is an `EndScan` that leaves
the loop. SIGINT is handled like SIGTERM. Pid files of earlier versions, without
an identity, are not modelled. The due scan itself is `SchedulerClaims`; the two
modules meet in `BeginScan` and `EndScan` only, because a scan is safe whatever
other scans run beside it: `OneScanner` is about the promise of the commands, not
about the safety of the tables.

### 2.4 ResponseJobs, KeyedCall and ResponseRefinement

| variable | code |
|---|---|
| `job` | rows of `response_generation_jobs`, by key: state, body (the fingerprint), `turn` (`user_event_sequence_no`), `expires` (`lease_expires_at`), `answer` (status code and payload) |
| `thread` | the events of the thread: user turns, replies, events of other origin |
| `req` | what one `invoke_v1_runtime` call knows, and how far it is |
| `calls` | how often the provider was called for a key (a history variable) |

| action | code |
|---|---|
| `Send` | the first transaction: `create_or_get_for_update`, `_response_job_replay_or_in_progress`, `fail_if_abandoned` |
| `Resolve`, `ResolveFails` | provider row, secrets, address and adapter |
| `LookAgain`, `Prepare`, `PrepareFails` | the second transaction: the same look, then `prepare_response_generation` and `claim_pending` |
| `Call` | `_attempt_runtime_provider_model` |
| `LockThread`, `Finalize`, `FenceLost` | the third transaction: `append_event_if_tail`, then `finalize`, or its rollback |
| `Crash` | the process, the connection or an exception the handler does not catch ends the request; an open transaction rolls back |
| `AppendOther`, `Tick` | `append_event` by another feature; the clock |

The second transaction locks the job row and then the thread, the third the
thread and then the row. Each is therefore two actions: in `holding` a request
owns the row lock of its key, in `completing` the thread's lock. Their writes show
when they commit.

Abstractions. The lease token is a `uuid4` written together with the sequence
number of a new event, so that number stands for it. All keys are used on one
thread: requests of different threads share nothing. An answer is the code of the
outcome, not its payload. Invocation records and traces are written in the same
transactions and read by nobody here. Deleting a workspace, `fail_pending` and
`get_for_update` (which no route calls) are not modelled.

`KeyedCall` says that a key is accepted once, called for at most once and
concluded once, and that its reply is recorded in the step that concludes it.
`ResponseRefinement` maps "accepted" to a row that knows its turn and "replied" to
the thread's contents; the calls are the same variable.

### 2.5 MemoryLifecycle, Succession and MemoryRefinement

| variable | code |
|---|---|
| `mem` | rows of `memories`: `status`, `conf` (the inline confirmation in the metadata), `ends` (`valid_to` is set), `by`/`sup` (`superseded_by`, `supersedes`), `rev` (stands for `updated_at` and the content digest) |
| `merge` | `metadata_json.consolidation` of a row: members, survivor, the versions they had, what became of it |
| `draft` | a generated merge candidate that is staged and not published |
| `sweep` | by sweep: the rows it is going to mark, each with the confirmation it read |
| `swept` | the retired rows that a sweep wrote over (a history variable) |

| action | code |
|---|---|
| `Commit`, `AskToConfirm`, `ProposeReview` | `commit_memory` in its three modes |
| `Confirm`, `Refuse`, `AnswerTooLate` | the inline confirmation, before and after `expires_at` |
| `Correct`, `Forget`, `Undo` | `correct_memory`, `forget_memory`, `undo_memory` with and without a successor; each outdates the pending merges of the row |
| `Cluster`, `PublishDraft`, `DropDraft`, `Accept` | a candidate read, staged, published under its digest and accepted, member versions compared |
| `Expire`, `Unexpire` | the validity window |
| `Approve`, `Reject`, `MakePrivate`, `Assign`, `Replace` | the review over HTTP and over MCP |
| `Scan`, `Mark`, `DropSweep` | the staleness sweep: staged, published by id, or lost with its run |

Every call under the lifecycle lock is one action: it takes the lock before its
first read and commits before it gives the lock back. `Leads` is the walk of
`supersession_would_cycle`, as reachability. Texts, labels, policy decisions,
entities, embeddings and redaction are left out (redaction is in
`ProjectUpdates` and `VectorCache`, for what it means there). A window's end is
set or not: no instant of the future.

`Succession` says that a row is added, used and retired for good; that several rows
may be retired in one step in favour of one heir, which is in use from then on and
whose line of heirs does not lead back to them; that a row gets its heir once; and
that whatever is revived nevertheless is on record. `MemoryRefinement` maps "in use"
to the live statuses, the heir to `superseded_by` and the record to `swept`. Reviews,
confirmations, windows, candidates and versions are invisible there.

### 2.6 TaskQueue, WorkDesk and TaskQueueRefinement

| variable | code |
|---|---|
| `task` | rows of `task_queue`: status, label, place in the queue, write policy, `output_artifact_id` |
| `artifact` | rows of `generated_artifacts`: status, and the task they were made from |
| `memory` | the artifacts an active memory was promoted from |
| `run` | by caller: the task locked by its open transaction |
| `review` | by reviewer: the artifact whose row it holds, and the status it read |

`Enqueue`, `Claim`, `Complete`, `Fail` and `Rollback` are `enqueue_task` and
`process_next_task`, which claims, works and ends a task in one transaction: other
sessions see a task pending and locked, never running. `Fail` commits the failure
with whatever was stored before it; `Rollback` is a dead process, or a statement
the database refused, after which the failure cannot be recorded either.
`BeginReview`, `Decide` and `EndReview` are the review under
`get_artifact_for_update`; `Transitions` is `ARTIFACT_STATUS_TRANSITIONS`.
`Publish` stands for the other services that store artifacts for review.

Abstractions. A label is what `task_claim` compares with a key's limits. Nobody
gives a task a scheduled time, so a queued task is due. Prompts, reports, files,
ratings and the embedding of a promoted memory have no contents here.

`WorkDesk` says that a task ends once, that its result becomes known in the step
that ends it, and that a result is trusted, refused or put away for good (a refused
one may still be put away). `TaskQueueRefinement` maps what a task yields to the
artifact that was made from it, "trusted" to the artifacts a memory was promoted
from, and the other decisions to the artifacts' statuses. Locks, labels and lost
transactions are invisible there.

### 2.7 ProjectUpdates, ReviewBook and ProjectUpdatesRefinement

| variable | code |
|---|---|
| `project`, `evidence` | `projects.current_state`; what its sources and memories suggest |
| `mem`, `art` | candidate memories and `project_update` artifacts, each with the digest it is stored under (`memory_key`, `workflow_digest`) |
| `created`, `decided` | `project.update_candidate_created` and the decision events; `plain` until a redaction rewrites them |
| `gen` | what a call of `generate_project_update_candidate` has found so far |
| `scanned` | the memories that staleness sweeps have read as active and may mark later |

`Read`, `Remember`, `Store`, `Publish` and `Drop` are one such call. Each look sees
what other sessions have committed by then, and what is stored appears at `Publish`;
there each row is the one that was found, the one another session has stored under
the key since, or a new one. A redacted row has given its key back; a deleted one
still holds it and is found by nobody, so the call fails. `Accept`, `Reject` and
`Redact` hold the lifecycle lock and the artifact's row and are one action each. The
generic paths refuse a candidate that is still pending; after the decision its
memory is like any other. `Change` is what they make of a live one: a review may
approve it, reject it or keep it private, MCP may delete it, and the commit service
may correct, forget, undo, replace or merge it (`Decided` is what all these
require). `Scan` and `Mark` are a staleness sweep that reads the row in one
transaction and marks it in another, by id and whatever has become of it, so a row
that was rejected or superseded in between is `stale` again. `EvidenceProves`
evaluates `_validate_terminal_project_update` on every decided artifact.

Abstractions. One project, one door (all generators compute the same digest
from the same inputs). The text of a candidate is what its evidence suggests.

`ReviewBook` says that equal inputs have one memo and one proposal until both are
forgotten, that a proposal is accepted or rejected once and is not forgotten
before, and that only an acceptance changes the project's text.
`ProjectUpdatesRefinement` maps inputs to digests, and what is noted and filed
under a digest to the row that holds it; generators, looks and events are
invisible there. What ties a memory to its artifact holds only until a redaction
and is not part of the book: `OutcomesAgree` states it. An accepted artifact may have
a memory of any later status, rejected and stale included; what cannot happen is
that it is a candidate again, that a listed artifact has lost its candidate, or that
the memory of a rejected one comes into use: no sweep has ever read it (`SweepsOK`).

### 2.8 VectorCache and VectorHistory

| variable | code |
|---|---|
| `row` | `memories` of the SQLite profile: live, normalised text, embedding with its signature |
| `stamp` | `embedding_stamp` in `schema_meta` (a fresh uuid: a number not used before) |
| `job` | by embedder: a memory, and the vector being computed from what was read |
| `entry` | by process: token and vectors of its `_VectorCacheEntry` |
| `query` | by process: the statement its search has reached, and what it has read |

`Create`, `Refresh`, `Archive`, `Redact` are the writes of a row, with the stamp
rewritten when a vector is lost. `Prepare`, `Store`, `Abandon` are an embedding pass
(after a commit, or a reindex); `Store` is the compare-and-set on the digest of
the text. `Validate` … `Rank` are the statements of `cached_vector_ranked`, each on
its own snapshot; `Drop` is every way in which an entry is thrown away.

Abstractions. A vector stands for what it was computed from. Distances do not
occur: a ranking is exact when every candidate is ranked by its stored vector.
The passage cache of sources works alike and is not modelled, nor is the
PostgreSQL profile, which has the same compare-and-set and no cache.

`VectorHistory` adds `seen`: for each search and memory, the vectors (or their
absence) that the row has had at some moment since the search began. It only
records; its steps are the steps of `VectorCache`.

## 3. What is checked

| run | question | bounds |
|---|---|---|
| `scheduler_due_scans` | two scans of one workflow with crashes, lost renewals, reaps and every configuration request: the fence; refinement of `FencedLease` | 3 runs, clock 0 to 5, lease and period 2, one crash |
| `scheduler_manual_runs` | a scan, two manual runs and a configuration request on one workflow while its clock goes back: the inductive invariant, the last result, slots served again, and what a step may make of the next run | 3 runs, clock 0 to 5, lease 2, period 3; at 4 the clock goes back by 2, over slot 3; one crash |
| `scheduler_liveness` | progress of claims and of due work under fair scans | 2 workflows, 4 runs, clock 0 to 4, lease 1, reaps of one claim, two crashes |
| `scheduler_paused_next_run` | expected violation, see 5 | one scan, one manual run |
| `scheduler_lost_pause` | expected violation, see 5 | two requests |
| `scheduler_daemon` | start commands of either kind, stops, kills, reused pids and unreadable identities: safety, admission and stop | 3 starts, one with reused pids, one opaque, 2 kills |
| `response_jobs` | requests of one key with two bodies, a death, other events: safety, refinement of `KeyedCall`, progress | 3 requests, lease 1, 2 instants, other events while the thread is shorter than 2 |
| `memory_lifecycle` | every order of the calls on a few memories, a generator and a sweep: safety, refinement of `Succession` | 3 memories, 7 insertions and updates in all, one sweep of one row |
| `memory_sweep_revives` | expected violation, see 5 | as above |
| `task_queue` | two callers with limited keys, two reviewers, failures and a lost transaction: safety, refinement of `WorkDesk`, service | 2 tasks, 2 artifacts, 2 labels |
| `project_updates` | generators, reviews, the later life of accepted memories with overlapping sweeps, redactions: safety, refinement of `ReviewBook` | 2 states, 2 memories and artifacts, 2 generators, 2 redactions |
| `vector_cache` | corrections, redactions, embedding passes and a search between them, with the history of the rows | 2 memories, texts and models, 1 pass at a time, 1 process, 2 rewrites of the stamp |

Why the bounds are enough. A fence goes wrong through two claims of one workflow
and one more event, so three runs leave room for a claim, its successor and a
manual run or a third claim; the clock has to pass a lease and a slot after the
second claim, which five or six instants with a lease of two allow; in the run with
manual runs the second claim may be one of slot 3 in the repeated hour; one crash per
scan is what it takes to leave a claim behind, two leave more claims than one
reap takes. For the daemon, three start commands allow a dead owner, one that
reclaims and one that comes late; two kills allow the owner and its child or
launcher to die. For the response jobs three requests are a first one, its retry
and one that interferes with another body; two instants with a lease of one let
the lease end while the answer is on its way; one death leaves a running job
behind, or a pending one. With one key `OwnersOK` of the invariant and the two
lock orders still meet: the retry waits for the row while the first request
holds the thread; that keys do not disturb one another is proved for any number
of them.

For memories three rows are the shortest chain with an end (a row, its replacement,
the replacement of that) and a merge of two rows. Seven writes are four updates of
three rows or five of two: a candidate that is outdated and another one that shares
its members need four updates of three rows; a row that is revived by a sweep and
replaced a second time, or offered as the successor of its own successor, five of
two or four of three. For the task queue two of everything make every race; a label
that no caller may read in front of one that they may is what `Served` is about. Two
memories and artifacts are two candidates of different digests, or a redacted one
and one that a late generator stores under the same digest; with a third of each
nothing new can meet, for a generator finds at most one of either. A resident cache
goes wrong through a vector that is replaced between two of its reads: two texts,
two models and two rewrites of the stamp give a stale entry and a rebuilt one, two
memories a candidate that is resident and one that is not. One embedding pass at a
time is enough: passes meet only in the rows, and what a second one would do between
the read and the write of the first, a correction there does as well; any number of
them is in the proofs.

Properties of the scheduler: `OnlyRepeatedSlotsAgain` (no two runs publish one slot,
unless the local clock shows it twice, see 5), `NextRunsPlanned` (no step makes
the next run of a row disagree with its status and schedule, except the end of a
manual run whose row was paused or rescheduled since it began), `LastResultTrue`,
`ClaimReleaseAccounted` (nobody drops somebody else's claim),
`PublishOnlyUnderClaim` (a pause that committed earlier wins),
`ExpiredClaimsReaped`, `DueWorkflowsServed`, `ImplementsFencedLease`, and `IndInv`,
which contains `ClaimBacked` (the two tables agree on every claim),
`PublishedIffSucceeded` (failure or fence loss publishes nothing),
`PublisherHoldsFence` (an open publication cannot lose its claim) and
`PausedHasNoClaim`.

Properties of the daemon: `OneScanner`, `LiveLeaseKept`, `ScannerIsManageable`
(status and stop find a daemon that has scanned), `StopTargetsHolder`,
`LoneStartAdmitted`, `StopIsHonoured`.

Properties of the response jobs: `ReplyFollowsTurn`, `ReplyIffSucceeded`,
`AnswersAgree` (whoever is told an outcome is told the job's), `LocksNeverCross`
(no deadlock between the two lock orders), `RequestsAnswered`, `PolledJobsEnd`,
`ImplementsKeyedCall`, and `IndInv`, which contains `CalledOnce` and `TurnsOnce`.

Properties of memories: `ImplementsSuccession` (no sequence of calls but a stale
sweep brings a retired row back, and a row with a successor is out of use),
`PointersAgree`, `Acyclic`, `MergedRowsRetired`, `RefusedStaysOut`.

Properties of tasks and artifacts: `OneResult`, `TrustedIffPromoted`,
`ImplementsWorkDesk`, `Served` (a task some caller may read is ended, whatever was
queued before it).

Properties of project updates: `ImplementsReviewBook`, and `OutcomesAgree` and
`EvidenceProves` until something is redacted (see 2.7 and 5).

Properties of vectors: `VectorIsOfText`, `ResidentIsCurrent` (an entry with the
current token holds no dead vector of a live row), `RankingExact` (unless a vector
was lost while the search ran, every candidate is ranked, by its stored vector),
`RankingRegular` (whatever is lost meanwhile, a candidate is ranked by a vector its
row held at some moment of the search, as a regular register is read).

Every property of a passing run has a mutant in `PROJECT.json`: a fault of the
modelled code under which TLC finds that property violated.

### 3.1 Fairness

`SchedulerClaims!FairSpec` asks weak fairness of the clock and of each worker's own
steps: the daemon scans for ever, a scan is a loop over finitely many claims, and
the provider call has a timeout. Nothing is asked of heartbeats, crashes, manual
runs or configuration. `SchedulerDaemon!FairSpec` asks that a process that is
alive takes its next step, and that a stop command that has looked goes on to
signal. Nobody has to begin, kill or stop anything.

`ResponseJobs!FairSpec` asks weak fairness of the steps that wait for nothing and
strong fairness of those that wait for a lock: PostgreSQL queues the waiters of a
row lock and of an advisory lock, so a lock that is released again and again
reaches everybody in turn. `Poll` is strongly fair: a client that got 202, or
no answer, sends its key again (`docs/release/v0.10.3-release-notes.md:97`).
`PolledJobsEnd` is about jobs for which such a client is left: nothing else ends a
job whose request died.

`TaskQueue!Fairness` asks that callers keep asking for the next task while there is
one they may claim, and that a call which is not lost ends. The first is an
assumption about the environment: `process-next` is a command, and nothing in
the code repeats it. Nothing is asked of reviewers, of who enqueues, or of which
of several callers gets a task. `MemoryLifecycle`, `ProjectUpdates` and `VectorCache`
promise nothing that must happen: their passes are started by people and by the
scheduler.

A liveness run has no symmetry, and its bounds (`MaxTime`, `Runs`) end the
instance; `DueWorkflowsServed` therefore says "while runs can still be created".

## 4. What is proved

`SchedulerClaimsProofs` proves, for every set of workflows, workers, callers,
administrators and runs, every lease, period, limit and bound, from the
assumptions `BoundsAreNaturals`, `NullIsNoRow` and `RequestsTyped` alone:
`TypeOK`, `ClaimBacked`, `PublisherHoldsFence`, `PublishedIffSucceeded`,
`PausedHasNoClaim`, `OnlyRepeatedSlotsAgain`, `FinishedRunsStay` and
`PublishOnlyUnderClaim`.

None of these is inductive alone. `IndInv` adds what each actor may rely on
between two transactions:

* `RunsOK`: a token is the run's own, and a slot is not in the future;
* `WorkersOK`: a worker inside a claim works for an existing claimed run;
* `LocksOK`: row locks are held by publication transactions and nobody else;
* `CallersOK`: a manual request owns a started run that no claim ever named,
  so its bookkeeping cannot touch a claimed run;
* `AdminsOK`: a configuration request has read a whole row for each target;
* `SlotsOK`: the next run, the slot of the live claim and the next run that a
  failing worker will write all lie after every published slot or in the repeated
  hour (`Ahead`), and a publication opens after all slots published before.
  `NextSlotLater` is the lemma about the clock: a next slot that is not later than the
  instant it is computed at is one that the clock shows twice. Without the part about
  failing workers a worker that read the next run before another one published could
  write a slot back that was already served; the fence is what excludes it.

The proof has one lemma per conjunct, and in it one step per action that can
disturb it.

`SchedulerRefinementProofs` builds on it. `StepShapes` says what a step may do to
the two tables: end runs that held their claims, publish one, claim, begin a
manual run, revoke claims, or leave them alone. From the shapes follow, for every
value of the constants, `ImplementsFencedLease`, `ClaimReleaseAccounted` and
`LastResultTrue`; the reap is the case with work, because it ends several runs at
once. `NextRunsPlanned` needs one thing more, that a worker which is about to settle
a failure and still holds its claim has a next run that fits the row
(`SettlingOK`): whatever changes the schedule in between revokes the claim.
`RowShapes` then says what a step makes of a row: its configuration stays and its
next run stays or fits, or a request configures it and plans it anew, or a manual
run ends with what the row said when it began. The last is the exception in
`NextRunsPlanned`; that it is needed is what `scheduler_paused_next_run` shows. Where
nobody runs workflows by hand, `NextRunCoherent` follows: a row has a next run
exactly when its configuration schedules one.

`SchedulerDaemonProofs` proves for any number of start commands, kills, reused
pids and unreadable identities, from `SightsAreOfStarts`, `KillsAreNatural` and
`FilesAreNotProcesses`, that from taking the lease to giving it away a process is
the one the owner file names (`IndInv`), hence `OneScanner`, and `LiveLeaseKept`.
The heart is `FreeLeaseHasNoHolder`: a lease that `_acquire_owner_lease` may take
is held by no process in one of the holding phases, because an identity that
cannot be read never counts as stale. `ScannerIsManageable` and `StopTargetsHolder`
need more: `Managed` says that while a launcher writes the records its child has
the lease and has not begun to hold it (`WriterWaitedFor`), which is true because
the child waits for the records to name it (`StatusFollows`) and because a child
that ended stays visible while its launcher lives. `LoneStartAdmitted` follows from
what can be seen of a dead process.

`ResponseJobsProofs` proves for any number of keys, bodies and requests, any lease
and any number of deaths, from `BoundsAreNaturals` and `NullIsNoValue`, `CalledOnce`, `TurnsOnce`,
`ReplyFollowsTurn`, `ReplyIffSucceeded`, `AnswersAgree`, `LocksNeverCross`,
`OutcomeStable`, and that every behaviour is one of `KeyedCall`
(`JobsImplementKeyedCall`). `IndInv` says how the parts hang
together: a row knows its turn from its claim on and the thread has that turn
there (`JobsOK`); every event of the thread is known to a row (`ThreadOK`);
between two transactions a request knows that its row exists with its body, that
it is still unclaimed while it holds it, and that its own turn is in it from then
on (`RequestsOK`); locks and claims have one owner (`OwnersOK`). What makes
`CalledOnce` inductive is that a claim is never given back: an abandoned job
fails instead of becoming pending again. The same fact gives `LocksNeverCross`:
whoever waits for the thread with a row in hand holds an unclaimed row, whoever
waits for a row with the thread in hand needs a claimed one. The proof has one
lemma per action; `OneRequestStep` collects what such a lemma must show, and
`KeyedRowStep` the four ways in which a changed row is a step of `KeyedCall`.

`MemoryLifecycleProofs` proves for any number of memories, merges and writes, from
`BoundsAreNaturals` and `NullIsNoValue`, every property of `memory_lifecycle`, and
`SuccessorsReplace` and `OnlySweepsRevive`, which say parts of the refinement directly.
`RowSteps` says what every action does to a row: it is new, or one revision later
and was in use before, unless a sweep brought it back. Undo, acceptance and
replacement move pointers and are treated one by one; `NoCycleThrough` is why they
close no cycle: all new pointers go to one row, from rows it does not lead to.
The induction needs `MergesOK`: a member of a draft or of a candidate that is still
as it was read is active. That is what keeps a merge computed long ago from
superseding a row that has been retired since.
`MemoriesImplementSuccession` needs little more than the invariant: a step is a row
that moves (`LineMoves`), rows that get one heir (`LineSucceeds`), rows a sweep revives
(`LineRevives`), or nothing that `Succession` sees.

`TaskQueueProofs` proves for any finite set of tasks and any number of callers,
reviewers and artifacts, from `ReadsAreLabels`, `RollbackBound`, `TasksAreFinite` and
`NullIsNoValue`, `OneResult`, `TrustedIffPromoted`, `DecisionsStand` (a decision
is changed in the ways of `ARTIFACT_STATUS_TRANSITIONS` only) and that every
behaviour is one of `WorkDesk` (`QueueImplementsWorkDesk`). `OneResult` rests on
`RunsOK`: the row lock gives a task to one transaction, and only that one ends it.
The refinement has the case of a failure that keeps its artifact and of one that has
none, and rests on `MadeFrom` having one element at most.

`ProjectUpdatesProofs` proves for any number of generators, rows, states and
redactions, from `MarksAreNoIds` and `RedactionBound`, `OneCandidatePerInputs`,
`OutcomesAgree`, `EvidenceProves`, and that every behaviour is one of `ReviewBook`
(`UpdatesImplementReviewBook`), with redactions too, whatever later reviews, corrections
and sweeps make of accepted memories (`LaterChange`, `BookIgnoresLaterLife`). `SweepsOK`
is what a sweep needs: it writes over whatever it read before, and `InUseIsAccepted`
says that it has read accepted memories only.
`PublishShape` says that a publication stores a pair or repeats one; `FoundOK`, that
what a generator has found stays the row of its digest, without which a late
publication could couple an artifact to somebody else's memory. `OutcomesAgree`
and `EvidenceProves` promise something only while nothing has been redacted, and so do
the parts of `IndInv` they need. The refinement needs none of those parts: it
rests on `OneCandidatePerInputs`, which makes "the row under a digest" a function
(`HoldersAreNoted`), and on a redaction's guard that every artifact it takes along
is decided.

`VectorCacheProofs` proves for any number of memories, texts, models, passes and
processes, from `BoundIsNatural`, `MemoriesAreFinite` and `NullIsNoValue`, its four
properties. `Sound` is what a search may rely on between two statements: a token is
not from the future, an entry with the current token holds no dead vector, and no
candidate has lost its vector while the token it was chosen under is current.
`WriteStep` and `SearchStep` reduce the actions to it. `RankingRegular` is proved of
`HistorySpec`, from `HistoryInv`, which adds `Recorded` to `IndInv`: while a search uses
an entry, whatever it holds for a live memory or a candidate was in the row at some
moment of the search. An entry that is loaded from one statement and filled up from
a later one mixes two tables; this says that it mixes nothing older.

Only model-checked: liveness (`ExpiredClaimsReaped`, `DueWorkflowsServed`,
`StopIsHonoured`, `RequestsAnswered`, `PolledJobsEnd`, `Served`), which is out of the
prover's reach: they need ENABLED. Everything else the passing runs check is proved
as the runs check it, with no assumption but those named above.

## 5. Findings

* **A manual run that outlives a pause reschedules the paused workflow**
  (`scheduler_paused_next_run`). `publish_started_workflow` and
  `fail_started_workflow` compute the next run from the row read before the run.
  A pause in between ends with a next run in the paused row, which
  `tests/unit/test_vnext_scheduler.py:721` says is null. The row stays paused, so
  no due scan takes it; what is wrong is what `status` shows.
* **A configuration request can lift a pause that committed**
  (`scheduler_lost_pause`). `configure_workflow` reads without a lock and writes
  every field back; of two concurrent requests the later one restores what it
  read.
* **A staleness sweep brings retired memories back** (`memory_sweep_revives`). The
  sweep stages `status = stale` by id, and the plan is published outside the
  lifecycle lock with no condition on the status. A memory forgotten, undone,
  merged or rejected since the scan becomes stale, from where a review or a new
  expiry makes it active; `vnext_lifecycle.py:12` says retirement is terminal.
  `ImplementsSuccession` is the other half: nothing else brings a row back.

Facts the models show that contradict nothing the documents say: a child
daemon may look at the lease before its launcher has handed it over, and then
turns itself away although the launcher reports a start; a crash between the
creation and the writing of the owner file leaves a file that no start may
reclaim; and a manual run whose process dies stays `started` for ever, because
only leases are reaped. A fourth is about the response jobs: a request whose answer
arrives after its job was given up is told 409, while every later request with the
key is told 503, `provider_outcome_unknown`.

A fifth is about the clock. In the hour that a zone's clock shows twice,
`compute_next_run_at` (`vnext_scheduler.py:781-783`) names a slot of the first pass as
the next run of a workflow that ends, or is configured, in the second: with a daily
01:59 in New York, a run that ends at 01:01 EST gets the 01:59 EDT of the same night,
which it has just served. That instant has passed, so the workflow is due at once
and the slot is published again, scan after scan, until the clock shows more than
the slot. The model does this too: `OnlyRepeatedSlotsAgain` and `SlotsOK` except
exactly those slots, the instance of `scheduler_manual_runs` goes through such an
hour, and without the exception TLC finds the second publication there. No doc
and no test says what should happen in that hour, so the behaviour is stated
here and has no run of its own.

Of the other components, noted while modelling and without a run of their own:

* A merge candidate that is invalidated is parked as `stale`, and `stale` is a live
  status: setting and clearing its expiry makes it an active memory.
* After a redaction an artifact may be stored for a memory that was redacted in the
  meantime, and a creation event written later than the redaction can no longer
  be matched with the decision. `OutcomesAgree` and `EvidenceProves` are therefore
  stated until something is redacted.
* A sweep writes back the embedding signature it has read. On PostgreSQL, where the
  vector has a column of its own, this may name the model of an older vector.
* The docstring of `vector_scan.py` says that a restored snapshot cannot alias a
  token. It can if no stamp was rewritten between the backup and the restore.
* A search inside a transaction that is rolled back later would leave vectors
  resident that were never committed. No caller does so.

## 6. Not modelled

The components of 1.1 that no module names: their requests are one transaction
each and their correctness is a matter of contents, except those listed in 7. Of
the modelled ones:

* the contents of reports, events, prompts and memories; legacy pid files;
* `run_due_workflows`, the older scan without claims, which only tests call;
* deadlocks that PostgreSQL resolves: `pause_all` locks workflow rows in another
  order than a reap. The database aborts one side, which is a `Crash` or a request
  that never wrote;
* clock skew between the application and the database;
* the end of a manual run whose process died: it has no lease, so nothing ends it;
* redaction in `MemoryLifecycle`, and the composition of `MemoryLifecycle` with `ProjectUpdates` (its `Change`, `Scan` and `Mark` stand for it);
* embeddings on PostgreSQL and the passage cache of sources.

## 7. Plan

What is left, in this order:

1. Browser clip capabilities: redeemed at most once and not after expiry.
2. Approvals and task runs (legacy): executed once, as approved, within a budget.
3. Provider configuration and secrets: a row never points to a missing secret file.
4. The passage cache, and redaction in `MemoryLifecycle`.

## 8. Running

    tlc -workers 2 -config SchedulerDueScans.cfg MCSchedulerClaims.tla
    tlc -workers 2 -config SchedulerDaemon.cfg MCSchedulerDaemon.tla
    tlc -workers 2 -config ResponseJobs.cfg MCResponseJobs.tla
    tlc -workers 2 -config MemoryLifecycle.cfg MCMemoryLifecycle.tla
    tlc -workers 2 -config TaskQueue.cfg MCTaskQueue.tla
    tlc -workers 2 -config ProjectUpdates.cfg MCProjectUpdates.tla
    tlc -workers 2 -config VectorCache.cfg MCVectorCache.tla
    tlapm SchedulerClaimsProofs.tla

and `tlapm` likewise on each of the other seven `*Proofs.tla`: `SchedulerRefinementProofs`,
`SchedulerDaemonProofs`, `ResponseJobsProofs`, `MemoryLifecycleProofs`,
`TaskQueueProofs`, `ProjectUpdatesProofs`, `VectorCacheProofs`.

Each cfg begins with the question it asks, and `PROJECT.json` maps every
definition to the lines it stands for. Deadlock checking is off where a finite
instance really stops: every command of the daemon has ended, or the memories,
tasks, candidates and rewrites of the instance are used up. The scheduler and the
response jobs never stop short of their bounds.

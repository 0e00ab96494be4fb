---------------------------- MODULE ResponseJobs ----------------------------
(***************************************************************************)
(* Durable response jobs: POST /v1/runtime/invoke with an Idempotency-Key. *)
(*                                                                         *)
(* A request runs three transactions and one provider call between them:   *)
(*   1. reserve the key, or answer from its job;                           *)
(*   2. look again, append the user's turn to the thread, and turn the job *)
(*      from pending into running under a lease;                           *)
(*   -- call the provider, with no transaction open;                       *)
(*   3. append the reply if the turn is still the thread's tail, and write *)
(*      the job's outcome if the job is still this request's.              *)
(* A request may die anywhere, a client may send the same key again at any *)
(* time, and the thread may grow meanwhile.                                *)
(*                                                                         *)
(* A transaction is one action where it takes one lock.  The second and    *)
(* the third take two, the job's row lock and the thread's advisory lock,  *)
(* in opposite orders, and are two actions each: a request holds the row   *)
(* lock of its key while it is "holding", and the thread's lock while it   *)
(* is "completing".                                                        *)
(*                                                                         *)
(* A claim is made together with the user event whose sequence number is   *)
(* recorded beside the lease token, so that number stands for the token.   *)
(* The thread is the one all the keys are used on.                         *)
(*                                                                         *)
(* Definitions whose name starts with Bad are faulty variants, used by no  *)
(* specification.                                                          *)
(***************************************************************************)
EXTENDS Naturals, Sequences

CONSTANTS
  Keys,       \* idempotency keys
  Bodies,     \* request bodies, told apart by their fingerprints
  Requests,   \* HTTP requests being served; a slot is used again
  None,       \* SQL NULL
  Lease,      \* RESPONSE_JOB_LEASE_SECONDS
  MaxTime,    \* bound on the clock
  MaxEvents,  \* bound on the thread's length for events of other origin
  MaxCrashes  \* bound on the requests that die

\* What a job may have come to; "unknown" is provider_outcome_unknown.
Outcomes == {"reply", "conflict", "upstream", "unknown"}
\* What a request may be answered besides: a key reused for another body, a job
\* under way (202), no usable provider, no such thread, a lost lease, nothing.
Others   == {"reused", "in_progress", "unresolved", "not_found", "fence_lost",
             "lost"}
States   == {"absent", "pending", "running", "succeeded", "failed"}
Terminal == {"succeeded", "failed"}
Phases   == {"idle", "resolving", "preparing", "holding",
             "calling", "finalizing", "completing"}

ASSUME BoundsAreNaturals ==
  /\ Lease \in Nat /\ MaxTime \in Nat /\ MaxEvents \in Nat /\ MaxCrashes \in Nat
ASSUME NullIsNoValue ==
  None \notin Keys \cup Bodies \cup Outcomes \cup Others

VARIABLES
  now,     \* the database clock
  job,     \* response_generation_jobs, by key
  thread,  \* the thread's events
  req,     \* the requests
  calls,   \* provider calls made for each key
  crashes  \* requests that died so far, for the bound MaxCrashes

vars == <<now, job, thread, req, calls, crashes>>

NoJob == [state |-> "absent", body |-> None, turn |-> 0, expires |-> 0,
          answer |-> None]
Idle  == [phase |-> "idle", key |-> None, body |-> None, turn |-> 0,
          outcome |-> None, answer |-> None]

UserTurn(k) == [kind |-> "user", key |-> k]
Reply(k)    == [kind |-> "assistant", key |-> k]
OtherEvent  == [kind |-> "other", key |-> None]

Init ==
  /\ now = 0 /\ crashes = 0
  /\ job = [k \in Keys |-> NoJob]
  /\ thread = <<>>
  /\ req = [r \in Requests |-> Idle]
  /\ calls = [k \in Keys |-> 0]

-----------------------------------------------------------------------------
JobFree(k) == \A r \in Requests : req[r].phase = "holding" => req[r].key # k
ThreadFree == \A r \in Requests : req[r].phase # "completing"

Goto(r, to)   == req' = [req EXCEPT ![r].phase = to]
Answer(r, a)  ==
  req' = [req EXCEPT ![r] = [Idle EXCEPT !.key = req[r].key, !.body = req[r].body, !.answer = a]]

\* create_or_get_for_update: the key's row, created with this body if absent.
Row(k, b) ==
  IF job[k].state = "absent"
  THEN [NoJob EXCEPT !.state = "pending", !.body = b]
  ELSE job[k]

\* _response_job_replay_or_in_progress: what a request with body b is told
\* about the row j; "go" when nobody has claimed it.
BadAbandoned(j) == FALSE                     \* an expired lease is not looked at
Abandoned(j) == j.state = "running" /\ j.expires <= now
BadVerdict(j, b) ==                          \* the fingerprint is not compared
  CASE j.state \in Terminal -> j.answer
    [] j.state = "pending"  -> "go"
    [] Abandoned(j)         -> "unknown"
    [] OTHER                -> "in_progress"
Verdict(j, b) ==
  CASE j.body # b           -> "reused"
    [] j.body = b /\ j.state \in Terminal -> j.answer
    [] j.body = b /\ j.state = "pending"  -> "go"
    [] j.body = b /\ Abandoned(j)         -> "unknown"
    [] OTHER                -> "in_progress"

\* fail_if_abandoned: an expired lease ends the job, whatever the provider did.
BadScreened(j, b) ==                         \* the job may be run again
  IF j.body = b /\ Abandoned(j)
  THEN [j EXCEPT !.state = "pending"]
  ELSE j
Screened(j, b) ==
  IF j.body = b /\ Abandoned(j)
  THEN [j EXCEPT !.state = "failed", !.answer = "unknown"]
  ELSE j

\* The first and the second transaction's look at the row.
Look(r, k, b, next) ==
  LET v == Verdict(Row(k, b), b)
  IN  /\ JobFree(k)
      /\ job' = [job EXCEPT ![k] = Screened(Row(k, b), b)]
      /\ req' = [req EXCEPT ![r] =
           [Idle EXCEPT !.key = k, !.body = b,
                        !.phase = IF v = "go" THEN next ELSE "idle",
                        !.answer = IF v = "go" THEN None ELSE v]]

Send(r, k, b) ==
  /\ req[r].phase = "idle"
  /\ Look(r, k, b, "resolving")
  /\ UNCHANGED <<now, thread, calls, crashes>>

\* Provider row, secrets, address, model and adapter are found ...
Resolve(r) ==
  /\ req[r].phase = "resolving"
  /\ Goto(r, "preparing")
  /\ UNCHANGED <<now, job, thread, calls, crashes>>

\* ... or not; the job stays pending.
ResolveFails(r) ==
  /\ req[r].phase = "resolving"
  /\ Answer(r, "unresolved")
  /\ UNCHANGED <<now, job, thread, calls, crashes>>

LookAgain(r) ==
  /\ req[r].phase = "preparing"
  /\ Look(r, req[r].key, req[r].body, "holding")
  /\ UNCHANGED <<now, thread, calls, crashes>>

\* prepare_response_generation and claim_pending commit together.
Prepare(r) ==
  LET k == req[r].key  turn == Len(thread) + 1
  IN  /\ req[r].phase = "holding" /\ ThreadFree
      /\ job[k].state = "pending"
      /\ thread' = Append(thread, UserTurn(k))
      /\ job' = [job EXCEPT ![k] = [@ EXCEPT !.state = "running",
                                    !.turn = turn, !.expires = now + Lease]]
      /\ req' = [req EXCEPT ![r] = [@ EXCEPT !.phase = "calling", !.turn = turn]]
      /\ UNCHANGED <<now, calls, crashes>>

\* The thread is gone: rollback.
PrepareFails(r) ==
  /\ req[r].phase = "holding"
  /\ Answer(r, "not_found")
  /\ UNCHANGED <<now, job, thread, calls, crashes>>

\* The provider answers, or fails in a way the adapter knows.
Call(r) ==
  /\ req[r].phase = "calling"
  /\ calls' = [calls EXCEPT ![req[r].key] = @ + 1]
  /\ \E o \in {"reply", "upstream"} :
       req' = [req EXCEPT ![r] = [@ EXCEPT !.phase = "finalizing", !.outcome = o]]
  /\ UNCHANGED <<now, job, thread, crashes>>

\* append_event_if_tail takes the thread's lock and looks at the tail.
BadIsTail(turn) == TRUE
IsTail(turn) == Len(thread) = turn
LockThread(r) ==
  /\ req[r].phase = "finalizing" /\ req[r].outcome = "reply" /\ ThreadFree
  /\ req' = [req EXCEPT ![r] =
       [@ EXCEPT !.phase = "completing",
                 !.outcome = IF IsTail(req[r].turn) THEN "reply" ELSE "conflict"]]
  /\ UNCHANGED <<now, job, thread, calls, crashes>>

\* finalize: fenced by the state and the lease token, not by the lease's end.
BadFenced(r) == TRUE
Fenced(r) ==
  /\ job[req[r].key].state = "running"
  /\ job[req[r].key].turn = req[r].turn
Outcome(j, o) ==
  [j EXCEPT !.state = IF o = "reply" THEN "succeeded" ELSE "failed", !.answer = o]
Finalizes(r) ==
  \/ req[r].phase = "completing"
  \/ req[r].phase = "finalizing" /\ req[r].outcome = "upstream"
Finalize(r) ==
  LET k == req[r].key  o == req[r].outcome
  IN  /\ Finalizes(r) /\ JobFree(k) /\ Fenced(r)
      /\ job' = [job EXCEPT ![k] = Outcome(@, o)]
      /\ thread' = IF o = "reply" THEN Append(thread, Reply(k)) ELSE thread
      /\ Answer(r, o)
      /\ UNCHANGED <<now, calls, crashes>>

\* Somebody gave the job up meanwhile: the reply is rolled back.
BadLateReply(k, o) ==                        \* the reply was committed before
  IF o = "reply" THEN Append(thread, Reply(k)) ELSE thread
LateReply(k, o) == thread
FenceLost(r) ==
  /\ Finalizes(r) /\ JobFree(req[r].key) /\ ~Fenced(r)
  /\ thread' = LateReply(req[r].key, req[r].outcome)
  /\ Answer(r, "fence_lost")
  /\ UNCHANGED <<now, job, calls, crashes>>

-----------------------------------------------------------------------------
\* The request dies, with its connection and whatever transaction is open: a
\* crash, an unexpected error of the provider, or a database error.
Crash(r) ==
  /\ req[r].phase # "idle" /\ crashes < MaxCrashes
  /\ Answer(r, "lost")
  /\ crashes' = crashes + 1
  /\ UNCHANGED <<now, job, thread, calls>>

\* An event that some other feature appends to the thread.
AppendOther ==
  /\ ThreadFree /\ Len(thread) < MaxEvents
  /\ thread' = Append(thread, OtherEvent)
  /\ UNCHANGED <<now, job, req, calls, crashes>>

Tick ==
  /\ now < MaxTime
  /\ now' = now + 1
  /\ UNCHANGED <<job, thread, req, calls, crashes>>

\* The steps that wait for a lock, and the others.
LockingStep(r) ==
  LookAgain(r) \/ Prepare(r) \/ LockThread(r) \/ Finalize(r) \/ FenceLost(r)
PlainStep(r) == Resolve(r) \/ ResolveFails(r) \/ Call(r)

\* A client that was told to wait, or heard nothing, sends its key again.
Poll(r) ==
  /\ req[r].answer \in {"in_progress", "lost"}
  /\ Send(r, req[r].key, req[r].body)

Next ==
  \/ \E r \in Requests : \/ \E k \in Keys, b \in Bodies : Send(r, k, b)
                         \/ LockingStep(r) \/ PlainStep(r)
                         \/ PrepareFails(r) \/ Crash(r)
  \/ AppendOther \/ Tick

Spec == Init /\ [][Next]_vars

\* A request that is being served goes on, and clients poll.  Whoever waits for
\* a lock gets it in its turn: PostgreSQL queues the waiters of a lock.
FairSpec ==
  /\ Spec
  /\ WF_vars(Tick)
  /\ \A r \in Requests :
       WF_vars(PlainStep(r)) /\ SF_vars(LockingStep(r)) /\ SF_vars(Poll(r))

-----------------------------------------------------------------------------
\* Properties

JobRow  == [state : States, body : Bodies \cup {None}, turn : Nat, expires : Nat,
            answer : Outcomes \cup {None}]
Request == [phase : Phases, key : Keys \cup {None}, body : Bodies \cup {None},
            turn : Nat, outcome : Outcomes \cup {None},
            answer : Outcomes \cup Others \cup {None}]
Event   == [kind : {"user", "assistant", "other"}, key : Keys \cup {None}]

TypeOK ==
  /\ now \in Nat /\ crashes \in Nat
  /\ job \in [Keys -> JobRow]
  /\ thread \in Seq(Event)
  /\ req \in [Requests -> Request]
  /\ calls \in [Keys -> Nat]

\* The provider is called at most once for a key, however often the key is sent,
\* whoever dies and whatever lease ends, and only for a turn that is recorded.
CalledOnce ==
  \A k \in Keys : calls[k] <= 1 /\ (calls[k] > 0 => job[k].turn \in DOMAIN thread)

\* A key puts at most one user turn and one reply into the thread.
TurnsOnce ==
  \A i, j \in DOMAIN thread : thread[i] = thread[j] /\ thread[i].key # None => i = j

\* A reply comes directly after the turn it answers: nothing that the model did
\* not see is between them (append_event_if_tail).
ReplyFollowsTurn ==
  \A i \in DOMAIN thread : thread[i].kind = "assistant" =>
    i > 1 /\ thread[i - 1] = UserTurn(thread[i].key)

\* The thread has a key's reply exactly when the key's job succeeded: neither a
\* failed nor an abandoned job leaves one (finalize rolls it back).
ReplyIffSucceeded ==
  \A k \in Keys : job[k].state = "succeeded" <=>
    \E i \in DOMAIN thread : thread[i] = Reply(k)

\* Whoever was told an outcome was told the job's, and had asked for the same
\* body: the first request, its retries, and the ones after a restart agree.
AnswersAgree ==
  \A r \in Requests : req[r].answer \in Outcomes =>
    /\ job[req[r].key].answer = req[r].answer
    /\ job[req[r].key].body = req[r].body

\* A job that has ended keeps its outcome (finalize, fail_if_abandoned).
EndedStays == \A k \in Keys : job[k].state \in Terminal => job'[k] = job[k]
OutcomeStable == [][EndedStays]_vars

\* The two lock orders never meet: nobody who holds the thread's lock needs the
\* row that a holder who waits for the thread has locked.
LocksNeverCross ==
  \A r, s \in Requests : req[r].phase = "holding" /\ req[s].phase = "completing"
                           => req[r].key # req[s].key

\* Every request is answered, or dies.
RequestsAnswered == \A r \in Requests : req[r].phase # "idle" ~> req[r].phase = "idle"

\* A running job ends while some client still sends its key: by its own request
\* or, once its lease is over, by a retry.  (A lease that ends after the last
\* instant of the instance is outside the bound.)
Wanted(k) ==
  \E r \in Requests :
    /\ req[r].key = k /\ req[r].body = job[k].body
    /\ req[r].phase # "idle" \/ req[r].answer \in {"in_progress", "lost"}
PolledJobsEnd ==
  \A k \in Keys : (job[k].state = "running" /\ job[k].expires <= MaxTime)
                    ~> (job[k].state \in Terminal \/ ~Wanted(k))

-----------------------------------------------------------------------------
\* The parts of the inductive invariant.

Claimed == {"running"} \cup Terminal
Working == {"calling", "finalizing", "completing"}

\* A row knows its turn from its claim on, and its outcome from its end on.
JobOK(k) ==
  LET j == job[k] IN
  /\ IF j.state = "absent" THEN j = NoJob ELSE j.body \in Bodies
  /\ j.turn # 0 <=> j.state \in Claimed
  /\ j.turn # 0 => j.turn \in DOMAIN thread /\ thread[j.turn] = UserTurn(k)
  /\ j.answer # None <=> j.state \in Terminal
  /\ j.state = "succeeded" <=> j.answer = "reply"
  /\ j.state = "succeeded" =>
       j.turn + 1 \in DOMAIN thread /\ thread[j.turn + 1] = Reply(k)
  /\ calls[k] <= 1
  /\ calls[k] # 0 => j.turn # 0
  /\ j.state = "succeeded" => calls[k] # 0
JobsOK == \A k \in Keys : JobOK(k)

\* Every event is one that a row knows of, or of other origin.
Known(e, i) ==
  \/ e = OtherEvent
  \/ \E k \in Keys : e = UserTurn(k) /\ i = job[k].turn
  \/ \E k \in Keys : /\ e = Reply(k) /\ i = job[k].turn + 1
                     /\ job[k].state = "succeeded"
ThreadOK == \A i \in DOMAIN thread : Known(thread[i], i)

\* What a request knows of its job between two transactions.
RequestOK(r) ==
  LET q == req[r] IN
  /\ q.phase # "idle" => /\ q.key \in Keys
                         /\ job[q.key].state # "absent"
                         /\ job[q.key].body = q.body
                         /\ q.answer = None
  /\ q.phase = "holding" => job[q.key].state = "pending"
  /\ q.phase \in Working => q.turn # 0 /\ job[q.key].turn = q.turn
  /\ q.phase = "calling" => calls[q.key] = 0
  /\ q.phase \in {"finalizing", "completing"} => calls[q.key] # 0
  /\ q.phase = "finalizing" => q.outcome \in {"reply", "upstream"}
  /\ q.phase = "completing" => q.outcome \in {"reply", "conflict"}
  /\ q.phase = "completing" /\ q.outcome = "reply" => Len(thread) = q.turn
  /\ q.answer \in Outcomes => q.key \in Keys
RequestsOK == \A r \in Requests : RequestOK(r)

\* A row lock, the thread's lock and a claim have one owner each.
OwnersOK ==
  \A r, s \in Requests : r # s =>
    /\ ~(req[r].phase = "completing" /\ req[s].phase = "completing")
    /\ req[r].key = req[s].key =>
         /\ ~(req[r].phase = "holding" /\ req[s].phase = "holding")
         /\ ~(req[r].phase \in Working /\ req[s].phase \in Working)

IndInv == TypeOK /\ JobsOK /\ ThreadOK /\ RequestsOK /\ OwnersOK /\ AnswersAgree
=============================================================================

------------------------- MODULE ResponseJobsProofs -------------------------
(***************************************************************************)
(* Safety of the response jobs for every set of keys, bodies and requests, *)
(* every lease and every bound: IndInv (ResponseJobs) is inductive, and    *)
(* the jobs implement KeyedCall.                                           *)
(***************************************************************************)
EXTENDS ResponseRefinement, TLAPS

-----------------------------------------------------------------------------
\* Sequences and rows

\* Appending keeps what was there and adds one event at the end.
LEMMA AppendFacts ==
  ASSUME NEW S, NEW s \in Seq(S), NEW e \in S
  PROVE  /\ Append(s, e) \in Seq(S)
         /\ DOMAIN s = 1 .. Len(s) /\ Len(s) \in Nat
         /\ DOMAIN Append(s, e) = 1 .. (Len(s) + 1)
         /\ \A i \in DOMAIN s : Append(s, e)[i] = s[i]
         /\ Append(s, e)[Len(s) + 1] = e
  OBVIOUS

\* Events have a kind and a key, and the kinds differ.
LEMMA EventFacts ==
  ASSUME NEW k \in Keys
  PROVE  /\ UserTurn(k) \in Event /\ Reply(k) \in Event /\ OtherEvent \in Event
         /\ \A m \in Keys : UserTurn(k) # Reply(m)
         /\ \A m \in Keys : UserTurn(k) = UserTurn(m) => k = m
         /\ \A m \in Keys : Reply(k) = Reply(m) => k = m
         /\ UserTurn(k) # OtherEvent /\ Reply(k) # OtherEvent
  BY NullIsNoValue DEF UserTurn, Reply, OtherEvent, Event

\* What a look does to a row: it creates an absent one, gives up an abandoned
\* one, and leaves every other alone.
LEMMA LookedAt ==
  ASSUME IndInv, NEW k \in Keys, NEW b \in Bodies
  PROVE  LET j == Screened(Row(k, b), b)  v == Verdict(Row(k, b), b)
         IN  /\ j \in JobRow
             /\ j.turn = job[k].turn
             /\ j.state # "absent" /\ j.body \in Bodies
             /\ job[k].state # "absent" => j.body = job[k].body
             /\ \/ j = job[k]
                \/ /\ job[k].state = "absent" /\ j.state = "pending"
                   /\ j.answer = None
                \/ /\ job[k].state = "running" /\ j.state = "failed"
                   /\ j.answer = "unknown"
             /\ v \in Outcomes \cup {"reused", "in_progress", "go"}
             /\ v = "go" => j.state = "pending" /\ j.body = b
             /\ v \in Outcomes => j.answer = v /\ j.body = b
  <1> DEFINE j == Screened(Row(k, b), b)
             v == Verdict(Row(k, b), b)
  <1>1. job[k] \in JobRow /\ now \in Nat /\ JobOK(k)
    BY DEF IndInv, TypeOK, JobsOK
  <1>2. CASE job[k].state = "absent"
    <2>1. Row(k, b) = [state |-> "pending", body |-> b, turn |-> 0,
                       expires |-> 0, answer |-> None]
      BY <1>2 DEF Row, NoJob
    <2>2. j = Row(k, b) /\ v = "go"
      BY <2>1 DEF Screened, Abandoned, Verdict, Terminal
    <2>3. job[k] = NoJob
      BY <1>1, <1>2 DEF JobOK
    <2> QED
      BY <2>1, <2>2, <2>3, <1>2, NullIsNoValue
      DEF JobRow, States, NoJob, Outcomes, Others
  <1>3. CASE job[k].state # "absent"
    <2>1. Row(k, b) = job[k]
      BY <1>3 DEF Row
    <2>2. CASE job[k].body = b /\ Abandoned(job[k])
      <3>1. /\ j = [job[k] EXCEPT !.state = "failed", !.answer = "unknown"]
            /\ job[k].state = "running"
        BY <2>1, <2>2 DEF Screened, Abandoned
      <3>2. v = "unknown"
        BY <2>1, <2>2, <3>1 DEF Verdict, Terminal
      <3> QED
        BY <1>1, <2>2, <3>1, <3>2 DEF JobRow, States, Outcomes, Others
    <2>3. CASE ~(job[k].body = b /\ Abandoned(job[k]))
      <3>1. j = job[k]
        BY <2>1, <2>3 DEF Screened
      <3>2. CASE job[k].body = b /\ job[k].state \in Terminal
        <4>1. v = job[k].answer
          BY <2>1, <2>3, <3>2 DEF Verdict, Terminal
        <4>2. job[k].answer \in Outcomes
          BY <1>1, <3>2 DEF JobOK, JobRow
        <4> QED
          BY <1>1, <1>3, <3>1, <3>2, <4>1, <4>2 DEF Outcomes
      <3>3. CASE job[k].body = b /\ job[k].state = "pending"
        <4>1. v = "go"
          BY <2>1, <2>3, <3>3 DEF Verdict, Terminal
        <4>2. j \in JobRow /\ j.body \in Bodies /\ v \notin Outcomes
          BY <1>1, <1>3, <3>1, <4>1 DEF Outcomes, JobOK
        <4> QED
          BY <1>3, <3>1, <3>3, <4>1, <4>2
      <3>4. CASE job[k].body # b \/ job[k].state \notin Terminal \cup {"pending"}
        <4>1. v \in {"reused", "in_progress"}
          BY <2>1, <2>3, <3>4 DEF Verdict, Terminal
        <4>2. j \in JobRow /\ j.body \in Bodies /\ v \notin Outcomes /\ v # "go"
          BY <1>1, <1>3, <3>1, <4>1 DEF Outcomes, JobOK
        <4> QED
          BY <1>3, <3>1, <4>1, <4>2
      <3> QED
        BY <3>2, <3>3, <3>4
    <2> QED
      BY <2>2, <2>3
  <1> QED
    BY <1>2, <1>3

-----------------------------------------------------------------------------
\* Steps in general: what they do to one row, one request and the thread

\* The thread stays or grows by one event.
Grows == thread' = thread \/ \E e \in Event : thread' = Append(thread, e)

\* A row stays, is created, is given up or finished, or is claimed while
\* nobody else holds it.
Moves(k) ==
  \/ job'[k] = job[k]
  \/ job[k].state = "absent" /\ job'[k].state = "pending" /\ job'[k].answer = None
  \/ /\ job[k].state = "running" /\ job'[k].state \in Terminal
     /\ job'[k].turn = job[k].turn /\ job'[k].body = job[k].body
  \/ /\ job[k].state = "pending" /\ job'[k].state = "running"
     /\ job'[k].body = job[k].body
     /\ \A s \in Requests : req'[s] = req[s] /\ req[s].key = k
                              => req[s].phase # "holding"

LEMMA ThreadGrows ==
  ASSUME IndInv, Grows
  PROVE  /\ thread' \in Seq(Event)
         /\ DOMAIN thread = 1 .. Len(thread) /\ Len(thread) \in Nat
         /\ DOMAIN thread' = 1 .. Len(thread') /\ Len(thread') \in Nat
         /\ \A i \in DOMAIN thread : i \in DOMAIN thread' /\ thread'[i] = thread[i]
  <1>1. thread \in Seq(Event)
    BY DEF IndInv, TypeOK
  <1>2. CASE thread' = thread
    BY <1>1, <1>2
  <1>3. CASE \E e \in Event : thread' = Append(thread, e)
    <2>1. PICK e \in Event : thread' = Append(thread, e)
      BY <1>3
    <2> QED
      BY <1>1, <2>1, AppendFacts
  <1> QED
    BY <1>2, <1>3 DEF Grows

\* A row that stays is in order while the thread grows and it is not called for.
LEMMA JobKept ==
  ASSUME IndInv, Grows, NEW k \in Keys, job'[k] = job[k], calls'[k] = calls[k]
  PROVE  JobOK(k)'
  <1>1. JobOK(k) /\ job[k] \in JobRow
    BY DEF IndInv, JobsOK, TypeOK
  <1>2. \A i \in DOMAIN thread : i \in DOMAIN thread' /\ thread'[i] = thread[i]
    BY ThreadGrows
  <1> QED
    BY <1>1, <1>2 DEF JobOK

\* Rows keep their turns and their success.
LEMMA RowsKeepTurns ==
  ASSUME IndInv, NEW k \in Keys, Moves(k)
  PROVE  /\ job[k].turn # 0 => job'[k].turn = job[k].turn
         /\ job[k].state = "succeeded" => job'[k].state = "succeeded"
  <1>1. JobOK(k)
    BY DEF IndInv, JobsOK
  <1> QED
    BY <1>1 DEF Moves, JobOK, Claimed, Terminal

\* The thread's events stay known; a new one has to be.
LEMMA EventsKept ==
  ASSUME IndInv, \A k \in Keys : Moves(k),
         \/ thread' = thread
         \/ \E e \in Event : /\ thread' = Append(thread, e)
                             /\ \/ e = OtherEvent
                                \/ \E k \in Keys : /\ e = UserTurn(k)
                                                   /\ Len(thread) + 1 = job'[k].turn
                                \/ \E k \in Keys : /\ e = Reply(k)
                                                   /\ Len(thread) + 1 = job'[k].turn + 1
                                                   /\ job'[k].state = "succeeded"
  PROVE  ThreadOK'
  <1>1. thread \in Seq(Event) /\ ThreadOK /\ JobsOK
    BY DEF IndInv, TypeOK
  <1>2. ASSUME NEW i \in DOMAIN thread, thread'[i] = thread[i]
        PROVE  Known(thread[i], i)'
    <2>1. Known(thread[i], i)
      BY <1>1 DEF ThreadOK
    <2>2. CASE thread[i] = OtherEvent
      BY <2>2, <1>2 DEF Known
    <2>3. ASSUME NEW k \in Keys, thread[i] = UserTurn(k), i = job[k].turn
          PROVE  Known(thread[i], i)'
      <3>1. i # 0
        BY <1>1, AppendFacts
      <3>2. job'[k].turn = i
        BY <2>3, <3>1, RowsKeepTurns
      <3> QED
        BY <2>3, <3>2, <1>2 DEF Known, UserTurn
    <2>4. ASSUME NEW k \in Keys, thread[i] = Reply(k), i = job[k].turn + 1,
                 job[k].state = "succeeded"
          PROVE  Known(thread[i], i)'
      <3>1. job[k].turn # 0
        BY <1>1, <2>4 DEF JobsOK, JobOK, Claimed, Terminal
      <3>2. job'[k].turn = job[k].turn /\ job'[k].state = "succeeded"
        BY <2>4, <3>1, RowsKeepTurns
      <3> QED
        BY <2>4, <3>2, <1>2 DEF Known, Reply
    <2> QED
      BY <2>1, <2>2, <2>3, <2>4 DEF Known
  <1>3. CASE thread' = thread
    BY <1>2, <1>3 DEF ThreadOK
  <1>4. ASSUME NEW e \in Event, thread' = Append(thread, e),
               \/ e = OtherEvent
               \/ \E k \in Keys : e = UserTurn(k) /\ Len(thread) + 1 = job'[k].turn
               \/ \E k \in Keys : /\ e = Reply(k)
                                  /\ Len(thread) + 1 = job'[k].turn + 1
                                  /\ job'[k].state = "succeeded"
        PROVE  ThreadOK'
    <2>1. /\ DOMAIN thread = 1 .. Len(thread) /\ Len(thread) \in Nat
          /\ DOMAIN thread' = 1 .. (Len(thread) + 1)
          /\ \A i \in DOMAIN thread : thread'[i] = thread[i]
          /\ thread'[Len(thread) + 1] = e
      BY <1>1, <1>4, AppendFacts
    <2>2. ASSUME NEW i \in DOMAIN thread', i = Len(thread) + 1
          PROVE  Known(thread[i], i)'
      <3>1. thread'[i] = e
        BY <2>1, <2>2
      <3> QED
        BY <1>4, <2>2, <3>1 DEF Known, UserTurn, Reply, OtherEvent
    <2> QED
      BY <1>2, <2>1, <2>2 DEF ThreadOK
  <1> QED
    BY <1>3, <1>4

\* What a request knows of its row stays true while others move the row.
LEMMA RequestKept ==
  ASSUME IndInv, NEW r \in Requests, req'[r] = req[r],
         \A k \in Keys : Moves(k),
         req[r].phase \in Working =>
           \/ calls'[req[r].key] = calls[req[r].key]
           \/ req[r].phase # "calling" /\ calls'[req[r].key] # 0,
         req[r].phase = "completing" => thread' = thread
  PROVE  RequestOK(r)'
  <1>1. RequestOK(r) /\ JobsOK
    BY DEF IndInv, RequestsOK
  <1>2. CASE req[r].phase = "idle"
    BY <1>1, <1>2 DEF RequestOK, Working
  <1>3. CASE req[r].phase # "idle"
    <2> DEFINE k == req[r].key
    <2>1. k \in Keys /\ job[k].state # "absent" /\ job[k].body = req[r].body
      BY <1>1, <1>3 DEF RequestOK
    <2>2. Moves(k) /\ JobOK(k)
      BY <1>1, <2>1 DEF JobsOK
    <2>3. job'[k].state # "absent" /\ job'[k].body = req[r].body
      BY <2>1, <2>2 DEF Moves, Terminal
    <2>4. req[r].phase = "holding" => job'[k].state = "pending"
      BY <1>1, <2>1, <2>2 DEF Moves, RequestOK
    <2>5. req[r].phase \in Working => job'[k].turn = req[r].turn
      BY <1>1, <2>1, <2>2, RowsKeepTurns DEF RequestOK
    <2>6. /\ req[r].phase = "calling" => calls'[k] = 0
          /\ req[r].phase \in {"finalizing", "completing"} => calls'[k] # 0
      BY <1>1 DEF RequestOK, Working
    <2> QED
      BY <1>1, <1>3, <2>1, <2>3, <2>4, <2>5, <2>6 DEF RequestOK
  <1> QED
    BY <1>2, <1>3

\* An outcome that was told stays the row's.
LEMMA AnswerKept ==
  ASSUME IndInv, NEW r \in Requests, req'[r] = req[r], \A k \in Keys : Moves(k),
         req[r].answer \in Outcomes
  PROVE  job'[req[r].key].answer = req[r].answer /\ job'[req[r].key].body = req[r].body
  <1> DEFINE k == req[r].key
  <1>1. k \in Keys /\ job[k].answer = req[r].answer /\ job[k].body = req[r].body
    BY DEF IndInv, RequestsOK, RequestOK, AnswersAgree
  <1>2. JobOK(k) /\ Moves(k)
    BY <1>1 DEF IndInv, JobsOK
  <1>3. job[k].state \in Terminal
    BY <1>1, <1>2, NullIsNoValue DEF JobOK
  <1> QED
    BY <1>1, <1>2, <1>3 DEF Moves, Terminal

\* What a step of one request has to show.
LEMMA OneRequestStep ==
  ASSUME IndInv, TypeOK', NEW r \in Requests,
         \A s \in Requests \ {r} : req'[s] = req[s],
         \A k \in Keys : Moves(k),
         \A k \in Keys : (job'[k] = job[k] /\ calls'[k] = calls[k]) \/ JobOK(k)',
         \A s \in Requests \ {r} : req[s].phase \in Working =>
           \/ calls'[req[s].key] = calls[req[s].key]
           \/ req[s].phase # "calling" /\ calls'[req[s].key] # 0,
         Grows, ThreadOK',
         thread' = thread \/ \A s \in Requests \ {r} : req[s].phase # "completing",
         RequestOK(r)',
         req'[r].answer \in Outcomes =>
           job'[req'[r].key].answer = req'[r].answer /\ job'[req'[r].key].body = req'[r].body,
         req'[r].phase = "completing" =>
           \A s \in Requests \ {r} : req[s].phase # "completing",
         req'[r].phase = "holding" =>
           \A s \in Requests \ {r} : req[s].phase = "holding" => req[s].key # req'[r].key,
         req'[r].phase \in Working =>
           \A s \in Requests \ {r} : req[s].phase \in Working => req[s].key # req'[r].key
  PROVE  IndInv'
  <1>1. JobsOK'
    BY JobKept DEF JobsOK
  <1>2. RequestsOK'
    BY RequestKept DEF RequestsOK
  <1>3. AnswersAgree'
    <2> SUFFICES ASSUME NEW s \in Requests, req'[s].answer \in Outcomes
                 PROVE  /\ job'[req'[s].key].answer = req'[s].answer
                        /\ job'[req'[s].key].body = req'[s].body
      BY DEF AnswersAgree
    <2>1. CASE s = r
      BY <2>1
    <2>2. CASE s # r
      <3>1. req'[s] = req[s]
        BY <2>2
      <3> QED
        BY <3>1, AnswerKept
    <2> QED
      BY <2>1, <2>2
  <1>4. OwnersOK'
    <2>1. OwnersOK
      BY DEF IndInv
    <2> QED
      BY <2>1 DEF OwnersOK
  <1> QED
    BY <1>1, <1>2, <1>3, <1>4 DEF IndInv

-----------------------------------------------------------------------------
\* The actions

\* What holds of the request and the row an action is about.
LEMMA Typed ==
  ASSUME IndInv
  PROVE  /\ now \in Nat /\ crashes \in Nat /\ thread \in Seq(Event)
         /\ \A k \in Keys : job[k] \in JobRow /\ calls[k] \in Nat /\ JobOK(k)
         /\ \A r \in Requests : req[r] \in Request /\ RequestOK(r)
         /\ DOMAIN job = Keys /\ DOMAIN calls = Keys /\ DOMAIN req = Requests
  BY DEF IndInv, TypeOK, JobsOK, RequestsOK

\* A request that only goes on, or is answered without an outcome.
LEMMA QuietStep ==
  ASSUME IndInv, NEW r \in Requests, NEW q \in Request,
         req' = [req EXCEPT ![r] = q],
         thread' = thread, job' = job, calls' = calls,
         now' \in Nat, crashes' \in Nat, RequestOK(r)',
         q.answer \notin Outcomes,
         q.phase = "completing" => ThreadFree,
         q.phase # "holding",
         q.phase \in Working => req[r].phase \in Working /\ req[r].key = q.key
  PROVE  IndInv'
  <1>1. TypeOK'
    BY DEF IndInv, TypeOK
  <1>2. req'[r] = q /\ \A s \in Requests \ {r} : req'[s] = req[s]
    BY DEF IndInv, TypeOK
  <1>3. \A k \in Keys : Moves(k)
    BY DEF Moves
  <1>4. ThreadOK'
    BY <1>3, EventsKept
  <1>5. OwnersOK
    BY DEF IndInv
  <1> QED
    BY <1>1, <1>2, <1>3, <1>4, <1>5, OneRequestStep DEF Grows, ThreadFree, OwnersOK

LEMMA ResolveStep ==
  ASSUME IndInv, NEW r \in Requests, Resolve(r)
  PROVE  IndInv'
  <1> DEFINE q == [req[r] EXCEPT !.phase = "preparing"]
  <1>1. req[r] \in Request /\ RequestOK(r) /\ DOMAIN req = Requests
    BY Typed
  <1>2. /\ q \in Request /\ q.phase = "preparing" /\ q.key = req[r].key
        /\ q.body = req[r].body /\ q.answer = req[r].answer
    BY <1>1 DEF Request, Phases
  <1>3. req' = [req EXCEPT ![r] = q] /\ req'[r] = q
    BY <1>1 DEF Resolve, Goto
  <1>4. q.answer = None
    BY <1>1, <1>2 DEF Resolve, RequestOK
  <1>5. RequestOK(r)'
    BY <1>1, <1>2, <1>3, <1>4, NullIsNoValue DEF RequestOK, Resolve, Working
  <1> QED
    BY <1>2, <1>3, <1>4, <1>5, Typed, QuietStep, NullIsNoValue DEF Resolve, Working

\* Every answer that is no outcome and changes nothing else.
LEMMA QuietAnswer ==
  ASSUME IndInv, NEW r \in Requests, NEW a \in Others, Answer(r, a),
         thread' = thread, job' = job, calls' = calls,
         now' \in Nat, crashes' \in Nat
  PROVE  IndInv'
  <1> DEFINE q == [Idle EXCEPT !.key = req[r].key, !.body = req[r].body, !.answer = a]
  <1>1. req[r] \in Request /\ RequestOK(r) /\ DOMAIN req = Requests
    BY Typed
  <1>2. q \in Request /\ q.phase = "idle" /\ q.answer = a
    BY <1>1 DEF Idle, Request, Phases
  <1>3. req' = [req EXCEPT ![r] = q] /\ req'[r] = q
    BY <1>1 DEF Answer
  <1>4. q.answer \notin Outcomes
    BY <1>2 DEF Others, Outcomes
  <1>5. RequestOK(r)'
    BY <1>2, <1>3, <1>4 DEF RequestOK, Working
  <1> QED
    BY <1>2, <1>3, <1>4, <1>5, QuietStep DEF Working

LEMMA CallStep ==
  ASSUME IndInv, NEW r \in Requests, Call(r)
  PROVE  IndInv'
  <1>1. /\ req[r] \in Request /\ RequestOK(r) /\ DOMAIN req = Requests
        /\ DOMAIN calls = Keys
    BY Typed
  <1>k. PICK k \in Keys : k = req[r].key
    BY <1>1 DEF Call, RequestOK
  <1>2. /\ calls[k] = 0 /\ req[r].turn # 0 /\ job[k].turn = req[r].turn
        /\ job[k].state # "absent" /\ job[k].body = req[r].body /\ req[r].answer = None
    BY <1>1, <1>k DEF Call, RequestOK, Working
  <1>3. PICK o \in {"reply", "upstream"} :
          req' = [req EXCEPT ![r] = [@ EXCEPT !.phase = "finalizing", !.outcome = o]]
    BY DEF Call
  <1> DEFINE q == [req[r] EXCEPT !.phase = "finalizing", !.outcome = o]
  <1>4. /\ q \in Request /\ q.phase = "finalizing" /\ q.outcome = o /\ q.key = k
        /\ q.turn = req[r].turn /\ q.body = req[r].body /\ q.answer = None
    BY <1>1, <1>2, <1>k DEF Request, Phases, Outcomes
  <1>5. req'[r] = q /\ \A s \in Requests \ {r} : req'[s] = req[s]
    BY <1>1, <1>3
  <1>6. /\ calls' = [calls EXCEPT ![k] = 1] /\ job' = job /\ thread' = thread
        /\ now' = now /\ crashes' = crashes
    <2>1. calls' = [calls EXCEPT ![k] = calls[k] + 1]
      BY <1>k DEF Call
    <2>2. calls[k] + 1 = 1
      BY <1>2
    <2>3. calls' = [calls EXCEPT ![k] = 1]
      BY <2>1, <2>2, Zenon
    <2> QED
      BY <2>3 DEF Call
  <1>7. calls'[k] = 1 /\ \A m \in Keys \ {k} : calls'[m] = calls[m]
    BY <1>1, <1>2, <1>6
  <1>8. TypeOK'
    BY <1>3, <1>4, <1>6 DEF IndInv, TypeOK
  <1>9. \A m \in Keys : Moves(m)
    BY <1>6 DEF Moves
  <1>10. ThreadOK'
    BY <1>6, <1>9, EventsKept
  <1>11. JobOK(k)'
    <2>1. JobOK(k)
      BY Typed
    <2> QED
      BY <2>1, <1>2, <1>6, <1>7 DEF JobOK
  <1>12. RequestOK(r)'
    BY <1>2, <1>4, <1>5, <1>6, <1>7, NullIsNoValue DEF RequestOK, Working
  <1>13. \A s \in Requests \ {r} : req[s].phase \in Working =>
           req[s].key # k /\ req[s].key \in Keys
    BY <1>k, Typed DEF IndInv, OwnersOK, Call, Working, RequestOK
  <1>14. \A s \in Requests \ {r} : req[s].phase \in Working =>
           calls'[req[s].key] = calls[req[s].key]
    BY <1>7, <1>13
  <1>15. \A m \in Keys : (job'[m] = job[m] /\ calls'[m] = calls[m]) \/ JobOK(m)'
    BY <1>6, <1>7, <1>11
  <1>16. req'[r].answer \notin Outcomes /\ req'[r].phase = "finalizing" /\ req'[r].key = k
    BY <1>4, <1>5, NullIsNoValue
  <1> QED
    BY <1>5, <1>6, <1>8, <1>9, <1>10, <1>12, <1>13, <1>14, <1>15, <1>16,
       OneRequestStep DEF Grows

LEMMA LockThreadStep ==
  ASSUME IndInv, NEW r \in Requests, LockThread(r)
  PROVE  IndInv'
  <1> DEFINE o == IF IsTail(req[r].turn) THEN "reply" ELSE "conflict"
             q == [req[r] EXCEPT !.phase = "completing", !.outcome = o]
  <1>1. req[r] \in Request /\ RequestOK(r) /\ DOMAIN req = Requests
    BY Typed
  <1>2. /\ q \in Request /\ q.phase = "completing" /\ q.outcome = o
        /\ q.key = req[r].key /\ q.turn = req[r].turn /\ q.body = req[r].body
        /\ q.answer = req[r].answer
    BY <1>1 DEF Request, Phases, Outcomes
  <1>3. req' = [req EXCEPT ![r] = q] /\ req'[r] = q
    BY <1>1 DEF LockThread
  <1>4. req[r].phase = "finalizing" /\ ThreadFree
    BY DEF LockThread
  <1>5. o = "reply" => Len(thread) = q.turn
    BY <1>2 DEF IsTail
  <1>6. thread' = thread /\ job' = job /\ calls' = calls /\ now' = now /\ crashes' = crashes
    BY DEF LockThread
  <1>7. RequestOK(r)'
    BY <1>1, <1>2, <1>3, <1>4, <1>5, <1>6, NullIsNoValue DEF RequestOK, Working
  <1>8. q.answer \notin Outcomes
    BY <1>1, <1>2, <1>4, NullIsNoValue DEF RequestOK
  <1> QED
    BY <1>2, <1>3, <1>4, <1>6, <1>7, <1>8, Typed, QuietStep DEF Working

LEMMA PrepareStep ==
  ASSUME IndInv, NEW r \in Requests, Prepare(r)
  PROVE  IndInv'
  <1>1. /\ req[r] \in Request /\ RequestOK(r) /\ DOMAIN req = Requests
        /\ DOMAIN job = Keys /\ thread \in Seq(Event) /\ now \in Nat
    BY Typed
  <1>k. PICK k \in Keys : k = req[r].key
    BY <1>1 DEF Prepare, RequestOK
  <1>t. PICK turn \in Nat : turn = Len(thread) + 1
    BY <1>1
  <1> DEFINE e == UserTurn(k)
             j == [job[k] EXCEPT !.state = "running", !.turn = turn,
                                 !.expires = now + Lease]
             q == [req[r] EXCEPT !.phase = "calling", !.turn = turn]
  <1>2. /\ job[k] \in JobRow /\ JobOK(k) /\ job[k].state = "pending"
        /\ job[k].body = req[r].body /\ req[r].answer = None
        /\ req[r].phase = "holding" /\ ThreadFree
    BY <1>1, <1>k, Typed DEF Prepare, RequestOK
  <1>3. /\ job' = [job EXCEPT ![k] = j] /\ req' = [req EXCEPT ![r] = q]
        /\ thread' = Append(thread, e) /\ calls' = calls /\ now' = now
        /\ crashes' = crashes
    BY <1>k, <1>t, Zenon DEF Prepare
  <1>4. /\ j \in JobRow /\ j.state = "running" /\ j.turn = turn
        /\ j.body = job[k].body /\ j.answer = job[k].answer
    <2>1. now + Lease \in Nat
      BY <1>1, BoundsAreNaturals
    <2> QED
      BY <2>1, <1>2, <1>t DEF JobRow, States
  <1>5. /\ q \in Request /\ q.phase = "calling" /\ q.turn = turn /\ q.key = k
        /\ q.body = req[r].body /\ q.answer = None
    BY <1>1, <1>2, <1>k DEF Request, Phases
  <1>6. /\ job'[k] = j /\ \A m \in Keys \ {k} : job'[m] = job[m]
        /\ req'[r] = q /\ \A s \in Requests \ {r} : req'[s] = req[s]
    BY <1>1, <1>3
  <1>7. e \in Event /\ Grows
    BY <1>3, EventFacts DEF Grows
  <1>8. /\ turn \in DOMAIN thread' /\ thread'[turn] = e /\ turn # 0
    BY <1>1, <1>3, <1>7, <1>t, AppendFacts
  <1>9. TypeOK'
    BY <1>3, <1>4, <1>5, <1>7, <1>1, AppendFacts DEF IndInv, TypeOK
  <1>10. \A s \in Requests \ {r} : req[s].phase = "holding" => req[s].key # k
    BY <1>2, <1>k DEF IndInv, OwnersOK
  <1>11. \A m \in Keys : Moves(m)
    <2>1. req'[r] # req[r]
      BY <1>2, <1>5, <1>6
    <2>2. Moves(k)
      BY <1>2, <1>4, <1>6, <1>10, <2>1 DEF Moves
    <2> QED
      BY <1>6, <2>2 DEF Moves
  <1>12. ThreadOK'
    BY <1>3, <1>4, <1>6, <1>7, <1>11, <1>t, EventsKept
  <1>13. calls[k] = 0
    <2>1. job[k].turn = 0
      BY <1>2 DEF JobOK, Claimed, Terminal
    <2> QED
      BY <2>1, <1>2 DEF JobOK
  <1>14. JobOK(k)'
    BY <1>2, <1>3, <1>4, <1>6, <1>8, <1>13, NullIsNoValue DEF JobOK, Claimed, Terminal
  <1>15. RequestOK(r)'
    <2>1. job'[k].state = "running" /\ job'[k].turn = turn /\ job'[k].body = req[r].body
      BY <1>2, <1>4, <1>6
    <2>2. calls'[k] = 0 /\ turn # 0 /\ None \notin Outcomes
      BY <1>3, <1>8, <1>13, NullIsNoValue
    <2> QED
      BY <2>1, <2>2, <1>5, <1>6 DEF RequestOK, Working
  <1>16. \A s \in Requests \ {r} : req[s].phase \in Working => req[s].key # k
    <2>1. job[k].turn = 0
      BY <1>2 DEF JobOK, Claimed, Terminal
    <2> QED
      BY <2>1, Typed DEF RequestOK
  <1>17. \A m \in Keys : (job'[m] = job[m] /\ calls'[m] = calls[m]) \/ JobOK(m)'
    BY <1>3, <1>6, <1>14
  <1>18. /\ req'[r].answer \notin Outcomes /\ req'[r].phase = "calling"
         /\ req'[r].key = k
    BY <1>5, <1>6, NullIsNoValue
  <1>19. \A s \in Requests \ {r} : req[s].phase # "completing"
    BY <1>2 DEF ThreadFree
  <1> QED
    BY <1>3, <1>6, <1>7, <1>9, <1>11, <1>12, <1>15, <1>16, <1>17, <1>18, <1>19,
       OneRequestStep

\* What a request that may finalize knows.
LEMMA Finalizing ==
  ASSUME IndInv, NEW r \in Requests, Finalizes(r)
  PROVE  /\ req[r].key \in Keys /\ req[r].turn # 0
         /\ job[req[r].key].turn = req[r].turn
         /\ job[req[r].key].body = req[r].body
         /\ calls[req[r].key] # 0
         /\ req[r].outcome \in {"reply", "conflict", "upstream"}
         /\ req[r].outcome = "reply" =>
              /\ req[r].phase = "completing" /\ Len(thread) = req[r].turn
              /\ \A s \in Requests \ {r} : req[s].phase # "completing"
  <1>1. RequestOK(r) /\ OwnersOK
    BY DEF IndInv, RequestsOK
  <1>2. CASE req[r].phase = "completing"
    BY <1>1, <1>2 DEF RequestOK, OwnersOK, Working
  <1>3. CASE req[r].phase = "finalizing" /\ req[r].outcome = "upstream"
    BY <1>1, <1>3 DEF RequestOK, Working
  <1> QED
    BY <1>2, <1>3 DEF Finalizes

LEMMA FinalizeStep ==
  ASSUME IndInv, NEW r \in Requests, Finalize(r)
  PROVE  IndInv'
  <1>0. Finalizes(r) /\ Fenced(r)
    BY DEF Finalize
  <1>1. /\ req[r] \in Request /\ DOMAIN req = Requests
        /\ DOMAIN job = Keys /\ thread \in Seq(Event) /\ Len(thread) \in Nat
    BY Typed
  <1>k. PICK k \in Keys : k = req[r].key
    BY <1>0, Finalizing
  <1>o. PICK o \in {"reply", "conflict", "upstream"} : o = req[r].outcome
    BY <1>0, Finalizing
  <1> DEFINE j == [job[k] EXCEPT !.state = IF o = "reply" THEN "succeeded" ELSE "failed",
                                 !.answer = o]
             q == [Idle EXCEPT !.key = req[r].key, !.body = req[r].body, !.answer = o]
  <1>2. /\ job[k] \in JobRow /\ JobOK(k) /\ job[k].state = "running"
        /\ job[k].body = req[r].body /\ job[k].turn = req[r].turn
        /\ calls[k] # 0
        /\ o = "reply" => Len(thread) = job[k].turn
    BY <1>0, <1>k, <1>o, Typed, Finalizing DEF Fenced
  <1>3. /\ job' = [job EXCEPT ![k] = j] /\ req' = [req EXCEPT ![r] = q]
        /\ thread' = IF o = "reply" THEN Append(thread, Reply(k)) ELSE thread
        /\ calls' = calls /\ now' = now /\ crashes' = crashes
    BY <1>k, <1>o, Zenon DEF Finalize, Outcome, Answer
  <1>4. /\ j \in JobRow /\ j.state \in Terminal /\ (j.state = "succeeded" <=> o = "reply")
        /\ j.turn = job[k].turn /\ j.body = job[k].body /\ j.answer = o
    BY <1>2 DEF JobRow, States, Terminal, Outcomes
  <1>5. q \in Request /\ q.phase = "idle" /\ q.key = k /\ q.body = req[r].body /\ q.answer = o
    BY <1>1, <1>k DEF Idle, Request, Phases, Outcomes
  <1>6. /\ job'[k] = j /\ \A m \in Keys \ {k} : job'[m] = job[m]
        /\ req'[r] = q /\ \A s \in Requests \ {r} : req'[s] = req[s]
    BY <1>1, <1>3
  <1>7. Grows
    BY <1>3, EventFacts DEF Grows
  <1>8. o = "reply" => /\ job[k].turn + 1 \in DOMAIN thread'
                       /\ thread'[job[k].turn + 1] = Reply(k)
    BY <1>1, <1>2, <1>3, EventFacts, AppendFacts
  <1>9. TypeOK'
    <2>1. thread' \in Seq(Event)
      BY <1>7, ThreadGrows
    <2> QED
      BY <2>1, <1>3, <1>4, <1>5 DEF IndInv, TypeOK
  <1>10. \A m \in Keys : Moves(m)
    <2>1. Moves(k)
      BY <1>2, <1>4, <1>6 DEF Moves
    <2> QED
      BY <1>6, <2>1 DEF Moves
  <1>11. ThreadOK'
    <2>1. CASE o = "reply"
      <3>1. /\ thread' = Append(thread, Reply(k)) /\ Reply(k) \in Event
            /\ Len(thread) + 1 = job'[k].turn + 1 /\ job'[k].state = "succeeded"
        BY <2>1, <1>2, <1>3, <1>4, <1>6, EventFacts
      <3> QED
        BY <3>1, <1>10, EventsKept
    <2>2. CASE o # "reply"
      <3>1. thread' = thread
        BY <2>2, <1>3
      <3> QED
        BY <3>1, <1>10, EventsKept
    <2> QED
      BY <2>1, <2>2
  <1>12. JobOK(k)'
    <2>1. /\ job'[k].state \in Terminal /\ (job'[k].state = "succeeded" <=> o = "reply")
          /\ job'[k].turn = job[k].turn /\ job'[k].answer = o /\ calls'[k] = calls[k]
          /\ o # None
      BY <1>3, <1>4, <1>6, NullIsNoValue DEF Outcomes
    <2>2. /\ job[k].turn # 0 /\ job[k].turn \in DOMAIN thread
          /\ thread[job[k].turn] = UserTurn(k) /\ calls[k] <= 1
      BY <1>2 DEF JobOK, Claimed
    <2>3. job[k].turn \in DOMAIN thread' /\ thread'[job[k].turn] = UserTurn(k)
      BY <2>2, <1>7, ThreadGrows
    <2>4. job'[k].body \in Bodies /\ job'[k].state \notin {"absent", "pending", "running"}
      BY <2>1, <1>2, <1>4, <1>6 DEF JobOK, Terminal
    <2> QED
      BY <2>1, <2>2, <2>3, <2>4, <1>2, <1>8 DEF JobOK, Claimed, Terminal
  <1>13. RequestOK(r)'
    BY <1>5, <1>6 DEF RequestOK, Working
  <1>14. thread' = thread \/ \A s \in Requests \ {r} : req[s].phase # "completing"
    BY <1>0, <1>3, <1>o, Finalizing
  <1>15. \A m \in Keys : (job'[m] = job[m] /\ calls'[m] = calls[m]) \/ JobOK(m)'
    BY <1>3, <1>6, <1>12
  <1>16. /\ job'[req'[r].key].answer = req'[r].answer
         /\ job'[req'[r].key].body = req'[r].body /\ req'[r].phase = "idle"
    <2>1. req'[r].key = k /\ req'[r].answer = o /\ req'[r].body = req[r].body
      BY <1>5, <1>6
    <2>2. job'[k].answer = o /\ job'[k].body = req[r].body
      BY <1>2, <1>4, <1>6
    <2> QED
      BY <2>1, <2>2, <1>5, <1>6
  <1> QED
    BY <1>3, <1>6, <1>7, <1>9, <1>10, <1>11, <1>13, <1>14, <1>15, <1>16,
       OneRequestStep DEF Working

LEMMA FenceLostStep ==
  ASSUME IndInv, NEW r \in Requests, FenceLost(r)
  PROVE  IndInv'
  BY Typed, QuietAnswer DEF FenceLost, LateReply, Others

LEMMA ResolveFailsStep ==
  ASSUME IndInv, NEW r \in Requests, ResolveFails(r)
  PROVE  IndInv'
  BY Typed, QuietAnswer DEF ResolveFails, Others

LEMMA PrepareFailsStep ==
  ASSUME IndInv, NEW r \in Requests, PrepareFails(r)
  PROVE  IndInv'
  BY Typed, QuietAnswer DEF PrepareFails, Others

LEMMA CrashStep ==
  ASSUME IndInv, NEW r \in Requests, Crash(r)
  PROVE  IndInv'
  <1>1. crashes' \in Nat
    BY Typed DEF Crash
  <1> QED
    BY <1>1, Typed, QuietAnswer DEF Crash, Others

\* A look at a row, by a request that has no claim yet.
LEMMA LookStep ==
  ASSUME IndInv, NEW r \in Requests, NEW k \in Keys, NEW b \in Bodies,
         NEW next \in {"resolving", "holding"}, Look(r, k, b, next),
         thread' = thread, calls' = calls, now' = now, crashes' = crashes
  PROVE  IndInv'
  <1> DEFINE j == Screened(Row(k, b), b)
             v == Verdict(Row(k, b), b)
             q == [Idle EXCEPT !.key = k, !.body = b,
                               !.phase = IF v = "go" THEN next ELSE "idle",
                               !.answer = IF v = "go" THEN None ELSE v]
  <1>1. job' = [job EXCEPT ![k] = j] /\ req' = [req EXCEPT ![r] = q] /\ JobFree(k)
    BY DEF Look
  <1>2. /\ j \in JobRow /\ j.turn = job[k].turn /\ j.state # "absent" /\ j.body \in Bodies
        /\ job[k].state # "absent" => j.body = job[k].body
        /\ \/ j = job[k]
           \/ job[k].state = "absent" /\ j.state = "pending" /\ j.answer = None
           \/ job[k].state = "running" /\ j.state = "failed" /\ j.answer = "unknown"
        /\ v \in Outcomes \cup {"reused", "in_progress", "go"}
        /\ v = "go" => j.state = "pending" /\ j.body = b
        /\ v \in Outcomes => j.answer = v /\ j.body = b
    BY LookedAt
  <1> HIDE DEF j, v
  <1>3. /\ q.key = k /\ q.body = b /\ q.turn = 0 /\ q.outcome = None
        /\ v = "go" => q.phase = next /\ q.answer = None
        /\ v # "go" => q.phase = "idle" /\ q.answer = v
    BY DEF Idle
  <1>4. q \in Request
    BY <1>2 DEF Idle, Request, Phases, Others
  <1> HIDE DEF q
  <1>5. /\ job[k] \in JobRow /\ JobOK(k) /\ DOMAIN job = Keys /\ DOMAIN req = Requests
    BY Typed
  <1>6. /\ job'[k] = j /\ \A m \in Keys \ {k} : job'[m] = job[m]
        /\ req'[r] = q /\ \A s \in Requests \ {r} : req'[s] = req[s]
    BY <1>1, <1>5
  <1>7. TypeOK'
    BY <1>1, <1>2, <1>4 DEF IndInv, TypeOK
  <1>8. \A m \in Keys : Moves(m)
    <2>1. Moves(k)
      BY <1>2, <1>6 DEF Moves, Terminal
    <2> QED
      BY <1>6, <2>1 DEF Moves
  <1>9. ThreadOK'
    BY <1>8, EventsKept
  <1>10. JobOK(k)'
    <2>1. CASE j = job[k]
      BY <2>1, <1>6, JobKept DEF Grows
    <2>2. CASE job[k].state = "absent" /\ j.state = "pending" /\ j.answer = None
      BY <2>2, <1>2, <1>5, <1>6, NullIsNoValue DEF JobOK, Claimed, Terminal
    <2>3. CASE job[k].state = "running" /\ j.state = "failed" /\ j.answer = "unknown"
      <3>1. None # "unknown"
        BY NullIsNoValue DEF Outcomes
      <3> QED
        BY <2>3, <3>1, <1>2, <1>5, <1>6 DEF JobOK, Claimed, Terminal
    <2> QED
      BY <1>2, <2>1, <2>2, <2>3
  <1>11. RequestOK(r)'
    BY <1>2, <1>3, <1>6 DEF RequestOK, Working
  <1>12. req'[r].answer \in Outcomes =>
           job'[req'[r].key].answer = req'[r].answer /\ job'[req'[r].key].body = req'[r].body
    <2>1. CASE v = "go"
      BY <2>1, <1>3, <1>6, NullIsNoValue
    <2>2. CASE v # "go"
      BY <2>2, <1>2, <1>3, <1>6
    <2> QED
      BY <2>1, <2>2
  <1>13. req'[r].phase = "holding" =>
           \A s \in Requests \ {r} : req[s].phase = "holding" => req[s].key # req'[r].key
    BY <1>1, <1>3, <1>6 DEF JobFree
  <1>14. req'[r].phase \in {"idle", "resolving", "holding"}
    BY <1>3, <1>6
  <1>15. \A m \in Keys : (job'[m] = job[m] /\ calls'[m] = calls[m]) \/ JobOK(m)'
    BY <1>6, <1>10
  <1> QED
    BY <1>6, <1>7, <1>8, <1>9, <1>11, <1>12, <1>13, <1>14, <1>15,
       OneRequestStep DEF Grows, Working

\* A request that looks again asks for a key and a body.
LEMMA LookingAgain ==
  ASSUME IndInv, NEW r \in Requests, LookAgain(r)
  PROVE  req[r].key \in Keys /\ req[r].body \in Bodies
  <1>1. /\ req[r].key \in Keys /\ job[req[r].key].state # "absent"
        /\ job[req[r].key].body = req[r].body
    BY Typed DEF LookAgain, RequestOK
  <1>2. JobOK(req[r].key)
    BY <1>1, Typed
  <1> QED
    BY <1>1, <1>2 DEF JobOK

LEMMA LookAgainStep ==
  ASSUME IndInv, NEW r \in Requests, LookAgain(r)
  PROVE  IndInv'
  BY LookingAgain, LookStep DEF LookAgain

\* Other events and the clock leave every request and row alone.
LEMMA OutsideStep ==
  ASSUME IndInv, AppendOther \/ Tick
  PROVE  IndInv'
  <1>1. /\ job' = job /\ req' = req /\ calls' = calls /\ crashes' = crashes
        /\ now' \in Nat
        /\ thread' = thread \/ (ThreadFree /\ thread' = Append(thread, OtherEvent))
    BY Typed DEF AppendOther, Tick
  <1>2. OtherEvent \in Event /\ Grows
    BY <1>1 DEF OtherEvent, Event, Grows
  <1>3. thread' \in Seq(Event)
    BY <1>2, ThreadGrows
  <1>4. TypeOK'
    BY <1>1, <1>3 DEF IndInv, TypeOK
  <1>5. \A k \in Keys : Moves(k)
    BY <1>1 DEF Moves
  <1>6. ThreadOK'
    BY <1>1, <1>2, <1>5, EventsKept
  <1>7. JobsOK'
    BY <1>1, <1>2, JobKept DEF JobsOK
  <1>8. RequestsOK'
    <2> SUFFICES ASSUME NEW r \in Requests PROVE RequestOK(r)'
      BY DEF RequestsOK
    <2>1. req[r].phase = "completing" => thread' = thread
      BY <1>1 DEF ThreadFree
    <2> QED
      BY <2>1, <1>1, <1>5, RequestKept
  <1>9. OwnersOK' /\ AnswersAgree'
    BY <1>1 DEF IndInv, OwnersOK, AnswersAgree
  <1> QED
    BY <1>4, <1>6, <1>7, <1>8, <1>9 DEF IndInv

-----------------------------------------------------------------------------
\* The theorems

LEMMA InitIndInv == Init => IndInv
  <1> SUFFICES ASSUME Init PROVE IndInv
    OBVIOUS
  <1>1. NoJob \in JobRow /\ Idle \in Request /\ thread = <<>>
    BY DEF NoJob, Idle, JobRow, Request, States, Phases, Init
  <1>2. TypeOK
    BY <1>1 DEF Init, TypeOK
  <1>3. JobsOK
    <2> SUFFICES ASSUME NEW k \in Keys PROVE JobOK(k)
      BY DEF JobsOK
    <2>1. job[k] = NoJob /\ calls[k] = 0
      BY DEF Init
    <2>2. /\ NoJob.state = "absent" /\ NoJob.turn = 0 /\ NoJob.answer = None
          /\ None # "reply"
      BY NullIsNoValue DEF NoJob, Outcomes
    <2> QED
      BY <2>1, <2>2 DEF JobOK, Claimed, Terminal
  <1>4. ThreadOK
    BY DEF Init, ThreadOK
  <1>5. RequestsOK /\ OwnersOK /\ AnswersAgree
    BY NullIsNoValue DEF Init, Idle, RequestsOK, RequestOK, OwnersOK, AnswersAgree, Working
  <1> QED
    BY <1>2, <1>3, <1>4, <1>5 DEF IndInv

LEMMA StepIndInv == IndInv /\ [Next]_vars => IndInv'
  <1> SUFFICES ASSUME IndInv, [Next]_vars PROVE IndInv'
    OBVIOUS
  <1>1. CASE UNCHANGED vars
    BY <1>1 DEF vars, IndInv, TypeOK, JobsOK, JobOK, ThreadOK, Known, RequestsOK,
                RequestOK, OwnersOK, AnswersAgree
  <1>2. ASSUME NEW r \in Requests, NEW k \in Keys, NEW b \in Bodies, Send(r, k, b)
        PROVE  IndInv'
    BY <1>2, LookStep DEF Send
  <1>3. ASSUME NEW r \in Requests, LockingStep(r)
        PROVE  IndInv'
    BY <1>3, LookAgainStep, PrepareStep, LockThreadStep, FinalizeStep, FenceLostStep
    DEF LockingStep
  <1>4. ASSUME NEW r \in Requests, PlainStep(r)
        PROVE  IndInv'
    BY <1>4, ResolveStep, ResolveFailsStep, CallStep DEF PlainStep
  <1>5. ASSUME NEW r \in Requests, PrepareFails(r) \/ Crash(r)
        PROVE  IndInv'
    BY <1>5, PrepareFailsStep, CrashStep
  <1>6. CASE AppendOther \/ Tick
    BY <1>6, OutsideStep
  <1> QED
    BY <1>1, <1>2, <1>3, <1>4, <1>5, <1>6 DEF Next

\* The rows, the thread and the requests fit together in every reachable state
\* (response_jobs.py, routers/providers.py, append_event_if_tail).
THEOREM ResponseInvariant == Spec => []IndInv
  BY InitIndInv, StepIndInv, PTL DEF Spec

\* The provider is called at most once for a key (CalledOnce).
THEOREM ProviderCalledOnce == Spec => []CalledOnce
  <1>1. IndInv => CalledOnce
    <2> SUFFICES ASSUME IndInv, NEW k \in Keys
                 PROVE  calls[k] <= 1 /\ (calls[k] > 0 => job[k].turn \in DOMAIN thread)
      BY DEF CalledOnce
    <2>1. JobOK(k) /\ calls[k] \in Nat
      BY Typed
    <2> QED
      BY <2>1 DEF JobOK
  <1> QED
    BY <1>1, ResponseInvariant, PTL

\* A key puts at most one turn and one reply into the thread (TurnsOnce).
THEOREM ThreadHasNoDuplicates == Spec => []TurnsOnce
  <1>1. IndInv => TurnsOnce
    <2> SUFFICES ASSUME IndInv, NEW i \in DOMAIN thread, NEW j \in DOMAIN thread,
                        thread[i] = thread[j], thread[i].key # None
                 PROVE  i = j
      BY DEF TurnsOnce
    <2>1. Known(thread[i], i) /\ Known(thread[j], j)
      BY DEF IndInv, ThreadOK
    <2>2. thread[i] # OtherEvent
      BY DEF OtherEvent
    <2>3. ASSUME NEW k \in Keys, thread[i] = UserTurn(k)
          PROVE  i = job[k].turn /\ j = job[k].turn
      BY <2>1, <2>2, <2>3, EventFacts DEF Known
    <2>4. ASSUME NEW k \in Keys, thread[i] = Reply(k)
          PROVE  i = job[k].turn + 1 /\ j = job[k].turn + 1
      BY <2>1, <2>2, <2>4, EventFacts DEF Known
    <2> QED
      BY <2>1, <2>2, <2>3, <2>4 DEF Known
  <1> QED
    BY <1>1, ResponseInvariant, PTL

\* A reply comes directly after the turn it answers (ReplyFollowsTurn).
THEOREM RepliesFollowTurns == Spec => []ReplyFollowsTurn
  <1>1. IndInv => ReplyFollowsTurn
    <2> SUFFICES ASSUME IndInv, NEW i \in DOMAIN thread, thread[i].kind = "assistant"
                 PROVE  i > 1 /\ thread[i - 1] = UserTurn(thread[i].key)
      BY DEF ReplyFollowsTurn
    <2>1. Known(thread[i], i)
      BY DEF IndInv, ThreadOK
    <2>2. PICK k \in Keys : /\ thread[i] = Reply(k) /\ i = job[k].turn + 1
                            /\ job[k].state = "succeeded"
      BY <2>1 DEF Known, UserTurn, OtherEvent
    <2>3. /\ job[k].turn \in Nat /\ job[k].turn # 0
          /\ thread[job[k].turn] = UserTurn(k)
      BY <2>2, Typed DEF JobOK, JobRow, Claimed, Terminal
    <2>4. i > 1 /\ i - 1 = job[k].turn
      BY <2>2, <2>3
    <2>5. thread[i].key = k
      BY <2>2 DEF Reply
    <2> QED
      BY <2>3, <2>4, <2>5
  <1> QED
    BY <1>1, ResponseInvariant, PTL

\* The thread holds a key's reply exactly when its job succeeded.
LEMMA RepliedIffSucceeded ==
  ASSUME IndInv, NEW k \in Keys
  PROVE  job[k].state = "succeeded" <=> \E i \in DOMAIN thread : thread[i] = Reply(k)
  <1>1. JobOK(k) /\ ThreadOK
    BY DEF IndInv, JobsOK
  <1>2. ASSUME job[k].state = "succeeded"
        PROVE  \E i \in DOMAIN thread : thread[i] = Reply(k)
    BY <1>1, <1>2 DEF JobOK
  <1>3. ASSUME NEW i \in DOMAIN thread, thread[i] = Reply(k)
        PROVE  job[k].state = "succeeded"
    BY <1>1, <1>3, EventFacts DEF ThreadOK, Known
  <1> QED
    BY <1>2, <1>3

\* Neither a failed nor an abandoned job leaves a reply (ReplyIffSucceeded).
THEOREM RepliesMatchJobs == Spec => []ReplyIffSucceeded
  <1>1. IndInv => ReplyIffSucceeded
    BY RepliedIffSucceeded DEF ReplyIffSucceeded
  <1> QED
    BY <1>1, ResponseInvariant, PTL

\* Whoever is told an outcome is told the job's (AnswersAgree).
THEOREM RetriesAgree == Spec => []AnswersAgree
  <1>1. IndInv => AnswersAgree
    BY DEF IndInv
  <1> QED
    BY <1>1, ResponseInvariant, PTL

\* Nobody who holds the thread's lock needs the row of a holder that waits for
\* it: the two lock orders make no cycle (LocksNeverCross).
THEOREM LockOrdersAreSafe == Spec => []LocksNeverCross
  <1>1. IndInv => LocksNeverCross
    <2> SUFFICES ASSUME IndInv, NEW r \in Requests, NEW s \in Requests,
                        req[r].phase = "holding", req[s].phase = "completing"
                 PROVE  req[r].key # req[s].key
      BY DEF LocksNeverCross
    <2>1. /\ req[r].key \in Keys /\ job[req[r].key].state = "pending"
          /\ req[s].turn # 0 /\ job[req[s].key].turn = req[s].turn
      BY Typed DEF RequestOK, Working
    <2>2. job[req[r].key].turn = 0
      BY <2>1, Typed DEF JobOK, Claimed, Terminal
    <2> QED
      BY <2>1, <2>2
  <1> QED
    BY <1>1, ResponseInvariant, PTL

\* A job that has ended keeps its outcome (OutcomeStable).
THEOREM OutcomesAreFinal == Spec => OutcomeStable
  <1>1. IndInv /\ [Next]_vars => [EndedStays]_vars
    <2> SUFFICES ASSUME IndInv, Next, NEW k \in Keys, job[k].state \in Terminal
                 PROVE  job'[k] = job[k]
      BY DEF EndedStays
    <2>1. ASSUME NEW r \in Requests, NEW m \in Keys, NEW b \in Bodies, NEW n,
                 Look(r, m, b, n)
          PROVE  job'[k] = job[k]
      <3>1. m = k => Screened(Row(m, b), b) = job[k]
        BY LookedAt DEF Terminal
      <3>2. job' = [job EXCEPT ![m] = Screened(Row(m, b), b)]
        BY <2>1 DEF Look
      <3> QED
        BY <3>1, <3>2, Typed
    <2>2. ASSUME NEW r \in Requests, LookAgain(r)
          PROVE  job'[k] = job[k]
      <3>1. req[r].key \in Keys /\ req[r].body \in Bodies
        BY <2>2, LookingAgain
      <3> QED
        BY <2>1, <2>2, <3>1 DEF LookAgain
    <2>3. ASSUME NEW r \in Requests, Prepare(r) \/ (Finalize(r) /\ Fenced(r))
          PROVE  job'[k] = job[k]
      <3>1. PICK j : job' = [job EXCEPT ![req[r].key] = j]
        BY <2>3 DEF Prepare, Finalize
      <3>2. req[r].key # k
        BY <2>3 DEF Prepare, Fenced, Terminal
      <3> QED
        BY <3>1, <3>2, Typed
    <2>4. CASE UNCHANGED job
      BY <2>4
    <2>5. ASSUME NEW r \in Requests, LockingStep(r)
          PROVE  job'[k] = job[k]
      BY <2>2, <2>3, <2>5 DEF LockingStep, LockThread, Finalize, FenceLost
    <2> QED
      BY <2>1, <2>4, <2>5
      DEF Next, Send, PlainStep, Resolve, ResolveFails, Call, PrepareFails, Crash,
          AppendOther, Tick
  <1> QED
    BY <1>1, ResponseInvariant, PTL DEF Spec, OutcomeStable

-----------------------------------------------------------------------------
\* The refinement

\* What the refinement needs of two states.
RepliedKeys == Replied = {k \in Keys : job[k].state = "succeeded"}

LEMMA RepliedKeysHold == IndInv => RepliedKeys
  BY RepliedIffSucceeded DEF Replied, RepliedKeys

LEMMA KeyedInit == Init => Keyed!Init
  <1> SUFFICES ASSUME Init PROVE Keyed!Init
    OBVIOUS
  <1>1. Accepted = {} /\ Concluded = [k \in Keys |-> None]
    BY DEF Init, Accepted, Concluded, NoJob
  <1>2. Replied = {}
    BY DEF Init, Replied
  <1> QED
    BY <1>1, <1>2 DEF Keyed!Init, Init

\* A step that changes one row.
LEMMA KeyedRowStep ==
  ASSUME IndInv, RepliedKeys, RepliedKeys', NEW k \in Keys, NEW j \in JobRow,
         job' = [job EXCEPT ![k] = j], calls' = calls,
         \/ /\ j.turn = job[k].turn /\ j.answer = job[k].answer
            /\ (j.state = "succeeded" <=> job[k].state = "succeeded")
         \/ /\ job[k].turn = 0 /\ j.turn # 0 /\ j.answer = job[k].answer
            /\ j.state # "succeeded" /\ job[k].state # "succeeded"
         \/ /\ job[k].turn # 0 /\ j.turn = job[k].turn /\ job[k].answer = None
            /\ j.state = "succeeded" /\ j.answer = "reply" /\ calls[k] # 0
         \/ /\ job[k].turn # 0 /\ j.turn = job[k].turn /\ job[k].answer = None
            /\ j.state = "failed" /\ j.answer \in Outcomes \ {"reply"}
            /\ job[k].state # "succeeded"
  PROVE  Keyed!Next \/ UNCHANGED Keyed!vars
  <1>1. DOMAIN job = Keys /\ job'[k] = j /\ \A m \in Keys \ {k} : job'[m] = job[m]
    BY Typed
  <1>2. /\ Replied = {m \in Keys : job[m].state = "succeeded"}
        /\ Replied' = {m \in Keys : job'[m].state = "succeeded"}
    BY DEF RepliedKeys
  <1>3. Concluded' = [Concluded EXCEPT ![k] = j.answer] /\ Concluded[k] = job[k].answer
    BY <1>1 DEF Concluded
  <1>4. Accepted' = IF j.turn # 0 THEN Accepted \cup {k} ELSE Accepted \ {k}
    BY <1>1 DEF Accepted
  <1>5. Replied' = IF j.state = "succeeded" THEN Replied \cup {k} ELSE Replied \ {k}
    BY <1>1, <1>2
  <1>6. (k \in Accepted <=> job[k].turn # 0) /\ (k \in Replied <=> job[k].state = "succeeded")
    BY <1>2 DEF Accepted
  <1>7. calls[k] # 0 => calls[k] = 1
    BY Typed DEF JobOK
  <1>8. CASE /\ j.turn = job[k].turn /\ j.answer = job[k].answer
             /\ (j.state = "succeeded" <=> job[k].state = "succeeded")
    <2>1. Concluded' = Concluded /\ Accepted' = Accepted /\ Replied' = Replied
      BY <1>1, <1>4, <1>5, <1>6, <1>8 DEF Concluded
    <2> QED
      BY <2>1 DEF Keyed!vars
  <1>9. CASE /\ job[k].turn = 0 /\ j.turn # 0 /\ j.answer = job[k].answer
             /\ j.state # "succeeded" /\ job[k].state # "succeeded"
    <2>1. Concluded' = Concluded /\ Accepted' = Accepted \cup {k} /\ Replied' = Replied
      BY <1>1, <1>4, <1>5, <1>6, <1>9 DEF Concluded
    <2> QED
      BY <2>1, <1>6, <1>9 DEF Keyed!Next, Keyed!Accept
  <1>10. CASE /\ job[k].turn # 0 /\ j.turn = job[k].turn /\ job[k].answer = None
              /\ j.state = "succeeded" /\ j.answer = "reply" /\ calls[k] # 0
    <2>1. /\ Concluded' = [Concluded EXCEPT ![k] = "reply"] /\ Concluded[k] = None
          /\ Accepted' = Accepted /\ Replied' = Replied \cup {k}
      BY <1>3, <1>4, <1>5, <1>6, <1>10
    <2> QED
      BY <2>1, <1>6, <1>7, <1>10 DEF Keyed!Next, Keyed!Conclude
  <1>11. CASE /\ job[k].turn # 0 /\ j.turn = job[k].turn /\ job[k].answer = None
              /\ j.state = "failed" /\ j.answer \in Outcomes \ {"reply"}
              /\ job[k].state # "succeeded"
    <2>1. /\ Concluded' = [Concluded EXCEPT ![k] = j.answer] /\ Concluded[k] = None
          /\ Accepted' = Accepted /\ Replied' = Replied
      BY <1>3, <1>4, <1>5, <1>6, <1>11
    <2> QED
      BY <2>1, <1>6, <1>11 DEF Keyed!Next, Keyed!GiveUp
  <1> QED
    BY <1>8, <1>9, <1>10, <1>11

\* A step that leaves the rows and the calls alone.
LEMMA KeyedStutter ==
  ASSUME RepliedKeys, RepliedKeys', job' = job, calls' = calls
  PROVE  UNCHANGED Keyed!vars
  BY DEF RepliedKeys, Accepted, Concluded, Keyed!vars

LEMMA KeyedLook ==
  ASSUME IndInv, RepliedKeys, RepliedKeys', NEW r \in Requests, NEW k \in Keys,
         NEW b \in Bodies, NEW n, Look(r, k, b, n), calls' = calls
  PROVE  Keyed!Next \/ UNCHANGED Keyed!vars
  <1> DEFINE j == Screened(Row(k, b), b)
  <1>1. /\ j \in JobRow /\ j.turn = job[k].turn
        /\ \/ j = job[k]
           \/ job[k].state = "absent" /\ j.state = "pending" /\ j.answer = None
           \/ job[k].state = "running" /\ j.state = "failed" /\ j.answer = "unknown"
    BY LookedAt
  <1>2. job' = [job EXCEPT ![k] = j] /\ JobOK(k)
    BY Typed DEF Look
  <1> HIDE DEF j
  <1>3. \/ /\ j.answer = job[k].answer
           /\ (j.state = "succeeded" <=> job[k].state = "succeeded")
        \/ /\ job[k].turn # 0 /\ job[k].answer = None
           /\ j.state = "failed" /\ j.answer \in Outcomes \ {"reply"}
           /\ job[k].state # "succeeded"
    BY <1>1, <1>2 DEF JobOK, Claimed, Terminal, Outcomes
  <1> QED
    BY <1>1, <1>2, <1>3, KeyedRowStep

LEMMA KeyedPrepare ==
  ASSUME IndInv, RepliedKeys, RepliedKeys', NEW r \in Requests, Prepare(r), TypeOK'
  PROVE  Keyed!Next \/ UNCHANGED Keyed!vars
  <1> DEFINE k == req[r].key
             j == [job[k] EXCEPT !.state = "running", !.turn = Len(thread) + 1,
                                 !.expires = now + Lease]
  <1>1. k \in Keys /\ job[k].state = "pending"
    BY Typed DEF Prepare, RequestOK
  <1>2. job[k] \in JobRow /\ JobOK(k) /\ DOMAIN job = Keys /\ Len(thread) + 1 # 0
    BY <1>1, Typed
  <1>3. job' = [job EXCEPT ![k] = j] /\ calls' = calls
    BY Zenon DEF Prepare
  <1>4. j \in JobRow
    BY <1>1, <1>2, <1>3 DEF TypeOK
  <1>5. j.turn # 0 /\ j.answer = job[k].answer /\ j.state # "succeeded"
    BY <1>2 DEF JobRow
  <1>6. job[k].turn = 0
    BY <1>1, <1>2 DEF JobOK, Claimed, Terminal
  <1> QED
    BY <1>1, <1>3, <1>4, <1>5, <1>6, KeyedRowStep

LEMMA KeyedCalled ==
  ASSUME IndInv, RepliedKeys, RepliedKeys', NEW r \in Requests, Call(r)
  PROVE  Keyed!Next \/ UNCHANGED Keyed!vars
  <1> DEFINE k == req[r].key
  <1>1. k \in Keys /\ calls[k] = 0 /\ job[k].turn # 0
    BY Typed DEF Call, RequestOK, Working
  <1>2. calls' = [calls EXCEPT ![k] = 1] /\ job' = job
    <2>1. calls' = [calls EXCEPT ![k] = calls[k] + 1] /\ job' = job
      BY DEF Call
    <2>2. calls[k] + 1 = 1
      BY <1>1
    <2> QED
      BY <2>1, <2>2, Zenon
  <1>3. k \in Accepted /\ Accepted' = Accepted /\ Concluded' = Concluded
        /\ Replied' = Replied
    BY <1>1, <1>2 DEF Accepted, Concluded, RepliedKeys
  <1> QED
    BY <1>1, <1>2, <1>3 DEF Keyed!Next, Keyed!Call

LEMMA KeyedFinalize ==
  ASSUME IndInv, RepliedKeys, RepliedKeys', NEW r \in Requests, Finalize(r)
  PROVE  Keyed!Next \/ UNCHANGED Keyed!vars
  <1> DEFINE k == req[r].key
             o == req[r].outcome
             j == Outcome(job[k], o)
  <1>1. Finalizes(r) /\ Fenced(r) /\ job' = [job EXCEPT ![k] = j] /\ calls' = calls
    BY DEF Finalize
  <1>2. /\ k \in Keys /\ calls[k] # 0 /\ job[k].state = "running"
        /\ o \in {"reply", "conflict", "upstream"}
    BY <1>1, Finalizing DEF Fenced
  <1>3. job[k] \in JobRow /\ JobOK(k)
    BY <1>2, Typed
  <1>4. job[k].turn # 0 /\ job[k].answer = None
    BY <1>2, <1>3 DEF JobOK, Claimed, Terminal
  <1>5. /\ j \in JobRow /\ j.turn = job[k].turn /\ j.answer = o
        /\ j.state = IF o = "reply" THEN "succeeded" ELSE "failed"
    BY <1>2, <1>3 DEF Outcome, JobRow, States, Outcomes
  <1> HIDE DEF j
  <1>6. \/ j.state = "succeeded" /\ j.answer = "reply"
        \/ j.state = "failed" /\ j.answer \in Outcomes \ {"reply"}
    BY <1>2, <1>5 DEF Outcomes
  <1> QED
    BY <1>1, <1>2, <1>4, <1>5, <1>6, KeyedRowStep

\* Requests, retries, deaths, leases and locks implement one call for a key.
THEOREM JobsImplementKeyedCall == Spec => ImplementsKeyedCall
  <1>1. IndInv /\ IndInv' /\ RepliedKeys /\ RepliedKeys' /\ [Next]_vars
          => [Keyed!Next]_(Keyed!vars)
    <2> SUFFICES ASSUME IndInv, IndInv', RepliedKeys, RepliedKeys', [Next]_vars
                 PROVE  Keyed!Next \/ UNCHANGED Keyed!vars
      OBVIOUS
    <2>1. CASE job' = job /\ calls' = calls
      BY <2>1, KeyedStutter
    <2>2. CASE UNCHANGED vars
      BY <2>1, <2>2 DEF vars
    <2>3. ASSUME NEW r \in Requests, NEW k \in Keys, NEW b \in Bodies, Send(r, k, b)
          PROVE  Keyed!Next \/ UNCHANGED Keyed!vars
      BY <2>3, KeyedLook DEF Send
    <2>4. ASSUME NEW r \in Requests, LockingStep(r)
          PROVE  Keyed!Next \/ UNCHANGED Keyed!vars
      <3>1. CASE LookAgain(r)
        BY <3>1, LookingAgain, KeyedLook DEF LookAgain
      <3>2. CASE Prepare(r)
        BY <3>2, KeyedPrepare DEF IndInv
      <3>3. CASE Finalize(r)
        BY <3>3, KeyedFinalize
      <3>4. CASE LockThread(r) \/ FenceLost(r)
        BY <3>4, <2>1 DEF LockThread, FenceLost
      <3> QED
        BY <2>4, <3>1, <3>2, <3>3, <3>4 DEF LockingStep
    <2>5. ASSUME NEW r \in Requests, PlainStep(r)
          PROVE  Keyed!Next \/ UNCHANGED Keyed!vars
      BY <2>1, <2>5, KeyedCalled DEF PlainStep, Resolve, ResolveFails
    <2>6. ASSUME NEW r \in Requests, PrepareFails(r) \/ Crash(r)
          PROVE  Keyed!Next \/ UNCHANGED Keyed!vars
      BY <2>1, <2>6 DEF PrepareFails, Crash
    <2>7. CASE AppendOther \/ Tick
      BY <2>1, <2>7 DEF AppendOther, Tick
    <2> QED
      BY <2>2, <2>3, <2>4, <2>5, <2>6, <2>7 DEF Next
  <1> QED
    BY <1>1, KeyedInit, RepliedKeysHold, ResponseInvariant, PTL
    DEF Spec, ImplementsKeyedCall, Keyed!Spec
=============================================================================

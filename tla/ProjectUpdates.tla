--------------------------- MODULE ProjectUpdates ---------------------------
(***************************************************************************)
(* Update candidates of one project: generated, reviewed and redacted.     *)
(*                                                                         *)
(* A candidate is a memory and an artifact, both stored under the digest   *)
(* of the inputs they were made from, and an event that ties the two.  A   *)
(* generator looks for the artifact of its digest, then for the memory,    *)
(* composes the text, looks for the artifact again, and stores what it did *)
(* not find; every look sees what other sessions have committed by then.   *)
(* The direct call does all this in one transaction, the scheduled one     *)
(* stages its writes and publishes them in a second transaction: what is   *)
(* staged appears at Publish, and by then another generator may have       *)
(* stored it.  A review holds the lifecycle lock and the artifact's row    *)
(* from its first read to its commit and is one action, and so is a        *)
(* redaction.  Once decided, the memory is reviewed, corrected, forgotten  *)
(* and swept like any other.                                               *)
(*                                                                         *)
(* The generators of the model share one door, so equal inputs give equal  *)
(* digests; the state that a candidate suggests depends on the evidence.   *)
(*                                                                         *)
(* Definitions whose name starts with Bad are faulty variants, used by no  *)
(* specification.                                                          *)
(***************************************************************************)
EXTENDS Naturals, FiniteSets

CONSTANTS
  States,      \* texts of projects.current_state, and what evidence suggests
  Memories,    \* memory ids
  Artifacts,   \* artifact ids
  Generators,  \* calls of generate_project_update_candidate under way
  Redactions,  \* bound on the redactions
  None,        \* SQL NULL
  Own          \* a row the generator did not find and is going to store

\* What a digest stands for: the project's state and what its evidence suggests.
Digests == [state : States, seen : States]

ASSUME MarksAreNoIds == /\ None \notin Memories \cup Artifacts \cup Digests
                        /\ Own \notin Memories \cup Artifacts \cup {None}
ASSUME RedactionBound == Redactions \in Nat

VARIABLES
  project,   \* the project's current_state
  evidence,  \* what its sources and memories suggest at the moment
  mem,       \* candidate memories
  art,       \* project_update artifacts
  created,   \* project.update_candidate_created events
  decided,   \* decision events, each with its revision of the memory
  gen,       \* by generator: what it has read so far
  scanned,   \* memories that a staleness sweep has read and may mark
  redacted   \* redactions so far

vars == <<project, evidence, mem, art, created, decided, gen, scanned,
          redacted>>

\* _project_automation_digest
Digest == [state |-> project, seen |-> evidence]

NoMemory   == [status |-> "absent", key |-> None]
NoArtifact == [status |-> "absent", key |-> None, cand |-> None,
               redacted |-> FALSE]
Idle       == [step |-> "idle", key |-> None, mem |-> None, art |-> None]

Init ==
  /\ project \in States /\ evidence \in States
  /\ mem = [m \in Memories |-> NoMemory]
  /\ art = [a \in Artifacts |-> NoArtifact]
  /\ created = {} /\ decided = {}
  /\ gen = [g \in Generators |-> Idle]
  /\ scanned = {} /\ redacted = 0

WithMemKey(d) == {m \in Memories : mem[m].key = d}
WithArtKey(d) == {a \in Artifacts : art[a].key = d}

\* The sources and memories of the project change.
Observe(e) ==
  /\ evidence' = e /\ e # evidence
  /\ UNCHANGED <<project, mem, art, created, decided, gen, scanned, redacted>>

\* Nothing is stored for these inputs; otherwise the call returns that artifact.
Read(g) ==
  /\ gen[g].step = "idle" /\ WithArtKey(Digest) = {}
  /\ gen' = [gen EXCEPT ![g].step = "read", ![g].key = Digest]
  /\ UNCHANGED <<project, evidence, mem, art, created, decided, scanned, redacted>>

\* upsert_memory_by_key, or its staged form: a row that is not deleted is found.
Remember(g) ==
  LET found == {m \in WithMemKey(gen[g].key) : mem[m].status # "archived"} IN
  /\ gen[g].step = "read"
  /\ \E m \in (IF found = {} THEN {Own} ELSE found) :
       gen' = [gen EXCEPT ![g].step = "remembered", ![g].mem = m]
  /\ UNCHANGED <<project, evidence, mem, art, created, decided, scanned, redacted>>

\* The text is composed, then upsert_artifact_by_workflow_digest.
Store(g) ==
  LET found == WithArtKey(gen[g].key) IN
  /\ gen[g].step = "remembered"
  /\ \E a \in (IF found = {} THEN {Own} ELSE found) :
       gen' = [gen EXCEPT ![g].step = "stored", ![g].art = a]
  /\ UNCHANGED <<project, evidence, mem, art, created, decided, scanned, redacted>>

BadPublishesMemory(g, m) ==
  \/ gen[g].mem = m /\ UNCHANGED mem
  \/ /\ gen[g].mem = Own /\ mem[m].status = "absent"
     /\ mem' = [mem EXCEPT ![m] = [status |-> "candidate", key |-> gen[g].key]]
\* The memory under its key: the one that was found, the one another session
\* stored since then, or a new one.  A deleted row still holds its key and is
\* found by nobody: then no disjunct holds and the call fails.
PublishesMemory(g, m) ==
  LET held == WithMemKey(gen[g].key) IN
  \/ gen[g].mem = m /\ UNCHANGED mem
  \/ gen[g].mem = Own /\ m \in held /\ mem[m].status # "archived" /\ UNCHANGED mem
  \/ /\ gen[g].mem = Own /\ held = {} /\ mem[m].status = "absent"
     /\ mem' = [mem EXCEPT ![m] = [status |-> "candidate", key |-> gen[g].key]]

BadPublishesArtifact(g, m, a) ==
  \/ gen[g].art = a /\ UNCHANGED art
  \/ /\ gen[g].art = Own /\ art[a].status = "absent"
     /\ art' = [art EXCEPT ![a] = [status |-> "needs_review", cand |-> m,
                                   key |-> gen[g].key, redacted |-> FALSE]]
\* The artifact under its digest, in the same three ways.
PublishesArtifact(g, m, a) ==
  LET held == WithArtKey(gen[g].key) IN
  \/ gen[g].art = a /\ UNCHANGED art
  \/ gen[g].art = Own /\ a \in held /\ UNCHANGED art
  \/ /\ gen[g].art = Own /\ held = {} /\ art[a].status = "absent"
     /\ art' = [art EXCEPT ![a] = [status |-> "needs_review", cand |-> m,
                                   key |-> gen[g].key, redacted |-> FALSE]]

\* The writes and the creation event, in one transaction.
Publish(g) ==
  /\ gen[g].step = "stored"
  /\ \E m \in Memories, a \in Artifacts :
       /\ PublishesMemory(g, m) /\ PublishesArtifact(g, m, a)
       /\ created' = created \cup {[art |-> a, mem |-> m, plain |-> TRUE]}
  /\ gen' = [gen EXCEPT ![g] = Idle]
  /\ UNCHANGED <<project, evidence, decided, scanned, redacted>>

\* The call fails or its process dies; nothing of it is stored.
Drop(g) ==
  /\ gen[g].step # "idle"
  /\ gen' = [gen EXCEPT ![g] = Idle]
  /\ UNCHANGED <<project, evidence, mem, art, created, decided, scanned, redacted>>

\* A candidate that waits for its review, with its memory.
Pending(a) == /\ art[a].status = "needs_review"
              /\ mem[art[a].cand].status = "candidate"

Decision(a, verdict) ==
  [art |-> a, mem |-> art[a].cand, verdict |-> verdict, plain |-> TRUE]

\* accept, with the suggested state, or edit, with the reviewer's.
Accept(a, text) ==
  /\ Pending(a)
  /\ project' = text
  /\ mem' = [mem EXCEPT ![art[a].cand].status = "active"]
  /\ art' = [art EXCEPT ![a].status = "accepted"]
  /\ decided' = decided \cup {Decision(a, "accepted")}
  /\ UNCHANGED <<evidence, created, gen, scanned, redacted>>

Reject(a) ==
  /\ Pending(a)
  /\ mem' = [mem EXCEPT ![art[a].cand].status = "rejected"]
  /\ art' = [art EXCEPT ![a].status = "rejected"]
  /\ decided' = decided \cup {Decision(a, "rejected")}
  /\ UNCHANGED <<project, evidence, created, gen, scanned, redacted>>

\* Only the project review may touch a candidate (is_pending_project_update_memory).
\* No other path changes a row that is retired, but for the sweep's.
BadDecided(m) ==                       \* the generic review takes candidates too
  mem[m].status \in {"candidate", "active", "stale", "private_only"}
Decided(m) == mem[m].status \in {"active", "stale", "private_only"}

\* After its decision a live memory may be approved or corrected, kept private,
\* rejected by a review, or forgotten, undone, replaced or merged.
Change(m, status) ==
  /\ Decided(m)
  /\ mem' = [mem EXCEPT ![m].status = status]
  /\ UNCHANGED <<project, evidence, art, created, decided, gen, scanned, redacted>>

\* A staleness sweep reads the rows that are active ...
Scan(m) ==
  /\ mem[m].status = "active"
  /\ scanned' = scanned \cup {m}
  /\ UNCHANGED <<project, evidence, mem, art, created, decided, gen, redacted>>

\* ... and marks them in a later transaction, whatever has become of them, unless
\* they are deleted.  Sweeps may overlap: another one may have read m as well.
Mark(m) ==
  /\ m \in scanned /\ mem[m].status # "archived"
  /\ mem' = [mem EXCEPT ![m].status = "stale"]
  /\ UNCHANGED <<project, evidence, art, created, decided, gen, scanned, redacted>>

\* redact_memory_bundle: the memory and every artifact coupled with it, all of
\* them decided, lose their text and their digests, and their events are
\* rewritten.
Redact(m) ==
  LET coupled == {a \in Artifacts : art[a].cand = m}
      Scrub(e) == IF e.art \in coupled \/ e.mem = m
                  THEN [e EXCEPT !.plain = FALSE] ELSE e
  IN /\ redacted < Redactions
     /\ mem[m].status \notin {"absent", "candidate"}
     /\ \A a \in coupled : art[a].status \in {"accepted", "rejected"}
     /\ redacted' = redacted + 1
     /\ mem' = [mem EXCEPT ![m] = [status |-> "archived", key |-> None]]
     /\ art' = [a \in Artifacts |-> IF a \in coupled
                  THEN [art[a] EXCEPT !.key = None, !.redacted = TRUE]
                  ELSE art[a]]
     /\ created' = {Scrub(e) : e \in created}
     /\ decided' = {Scrub(e) : e \in decided}
     /\ UNCHANGED <<project, evidence, gen, scanned>>

Next ==
  \/ \E e \in States : Observe(e)
  \/ \E g \in Generators :
       Read(g) \/ Remember(g) \/ Store(g) \/ Publish(g) \/ Drop(g)
  \/ \E a \in Artifacts, text \in States : Accept(a, text)
  \/ \E a \in Artifacts : Reject(a)
  \/ \E m \in Memories,
        status \in {"active", "private_only", "rejected", "superseded"} : Change(m, status)
  \/ \E m \in Memories : Scan(m) \/ Mark(m)
  \/ \E m \in Memories : Redact(m)

Spec == Init /\ [][Next]_vars

-----------------------------------------------------------------------------
\* Type invariant: rows, events and generators have their values; a generator
\* knows its digest from its first read on.
TypeOK ==
  /\ project \in States /\ evidence \in States
  /\ mem \in [Memories -> [status : {"absent", "candidate", "active", "rejected",
                                     "superseded", "archived", "private_only",
                                     "stale"},
                           key : Digests \cup {None}]]
  /\ art \in [Artifacts -> [status : {"absent", "needs_review", "accepted",
                                      "rejected"},
                            key : Digests \cup {None},
                            cand : Memories \cup {None}, redacted : BOOLEAN]]
  /\ created \subseteq [art : Artifacts, mem : Memories, plain : BOOLEAN]
  /\ decided \subseteq [art : Artifacts, mem : Memories, plain : BOOLEAN,
                        verdict : {"accepted", "rejected"}]
  /\ gen \in [Generators ->
       {Idle} \cup [step : {"read", "remembered", "stored"}, key : Digests,
                    mem : Memories \cup {None, Own},
                    art : Artifacts \cup {None, Own}]]
  /\ scanned \subseteq Memories
  /\ redacted \in 0..Redactions

\* Generators with the same inputs, at whatever moments they look and store,
\* leave one memory and one artifact under the digest.
OneCandidatePerInputs ==
  /\ \A a, b \in Artifacts : a # b /\ art[a].key # None => art[a].key # art[b].key
  /\ \A m, n \in Memories : m # n /\ mem[m].key # None => mem[m].key # mem[n].key

Agreed(a) ==
  LET now == mem[art[a].cand].status IN
  /\ art[a].status = "needs_review" => now = "candidate"
  /\ art[a].status = "accepted" => now \notin {"absent", "candidate"}
  /\ art[a].status = "rejected" => now = "rejected"

\* Until something is redacted, a candidate can be decided as long as it is
\* listed for review: its memory is its own and no path but the review changes
\* it.  An accepted memory has left the candidates for good, whatever later
\* reviews and sweeps make of it; a rejected one never comes into use, not even
\* by a sweep that brings back rows retired since it read them.
OutcomesAgree ==
  redacted = 0 => \A a \in Artifacts :
    /\ \A b \in Artifacts : a # b /\ art[a].cand # None => art[a].cand # art[b].cand
    /\ Agreed(a)

\* _validate_terminal_project_update on the events that name a or its memory.
Proved(a) ==
  LET cand == art[a].cand
      births == {e \in created : e.art = a \/ e.mem = cand}
      decisions == {e \in decided : e.art = a \/ e.mem = cand}
  IN /\ {e.art : e \in births} = {a}
     /\ \A e \in births : e.mem = cand /\ e.plain = ~art[a].redacted
     /\ \E e \in decisions : decisions = {e} /\ e.verdict = art[a].status
                             /\ e.plain = ~art[a].redacted

\* Until something is redacted, the stored evidence proves every decision: a
\* repeated review is answered with the artifact and never with a consistency
\* error, although late generators keep adding creation events and the memory
\* lives on.
EvidenceProves ==
  redacted = 0 =>
    \A a \in Artifacts : art[a].status \in {"accepted", "rejected"} => Proved(a)

-----------------------------------------------------------------------------
(* The inductive invariant of the proofs.                                  *)

\* Rows that are absent are empty; an artifact names its memory; a sweep has read
\* only rows that are there.
RowsOK ==
  /\ \A m \in scanned : mem[m].status # "absent"
  /\ \A a \in Artifacts : art[a] = NoArtifact \/ art[a].cand \in Memories
  /\ \A m \in Memories : mem[m].status = "absent" => mem[m] = NoMemory
  /\ \A a \in Artifacts : art[a].status = "absent" => art[a] = NoArtifact

\* Memories and artifacts come in pairs, each under one digest.
PairsOK ==
  /\ \A a \in Artifacts : art[a].status # "absent" =>
       art[a].key # None /\ ~art[a].redacted /\ mem[art[a].cand].key = art[a].key
  /\ \A m \in Memories : mem[m].status # "absent" =>
       \E a \in Artifacts : art[a].status # "absent" /\ art[a].cand = m

\* What a generator has found has its digest.
FoundOK ==
  \A g \in Generators :
    /\ gen[g].mem \in Memories =>
         gen[g].key # None /\ mem[gen[g].mem].key = gen[g].key
    /\ gen[g].art \in Artifacts =>
         gen[g].key # None /\ art[gen[g].art].key = gen[g].key

\* Events name pairs, and every artifact and every decision has its event.
EventsOK ==
  /\ \A e \in created : e.plain /\ art[e.art].cand = e.mem
  /\ \A e \in decided :
       e.plain /\ art[e.art].cand = e.mem /\ art[e.art].status = e.verdict
  /\ \A a \in Artifacts : art[a].status # "absent" =>
       [art |-> a, mem |-> art[a].cand, plain |-> TRUE] \in created
  /\ \A a \in Artifacts : art[a].status \in {"accepted", "rejected"} =>
       Decision(a, art[a].status) \in decided

\* What a sweep has read was accepted.
SweepsOK ==
  \A a \in Artifacts : art[a].cand \in scanned => art[a].status = "accepted"

IndInv ==
  /\ TypeOK /\ RowsOK /\ OneCandidatePerInputs /\ OutcomesAgree
  /\ redacted = 0 => PairsOK /\ FoundOK /\ EventsOK /\ SweepsOK
=============================================================================

--------------------------- MODULE MemoryLifecycle ---------------------------
(***************************************************************************)
(* The life of a memory row: committed, confirmed, reviewed, corrected,    *)
(* retired, merged with others, expired and swept.                         *)
(*                                                                         *)
(* Every service call that changes a row takes the user's lifecycle lock   *)
(* first, then the row locks of every row it writes, and runs in one       *)
(* transaction; a commit adds a row and takes no lock.  Each is one        *)
(* action.  Two writers stand outside that lock and are two actions each,  *)
(* a read and, after work with no transaction open, a write: the staleness *)
(* sweep and the generation of merge candidates, both staged by the        *)
(* scheduler.                                                              *)
(*                                                                         *)
(* rev stands for the row's updated_at and content digest: it changes with *)
(* every update of the row, and a candidate is compared by it with what    *)
(* its reviewer saw.                                                       *)
(*                                                                         *)
(* Definitions whose name starts with Bad are faulty variants, used by no  *)
(* specification.                                                          *)
(***************************************************************************)
EXTENDS Naturals, FiniteSets, FiniteSetsExt

CONSTANTS
  Memories,   \* memory ids
  Sweeps,     \* runs of the staleness sweep that may be under way
  None,       \* SQL NULL
  MaxWrites,  \* bound on the insertions and updates of all rows together
  MarkLimit   \* staleness_memory_limit: rows one sweep may mark

\* vnext_lifecycle's partition of the row statuses.
Retired    == {"superseded", "rejected", "archived"}
Live       == {"candidate", "active", "accepted", "needs_review",
               "private_only", "stale"}
\* What a supersession may name as the new head of a chain.
Successors == {"active", "accepted", "private_only"}
\* What a merge candidate may be accepted from.
Pending    == {"candidate", "needs_review"}
\* The inline confirmation carried by a row.
Answers    == {"none", "pending", "confirmed", "rejected", "expired",
               "superseded"}
\* What became of a row's merge proposal; "none": the row is no candidate.
Verdicts   == {"none", "open", "accepted", "invalidated"}

ASSUME BoundsAreNaturals == MaxWrites \in Nat /\ MarkLimit \in Nat
ASSUME NullIsNoValue == None \notin Memories \cup Answers

VARIABLES
  mem,    \* the memories table
  merge,  \* metadata_json.consolidation, by row
  draft,  \* a generated candidate that is not published yet
  sweep,  \* by sweep: the confirmations it read, None for rows it leaves alone
  swept   \* rows that a sweep brought back from retirement, for the properties

vars == <<mem, merge, draft, sweep, swept>>

NoRow   == [status |-> "absent", conf |-> "none", ends |-> FALSE, rev |-> 0,
            by |-> None, sup |-> None]
NoMerge == [members |-> {}, survivor |-> None,
            seen |-> [m \in Memories |-> 0], state |-> "none"]
NoPlan  == [m \in Memories |-> None]

Init ==
  /\ mem = [m \in Memories |-> NoRow]
  /\ merge = [m \in Memories |-> NoMerge]
  /\ draft = NoMerge
  /\ sweep = [s \in Sweeps |-> NoPlan]
  /\ swept = {}

\* The bound: the rows of S may be written once more.
Writes(m) == IF mem[m].status = "absent" THEN 0 ELSE mem[m].rev + 1
Room(S) == MapThenSumSet(Writes, Memories) + Cardinality(S) <= MaxWrites

BadIsLive(m) == mem[m].status # "absent"
IsLive(m) == mem[m].status \in Live

\* is_pending_consolidation_candidate
AwaitsMerge(m) == merge[m].state \in {"open", "invalidated"}

\* A pending confirmation is closed by the decision on its row.
Answered(conf, answer) == IF conf = "pending" THEN answer ELSE conf

\* Following superseded_by from x leads to y: every set that holds x and, with
\* a row, the row it points at, holds y.
Leads(x, y) ==
  \A S \in SUBSET Memories :
    x \in S /\ (\A m \in S : mem[m].by \in Memories => mem[m].by \in S) => y \in S

\* The pending candidates that were derived from a row of S.
Derived(S) ==
  {c \in Memories : /\ mem[c].status \in Pending
                    /\ merge[c].state # "accepted"
                    /\ merge[c].members \cap S # {}}

Outdated(r) == [r EXCEPT !.status = "stale", !.rev = @ + 1]

Invalidate(S) ==
  [c \in Memories |-> IF c \in S THEN [merge[c] EXCEPT !.state = "invalidated"]
                                 ELSE merge[c]]

BadReplaced(c) == {m \in merge[c].members : mem[m].by = None} \ {merge[c].survivor}

\* The members an acceptance supersedes; those that were superseded are skipped.
Replaced(c) ==
  {m \in merge[c].members : mem[m].status # "superseded" /\ mem[m].by = None}

Superseded(r, s) ==
  [r EXCEPT !.status = "superseded", !.rev = @ + 1, !.by = s, !.ends = TRUE]

-----------------------------------------------------------------------------
(* Commits: a new row, in the state the write policy gives it.             *)

New(m, status, conf) ==
  /\ mem[m].status = "absent"
  /\ Room({m})
  /\ mem' = [mem EXCEPT ![m] = [NoRow EXCEPT !.status = status, !.conf = conf]]
  /\ UNCHANGED <<merge, draft, sweep, swept>>

Commit(m)        == New(m, "active", "none")
AskToConfirm(m)  == New(m, "needs_review", "pending")
ProposeReview(m) == New(m, "candidate", "none")

-----------------------------------------------------------------------------
(* Inline confirmation.                                                    *)

Confirmable(m) == mem[m].conf = "pending" /\ mem[m].status = "needs_review"

Settle(m, status, answer) ==
  /\ Confirmable(m)
  /\ Room({m})
  /\ mem' = [mem EXCEPT ![m].status = status, ![m].conf = answer, ![m].rev = @ + 1]
  /\ UNCHANGED <<merge, draft, sweep, swept>>

Confirm(m)       == Settle(m, "active", "confirmed")
Refuse(m)        == Settle(m, "rejected", "rejected")
\* Any answer that comes after expires_at.
AnswerTooLate(m) == Settle(m, "rejected", "expired")

-----------------------------------------------------------------------------
(* Corrections and retirements.                                            *)

Correct(m) ==
  LET outdated == Derived({m}) IN
  /\ IsLive(m)
  /\ ~ AwaitsMerge(m)
  /\ Room({m} \cup outdated)
  /\ mem' = [x \in Memories |->
               IF x = m THEN [mem[m] EXCEPT !.status = "active", !.rev = @ + 1]
               ELSE IF x \in outdated THEN Outdated(mem[x]) ELSE mem[x]]
  /\ merge' = Invalidate(outdated)
  /\ UNCHANGED <<draft, sweep, swept>>

\* forget, and undo without a successor.
Forget(m) ==
  LET outdated == Derived({m}) IN
  /\ IsLive(m)
  /\ Room({m} \cup outdated)
  /\ mem' = [x \in Memories |->
               IF x = m THEN [mem[m] EXCEPT !.status = "superseded", !.rev = @ + 1]
               ELSE IF x \in outdated THEN Outdated(mem[x]) ELSE mem[x]]
  /\ merge' = Invalidate(outdated)
  /\ UNCHANGED <<draft, sweep, swept>>

BadMaySucceed(s, m) == s # m /\ mem[s].status \in Successors

\* require_valid_supersession_successor and _guard_supersession_acyclic
MaySucceed(s, m) == s # m /\ mem[s].status \in Successors /\ ~ Leads(s, m)
Undo(m, s) ==
  LET outdated == Derived({m}) IN
  /\ IsLive(m)
  /\ MaySucceed(s, m)
  /\ Room({m, s} \cup outdated)
  /\ mem' = [x \in Memories |->
               IF x = m THEN Superseded(mem[m], s)
               ELSE IF x = s THEN [mem[s] EXCEPT !.sup = m, !.rev = @ + 1]
               ELSE IF x \in outdated THEN Outdated(mem[x]) ELSE mem[x]]
  /\ merge' = Invalidate(outdated)
  /\ UNCHANGED <<draft, sweep, swept>>

-----------------------------------------------------------------------------
(* Merge candidates: read, generated, published, accepted.                 *)

\* A run reads the rows of a cluster; the candidate it stages names the
\* versions it read.  survivor is None for a text merged from all of them.
Cluster(members, survivor) ==
  /\ draft = NoMerge
  /\ Cardinality(members) > 1
  /\ \A m \in members : mem[m].status = "active"
  /\ survivor \in members \cup {None}
  /\ draft' = [members |-> members, survivor |-> survivor, state |-> "open",
               seen |-> [m \in Memories |-> IF m \in members THEN mem[m].rev ELSE 0]]
  /\ UNCHANGED <<mem, merge, sweep, swept>>

\* memory_key is the digest of the member versions and is unique.
SameCluster(c) == merge[c].members = draft.members /\ merge[c].seen = draft.seen

PublishDraft(c) ==
  /\ draft # NoMerge
  /\ mem[c].status = "absent"
  /\ \A x \in Memories : ~ SameCluster(x)
  /\ Room({c})
  /\ mem' = [mem EXCEPT ![c] = [NoRow EXCEPT !.status = "candidate"]]
  /\ merge' = [merge EXCEPT ![c] = draft]
  /\ draft' = NoMerge
  /\ UNCHANGED <<sweep, swept>>

\* The run failed, lost its claim or met a key that is taken.
DropDraft ==
  /\ draft # NoMerge
  /\ draft' = NoMerge
  /\ UNCHANGED <<mem, merge, sweep, swept>>

\* memory_matches_snapshot, for every member.
AsReviewed(c) == \A m \in merge[c].members : mem[m].rev = merge[c].seen[m]

\* accept_consolidation_candidate: the members are superseded by the candidate
\* and the candidate becomes active.
Accept(c) ==
  LET replaced == Replaced(c)
      outdated == Derived(replaced) \ {c}
  IN
  /\ AwaitsMerge(c)
  /\ mem[c].status \in Pending
  /\ AsReviewed(c)
  /\ \A m \in replaced : IsLive(m) /\ ~ Leads(c, m)
  /\ Room({c} \cup replaced \cup outdated)
  /\ mem' = [x \in Memories |->
               IF x = c THEN [mem[c] EXCEPT !.status = "active", !.rev = @ + 1,
                                !.sup = IF merge[c].survivor = None THEN @
                                        ELSE merge[c].survivor]
               ELSE IF x \in replaced THEN Superseded(mem[x], c)
               ELSE IF x \in outdated THEN Outdated(mem[x]) ELSE mem[x]]
  /\ merge' = [Invalidate(outdated) EXCEPT ![c].state = "accepted"]
  /\ UNCHANGED <<draft, sweep, swept>>

-----------------------------------------------------------------------------
(* The validity window.                                                    *)

Expire(m) ==
  /\ IsLive(m)
  /\ Room({m})
  /\ mem' = [mem EXCEPT ![m].ends = TRUE, ![m].rev = @ + 1]
  /\ UNCHANGED <<merge, draft, sweep, swept>>

BadUnexpire(m) ==
  /\ mem[m].ends
  /\ Room({m})
  /\ mem' = [mem EXCEPT ![m].ends = FALSE, ![m].rev = @ + 1, ![m].status = "active"]
  /\ UNCHANGED <<merge, draft, sweep, swept>>

\* A stale row becomes active again; a row with an open window is left alone.
Unexpire(m) ==
  /\ IsLive(m)
  /\ mem[m].ends
  /\ Room({m})
  /\ mem' = [mem EXCEPT ![m].ends = FALSE, ![m].rev = @ + 1,
                        ![m].status = IF @ = "stale" THEN "active" ELSE @]
  /\ UNCHANGED <<merge, draft, sweep, swept>>

-----------------------------------------------------------------------------
(* Review, over HTTP and over MCP.                                         *)

BadReviewed(m, status, answer) ==
  /\ mem[m].status # "absent"
  /\ Room({m})
  /\ mem' = [mem EXCEPT ![m].status = status, ![m].conf = Answered(@, answer),
                        ![m].rev = @ + 1]
  /\ UNCHANGED <<merge, draft, sweep, swept>>

Reviewed(m, status, answer) ==
  /\ IsLive(m)
  /\ Room({m})
  /\ mem' = [mem EXCEPT ![m].status = status, ![m].conf = Answered(@, answer),
                        ![m].rev = @ + 1]
  /\ UNCHANGED <<merge, draft, sweep, swept>>

\* accept, promote, edit; confirm and edit over MCP
Approve(m) == ~ AwaitsMerge(m) /\ Reviewed(m, "active", "confirmed")
Reject(m)  == Reviewed(m, "rejected", "rejected")
\* private, and assign_project, which leaves the status alone
MakePrivate(m) == Reviewed(m, "private_only", "pending")
Assign(m)      == ~ AwaitsMerge(m) /\ Reviewed(m, mem[m].status, "pending")

\* supersede-existing over MCP: n is a new row that copies m's metadata.
Replace(m, n) ==
  /\ IsLive(m)
  /\ ~ AwaitsMerge(m)
  /\ mem[n].status = "absent"
  /\ Room({m, n})
  /\ mem' = [mem EXCEPT
       ![n] = [NoRow EXCEPT !.status = "active", !.sup = m,
                            !.conf = Answered(mem[m].conf, "confirmed")],
       ![m] = [mem[m] EXCEPT !.status = "superseded", !.by = n, !.rev = @ + 1,
                             !.conf = Answered(@, "superseded")]]
  /\ merge' = [merge EXCEPT ![n] = merge[m]]
  /\ UNCHANGED <<draft, sweep, swept>>

-----------------------------------------------------------------------------
(* The staleness sweep: a staged workflow of the scheduler.                *)

\* It reads active rows and stages, for each, a new status and the metadata
\* it read with a note added.
Scan(s, S) ==
  /\ sweep[s] = NoPlan
  /\ S # {} /\ Cardinality(S) <= MarkLimit
  /\ \A m \in S : mem[m].status = "active"
  /\ sweep' = [sweep EXCEPT ![s] =
                 [m \in Memories |-> IF m \in S THEN mem[m].conf ELSE None]]
  /\ UNCHANGED <<mem, merge, draft, swept>>

\* The rows a published sweep writes.
Marked(s) == {m \in Memories : sweep[s][m] # None}

\* publish: update_memory by id, whatever the row has become.
Mark(s) ==
  /\ sweep[s] # NoPlan
  /\ Room(Marked(s))
  /\ mem' = [m \in Memories |->
               IF m \in Marked(s)
               THEN [mem[m] EXCEPT !.status = "stale", !.conf = sweep[s][m],
                                   !.rev = @ + 1]
               ELSE mem[m]]
  /\ sweep' = [sweep EXCEPT ![s] = NoPlan]
  /\ swept' = swept \cup {m \in Marked(s) : mem[m].status \in Retired}
  /\ UNCHANGED <<merge, draft>>

DropSweep(s) ==
  /\ sweep[s] # NoPlan
  /\ sweep' = [sweep EXCEPT ![s] = NoPlan]
  /\ UNCHANGED <<mem, merge, draft, swept>>

-----------------------------------------------------------------------------
Request ==
  \/ \E m \in Memories :
       \/ Commit(m) \/ AskToConfirm(m) \/ ProposeReview(m)
       \/ Confirm(m) \/ Refuse(m) \/ AnswerTooLate(m)
       \/ Correct(m) \/ Forget(m) \/ Accept(m)
       \/ Expire(m) \/ Unexpire(m)
       \/ Approve(m) \/ Reject(m) \/ MakePrivate(m) \/ Assign(m)
  \/ \E m, n \in Memories : Undo(m, n) \/ Replace(m, n)

Generation ==
  \/ \E S \in SUBSET Memories, x \in Memories \cup {None} : Cluster(S, x)
  \/ \E c \in Memories : PublishDraft(c)
  \/ DropDraft

Staleness == \E s \in Sweeps :
  \/ \E S \in SUBSET Memories : Scan(s, S)
  \/ Mark(s) \/ DropSweep(s)

Next == Request \/ Generation \/ Staleness

Spec == Init /\ [][Next]_vars

-----------------------------------------------------------------------------
(* Properties.                                                             *)

MemoryRow == [status : Live \cup Retired \cup {"absent"}, conf : Answers,
              ends : BOOLEAN, rev : Nat,
              by : Memories \cup {None}, sup : Memories \cup {None}]
MergeRecord == [members : SUBSET Memories, survivor : Memories \cup {None},
                seen : [Memories -> Nat], state : Verdicts]

\* The tables hold rows of their types.
TypeOK ==
  /\ mem \in [Memories -> MemoryRow]
  /\ merge \in [Memories -> MergeRecord]
  /\ draft \in MergeRecord
  /\ sweep \in [Sweeps -> [Memories -> Answers \cup {None}]]
  /\ swept \subseteq Memories

\* Supersession has no cycle: every set of rows has one whose successor is not
\* in it.  The walk in supersession_would_cycle is there for this, also when a
\* sweep brings back a row that already has a successor.
Acyclic ==
  \A S \in SUBSET Memories : S # {} => \E m \in S : mem[m].by \notin S

\* Retirement is terminal: no sequence of calls brings a retired row back, or
\* changes what replaced it.
RetirementIsFinal ==
  [][\A m \in Memories :
       mem[m].status \in Retired =>
         mem'[m].status = mem[m].status /\ mem'[m].by = mem[m].by]_vars

\* The same, but for the rows a sweep brings back by writing over them.
RetiredStay ==
  \A m \in Memories \ swept' :
    mem[m].status \in Retired =>
      mem'[m].status = mem[m].status /\ mem'[m].by = mem[m].by
OnlySweepsRevive == [][RetiredStay]_vars

\* A row with a successor is out of use; a row in use is the head of its chain.
SuccessorsReplace ==
  \A m \in Memories \ swept : mem[m].by # None => mem[m].status = "superseded"

\* The two pointers agree: a row that says what it replaced is what that row
\* says it was replaced by, through undo, review and merges in any order.
PointersAgree ==
  \A s \in Memories, m \in Memories \ swept : mem[s].sup = m => mem[m].by = s

\* An accepted merge and a row it was made from are never both in use.
MergedRowsRetired ==
  \A c \in Memories : merge[c].state = "accepted" =>
    \A m \in merge[c].members \ swept : mem[m].status \in Retired

\* What was refused, or not confirmed in time, is never in use afterwards.
RefusedStaysOut ==
  \A m \in Memories :
    mem[m].conf \in {"rejected", "expired"} => mem[m].status \in Retired

-----------------------------------------------------------------------------
(* The inductive invariant of the proofs.                                  *)

RowsOK == \A m \in Memories : mem[m].status = "absent" => mem[m] = NoRow

\* A sweep has read rows that existed and whose confirmation was not refused.
PlansOK ==
  \A s \in Sweeps, m \in Memories : sweep[s][m] # None =>
    mem[m].status # "absent" /\ sweep[s][m] \notin {"rejected", "expired"}

\* The members a merge was made from existed; one that still is as it was seen
\* is active.
SeenOK(r) ==
  /\ r.survivor \in r.members \cup {None}
  /\ \A m \in r.members :
       /\ mem[m].status # "absent" /\ r.seen[m] <= mem[m].rev
       /\ r.seen[m] = mem[m].rev => mem[m].status = "active"
MergesOK ==
  /\ draft # NoMerge => draft.state = "open" /\ SeenOK(draft)
  /\ \A c \in Memories : AwaitsMerge(c) => SeenOK(merge[c])
  /\ \A c \in Memories : merge[c].state = "none" => merge[c].members = {}

IndInv ==
  /\ TypeOK /\ RowsOK /\ PlansOK /\ MergesOK
  /\ Acyclic /\ SuccessorsReplace /\ PointersAgree
  /\ MergedRowsRetired /\ RefusedStaysOut

=============================================================================

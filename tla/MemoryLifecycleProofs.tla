------------------------ MODULE MemoryLifecycleProofs ------------------------
(***************************************************************************)
(* Theorems about MemoryLifecycle: supersession has no cycle, pointers     *)
(* agree, merged and refused rows stay out of use, and only a sweep brings *)
(* a retired row back.                                                     *)
(*                                                                         *)
(* RowSteps collects what every action does to the rows; all but the       *)
(* pointers and the merges follow from it.  Undo, acceptance and           *)
(* replacement move pointers and are treated one by one; what keeps them   *)
(* from closing a cycle is in NoCycleThrough.                              *)
(***************************************************************************)
EXTENDS MemoryRefinement, TLAPS

LEMMA StatusNames ==
  /\ Retired \subseteq Live \cup Retired \cup {"absent"}
  /\ \A s \in Retired : s \notin Live /\ s # "absent"
  /\ \A s \in Live : s \notin Retired /\ s # "absent" /\ s # "superseded"
  /\ "superseded" \in Retired /\ "rejected" \in Retired
  /\ "active" \in Live /\ "needs_review" \in Live /\ "candidate" \in Live
  /\ "private_only" \in Live /\ "stale" \in Live
  /\ Pending \subseteq Live /\ "active" \notin Pending /\ Successors \subseteq Live
  BY DEF Retired, Live, Pending, Successors

LEMMA RowFields ==
  ASSUME NEW r \in MemoryRow
  PROVE  /\ r.rev \in Nat /\ r.rev + 1 \in Nat /\ r.conf \in Answers
         /\ r.status \in Live \cup Retired \cup {"absent"} /\ r.ends \in BOOLEAN
         /\ r.by \in Memories \cup {None} /\ r.sup \in Memories \cup {None}
  BY DEF MemoryRow

LEMMA NoRowTyped ==
  /\ NoRow \in MemoryRow /\ NoRow.status = "absent" /\ NoRow.rev = 0
  /\ NoRow.by = None /\ NoRow.sup = None /\ NoRow.conf = "none" /\ ~NoRow.ends
  BY DEF NoRow, MemoryRow, Answers

LEMMA NoMergeTyped ==
  /\ NoMerge \in MergeRecord /\ NoMerge.members = {} /\ NoMerge.state = "none"
  BY DEF NoMerge, MergeRecord, Verdicts

LEMMA InitIsInductive == Init => IndInv
<1> SUFFICES ASSUME Init PROVE IndInv
  OBVIOUS
<1>1. /\ mem = [m \in Memories |-> NoRow] /\ merge = [m \in Memories |-> NoMerge]
      /\ draft = NoMerge /\ sweep = [s \in Sweeps |-> NoPlan] /\ swept = {}
  BY DEF Init
<1>2. TypeOK
  BY <1>1, NoRowTyped, NoMergeTyped DEF TypeOK, NoPlan
<1>3. RowsOK /\ PlansOK /\ MergesOK
  BY <1>1, NoMergeTyped DEF RowsOK, PlansOK, MergesOK, NoPlan, AwaitsMerge
<1>4. Acyclic
  BY <1>1, NoRowTyped, NullIsNoValue DEF Acyclic
<1>5. SuccessorsReplace /\ PointersAgree /\ MergedRowsRetired /\ RefusedStaysOut
  BY <1>1, NoRowTyped, NoMergeTyped, NullIsNoValue
  DEF SuccessorsReplace, PointersAgree, MergedRowsRetired, RefusedStaysOut
<1> QED  BY <1>2, <1>3, <1>4, <1>5 DEF IndInv

-----------------------------------------------------------------------------
(* What a step may do to a row: nothing, create it, or update one that is  *)
(* in use, or that a sweep brings back.                                    *)

Refused == {"rejected", "expired"}

Born(x) ==
  /\ mem[x].status = "absent" /\ mem'[x].status \in Live /\ mem'[x].rev = 0
  /\ mem'[x].by = None /\ mem'[x].conf \notin Refused
Changed(x) ==
  /\ mem[x].status # "absent"
  /\ mem[x].status \in Live \/ x \in swept'
  /\ mem'[x].status # "absent"
  /\ mem'[x].rev = mem[x].rev + 1
  /\ mem'[x].by = mem[x].by \/ mem'[x].status = "superseded"
  /\ mem'[x].conf \in Refused => mem'[x].status \in Retired
RowSteps ==
  /\ mem' \in [Memories -> MemoryRow]
  /\ swept \subseteq swept' /\ swept' \subseteq Memories
  /\ \A x \in Memories : mem'[x] = mem[x] \/ Born(x) \/ Changed(x)

LEMMA RowsKept ==
  ASSUME IndInv, RowSteps
  PROVE  /\ RowsOK' /\ SuccessorsReplace' /\ RefusedStaysOut' /\ RetiredStay
         /\ \A x \in Memories : mem[x].status # "absent" => mem'[x].status # "absent"
<1>1. RowsOK'
  BY StatusNames DEF IndInv, RowsOK, RowSteps, Born, Changed
<1>2. SuccessorsReplace'
  BY StatusNames DEF IndInv, SuccessorsReplace, RowSteps, Born, Changed
<1>3. RefusedStaysOut'
  BY DEF IndInv, RefusedStaysOut, RowSteps, Born, Changed, Refused
<1>4. RetiredStay
  BY StatusNames DEF RetiredStay, RowSteps, Born, Changed
<1>5. \A x \in Memories : mem[x].status # "absent" => mem'[x].status # "absent"
  BY DEF RowSteps, Born, Changed
<1> QED  BY <1>1, <1>2, <1>3, <1>4, <1>5

\* SeenOK of a record that stays as it is.
LEMMA SeenKept ==
  ASSUME IndInv, RowSteps, NEW r \in MergeRecord, SeenOK(r)
  PROVE  \A m \in r.members :
           /\ mem'[m].status # "absent" /\ r.seen[m] <= mem'[m].rev
           /\ r.seen[m] = mem'[m].rev => mem'[m].status = "active"
<1> SUFFICES ASSUME NEW m \in r.members
             PROVE  /\ mem'[m].status # "absent" /\ r.seen[m] <= mem'[m].rev
                    /\ r.seen[m] = mem'[m].rev => mem'[m].status = "active"
  OBVIOUS
<1>1. m \in Memories /\ r.seen[m] \in Nat
  BY DEF MergeRecord
<1>2. mem[m] \in MemoryRow /\ mem[m].rev \in Nat
  BY <1>1 DEF IndInv, TypeOK, MemoryRow
<1>3. /\ mem[m].status # "absent" /\ r.seen[m] <= mem[m].rev
      /\ r.seen[m] = mem[m].rev => mem[m].status = "active"
  BY DEF SeenOK
<1>4. mem'[m] = mem[m] \/ Changed(m)
  BY <1>1, <1>3 DEF RowSteps, Born
<1>5. mem'[m].status # "absent"
  BY <1>3, <1>4 DEF Changed
<1> QED  BY <1>1, <1>2, <1>3, <1>4, <1>5 DEF Changed

\* The merges: a record stays, or a waiting one is invalidated.
KeptOrInvalidated(c, r) ==
  \/ r = merge[c]
  \/ /\ AwaitsMerge(c) /\ r.state = "invalidated" /\ r.members = merge[c].members
     /\ r.seen = merge[c].seen /\ r.survivor = merge[c].survivor
MergeSteps ==
  /\ merge' \in [Memories -> MergeRecord]
  /\ \A c \in Memories : KeptOrInvalidated(c, merge'[c])

\* What MergesOK and MergedRowsRetired say of c.
MergeOK(c) ==
  /\ AwaitsMerge(c) => SeenOK(merge[c])
  /\ merge[c].state = "none" => merge[c].members = {}
  /\ merge[c].state = "accepted" =>
       \A m \in merge[c].members \ swept : mem[m].status \in Retired

LEMMA MergesOfAll ==
  ASSUME \A c \in Memories : MergeOK(c)',
         draft' # NoMerge => draft'.state = "open" /\ SeenOK(draft)'
  PROVE  MergesOK' /\ MergedRowsRetired'
  BY DEF MergeOK, MergesOK, MergedRowsRetired

LEMMA DraftKept ==
  ASSUME IndInv, RowSteps, draft # NoMerge
  PROVE  /\ draft \in MergeRecord /\ draft.state = "open"
         /\ draft.survivor \in draft.members \cup {None}
         /\ \A m \in draft.members :
              /\ mem'[m].status # "absent" /\ draft.seen[m] <= mem'[m].rev
              /\ draft.seen[m] = mem'[m].rev => mem'[m].status = "active"
<1>1. draft.state = "open" /\ SeenOK(draft) /\ draft \in MergeRecord
  BY DEF IndInv, MergesOK, TypeOK
<1> QED  BY <1>1, SeenKept DEF SeenOK

\* The rows an accepted merge was made from stay retired.
LEMMA MergedStayRetired ==
  ASSUME IndInv, RowSteps, NEW c \in Memories, merge[c].state = "accepted"
  PROVE  \A m \in merge[c].members \ swept' : mem'[m].status \in Retired
<1> SUFFICES ASSUME NEW m \in merge[c].members \ swept' PROVE mem'[m].status \in Retired
  OBVIOUS
<1>1. m \in Memories /\ m \notin swept
  BY DEF IndInv, TypeOK, MergeRecord, RowSteps
<1>2. mem[m].status \in Retired
  BY <1>1 DEF IndInv, MergedRowsRetired
<1> QED  BY <1>1, <1>2, RowsKept DEF RetiredStay

LEMMA MergeKept ==
  ASSUME IndInv, RowSteps, NEW c \in Memories, KeptOrInvalidated(c, merge'[c])
  PROVE  MergeOK(c)'
<1>t. TypeOK /\ MergesOK /\ merge[c] \in MergeRecord
  BY DEF IndInv, TypeOK
<1>1. ASSUME AwaitsMerge(c)' PROVE SeenOK(merge[c])'
  <2>1. AwaitsMerge(c)
    BY <1>1 DEF AwaitsMerge, KeptOrInvalidated
  <2>2. SeenOK(merge[c])
    BY <1>t, <2>1 DEF MergesOK
  <2>3. /\ merge'[c].members = merge[c].members /\ merge'[c].seen = merge[c].seen
        /\ merge'[c].survivor = merge[c].survivor
    BY DEF KeptOrInvalidated
  <2> QED  BY <1>t, <2>2, <2>3, SeenKept DEF SeenOK
<1>2. merge'[c].state = "none" => merge'[c].members = {}
  BY <1>t DEF MergesOK, KeptOrInvalidated
<1>3. ASSUME merge'[c].state = "accepted"
      PROVE  \A m \in merge'[c].members \ swept' : mem'[m].status \in Retired
  <2>1. merge'[c] = merge[c]
    BY <1>3 DEF KeptOrInvalidated
  <2> QED  BY <1>3, <2>1, MergedStayRetired
<1> QED  BY <1>1, <1>2, <1>3 DEF MergeOK

LEMMA MergesKept ==
  ASSUME IndInv, RowSteps, MergeSteps, draft' = draft
  PROVE  MergesOK' /\ MergedRowsRetired'
<1>1. \A c \in Memories : MergeOK(c)'
  BY MergeKept DEF MergeSteps
<1>2. draft' # NoMerge => draft'.state = "open" /\ SeenOK(draft)'
  BY DraftKept DEF SeenOK
<1> QED  BY <1>1, <1>2, MergesOfAll

LEMMA Invalidations ==
  ASSUME IndInv, NEW S, NEW O \in SUBSET Derived(S)
  PROVE  /\ Invalidate(O) \in [Memories -> MergeRecord]
         /\ \A c \in Memories : KeptOrInvalidated(c, Invalidate(O)[c])
<1>1. \A c \in O : c \in Memories /\ AwaitsMerge(c)
  <2> SUFFICES ASSUME NEW c \in O PROVE c \in Memories /\ AwaitsMerge(c)
    OBVIOUS
  <2>1. c \in Memories /\ merge[c].state # "accepted" /\ merge[c].members # {}
    BY DEF Derived
  <2>2. merge[c].state \in Verdicts /\ merge[c].state # "none"
    BY <2>1 DEF IndInv, TypeOK, MergesOK, MergeRecord
  <2> QED  BY <2>1, <2>2 DEF Verdicts, AwaitsMerge
<1>2. \A c \in Memories : merge[c] \in MergeRecord
  BY DEF IndInv, TypeOK
<1>3. \A c \in Memories : [merge[c] EXCEPT !.state = "invalidated"] \in MergeRecord
  BY <1>2 DEF MergeRecord, Verdicts
<1>4. Invalidate(O) \in [Memories -> MergeRecord]
  BY <1>2, <1>3 DEF Invalidate
<1>5. ASSUME NEW c \in Memories PROVE KeptOrInvalidated(c, Invalidate(O)[c])
  <2>1. CASE c \notin O
    BY <2>1 DEF Invalidate, KeptOrInvalidated
  <2>2. CASE c \in O
    <3>1. Invalidate(O)[c] = [merge[c] EXCEPT !.state = "invalidated"]
      BY <2>2 DEF Invalidate
    <3>2. /\ [merge[c] EXCEPT !.state = "invalidated"].state = "invalidated"
          /\ [merge[c] EXCEPT !.state = "invalidated"].members = merge[c].members
          /\ [merge[c] EXCEPT !.state = "invalidated"].seen = merge[c].seen
          /\ [merge[c] EXCEPT !.state = "invalidated"].survivor = merge[c].survivor
      BY <1>2 DEF MergeRecord
    <3> QED  BY <1>1, <2>2, <3>1, <3>2 DEF KeptOrInvalidated
  <2> QED  BY <2>1, <2>2
<1> QED  BY <1>4, <1>5

LEMMA InvalidateIsMergeStep ==
  ASSUME IndInv, NEW S, NEW O \in SUBSET Derived(S), merge' = Invalidate(O)
  PROVE  MergeSteps
  BY Invalidations DEF MergeSteps

-----------------------------------------------------------------------------
(* Pointers.                                                               *)

PointersSame ==
  \A x \in Memories : /\ mem'[x].by = mem[x].by
                      /\ mem'[x].sup = mem[x].sup \/ mem'[x].sup = None

LEMMA PointersKept ==
  ASSUME IndInv, RowSteps, PointersSame
  PROVE  Acyclic' /\ PointersAgree'
<1>1. Acyclic'
  BY DEF IndInv, Acyclic, PointersSame
<1>2. PointersAgree'
  BY NullIsNoValue DEF IndInv, PointersAgree, PointersSame, RowSteps
<1> QED  BY <1>1, <1>2

\* New pointers, all to y, from rows that y does not lead to, close no cycle.
LEMMA NoCycleThrough ==
  ASSUME Acyclic, NEW y \in Memories, NEW From \in SUBSET Memories,
         \A m \in From : ~Leads(y, m),
         \A m \in From : mem'[m].by = y,
         \A m \in Memories \ From :
           mem'[m].by = mem[m].by \/ mem'[m].by \notin Memories
  PROVE  Acyclic'
<1> DEFINE Reach == {z \in Memories : Leads(y, z)}
<1>1. y \in Reach
  BY DEF Leads
<1>2. \A z \in Reach : mem[z].by \in Memories => mem[z].by \in Reach
  BY DEF Leads
<1>3. Reach \cap From = {}
  OBVIOUS
<1> HIDE DEF Reach
<1> SUFFICES ASSUME NEW S \in SUBSET Memories, S # {}, \A m \in S : mem'[m].by \in S
             PROVE  FALSE
  BY DEF Acyclic
<1>4. CASE S \cap From = {}
  <2>1. \A m \in S : mem[m].by \in S
    BY <1>4
  <2> QED  BY <2>1 DEF Acyclic
<1>5. CASE S \cap From # {}
  <2> DEFINE T == S \cap Reach
  <2>1. y \in S
    BY <1>5
  <2>2. T \in SUBSET Memories /\ T # {}
    BY <1>1, <2>1
  <2>3. \A m \in T : mem[m].by \in T
    BY <1>2, <1>3
  <2> HIDE DEF T
  <2> QED  BY <2>2, <2>3 DEF Acyclic
<1> QED  BY <1>4, <1>5

-----------------------------------------------------------------------------
(* Steps that move no pointer.                                             *)

LEMMA PlansKept ==
  ASSUME IndInv, RowSteps, \A s \in Sweeps : sweep'[s] = sweep[s] \/ sweep'[s] = NoPlan
  PROVE  PlansOK'
<1>1. \A x \in Memories : mem[x].status # "absent" => mem'[x].status # "absent"
  BY RowsKept
<1> QED  BY <1>1 DEF IndInv, PlansOK, NoPlan

LEMMA SimpleStep ==
  ASSUME IndInv, RowSteps, PointersSame, MergeSteps, UNCHANGED draft,
         sweep' \in [Sweeps -> [Memories -> Answers \cup {None}]],
         \A s \in Sweeps : sweep'[s] = sweep[s] \/ sweep'[s] = NoPlan
  PROVE  IndInv' /\ RetiredStay
<1>1. TypeOK'
  BY DEF IndInv, TypeOK, RowSteps, MergeSteps
<1> QED  BY <1>1, RowsKept, PlansKept, MergesKept, PointersKept DEF IndInv

\* One row is updated, or created.
LEMMA OneRowStep ==
  ASSUME IndInv, UNCHANGED <<merge, draft, sweep, swept>>,
         NEW m \in Memories, NEW r \in MemoryRow, mem' = [mem EXCEPT ![m] = r],
         Born(m) \/ Changed(m), r.by = mem[m].by, r.sup = mem[m].sup
  PROVE  IndInv' /\ RetiredStay
<1>t. TypeOK
  BY DEF IndInv
<1>1. /\ mem' \in [Memories -> MemoryRow] /\ mem'[m] = r
      /\ \A x \in Memories \ {m} : mem'[x] = mem[x]
  BY <1>t DEF TypeOK
<1>2. RowSteps
  BY <1>t, <1>1 DEF RowSteps, TypeOK
<1>3. PointersSame
  BY <1>1 DEF PointersSame
<1>4. MergeSteps
  BY <1>t DEF MergeSteps, TypeOK, KeptOrInvalidated
<1> QED  BY <1>t, <1>2, <1>3, <1>4, SimpleStep DEF TypeOK

LEMMA NewStep ==
  ASSUME IndInv, NEW m \in Memories, NEW status \in Live,
         NEW conf \in {"none", "pending"}, New(m, status, conf)
  PROVE  IndInv' /\ RetiredStay
<1> DEFINE r == [NoRow EXCEPT !.status = status, !.conf = conf]
<1>1. /\ r \in MemoryRow /\ r.status = status /\ r.conf = conf /\ r.rev = 0
      /\ r.by = None /\ r.sup = None
  BY DEF NoRow, MemoryRow, Answers
<1>2. /\ mem[m] = NoRow /\ mem' = [mem EXCEPT ![m] = r]
      /\ mem[m].status = "absent" /\ UNCHANGED <<merge, draft, sweep, swept>>
  BY DEF New, IndInv, RowsOK
<1> HIDE DEF r
<1>3. mem'[m] = r
  BY <1>2 DEF IndInv, TypeOK
<1>4. Born(m)
  BY <1>1, <1>2, <1>3 DEF Born, Refused
<1> QED  BY <1>1, <1>2, <1>4, NoRowTyped, OneRowStep

\* A row that is in use keeps its pointers and gets a status and an answer.
LEMMA UpdateStep ==
  ASSUME IndInv, UNCHANGED <<merge, draft, sweep, swept>>,
         NEW m \in Memories, mem[m].status \in Live, NEW r \in MemoryRow,
         mem' = [mem EXCEPT ![m] = r],
         r.rev = mem[m].rev + 1, r.by = mem[m].by, r.sup = mem[m].sup,
         r.status \in Live \cup Retired, r.conf \in Refused => r.status \in Retired
  PROVE  IndInv' /\ RetiredStay
<1>1. mem'[m] = r
  BY DEF IndInv, TypeOK
<1>2. /\ mem[m].status # "absent" /\ r.status # "absent"
  BY StatusNames
<1>3. Changed(m)
  BY <1>1, <1>2 DEF Changed
<1> QED  BY <1>3, OneRowStep

\* An answer that a row in use carries is not a refusal.
LEMMA LiveRow ==
  ASSUME IndInv, NEW m \in Memories, mem[m].status \in Live
  PROVE  /\ mem[m] \in MemoryRow /\ mem[m].conf \notin Refused
         /\ mem[m].conf \in Answers
         /\ m \notin swept => mem[m].by = None
<1>1. mem[m] \in MemoryRow
  BY DEF IndInv, TypeOK
<1> QED  BY <1>1, StatusNames
         DEF IndInv, RefusedStaysOut, SuccessorsReplace, Refused, MemoryRow

LEMMA SettleStep ==
  ASSUME IndInv, NEW m \in Memories,
         NEW status \in {"active", "rejected"}, NEW answer \in Answers,
         answer \in Refused => status = "rejected", Settle(m, status, answer)
  PROVE  IndInv' /\ RetiredStay
<1> DEFINE r == [mem[m] EXCEPT !.status = status, !.conf = answer, !.rev = @ + 1]
<1>1. /\ mem[m].status \in Live /\ UNCHANGED <<merge, draft, sweep, swept>>
      /\ mem' = [mem EXCEPT ![m] = r]
  BY StatusNames DEF Settle, Confirmable
<1>m. mem[m] \in MemoryRow
  BY <1>1, LiveRow
<1>r. r \in MemoryRow
  <2>1. status \in Live \cup Retired \cup {"absent"}
    BY StatusNames
  <2> QED  BY <2>1, <1>m, RowFields DEF MemoryRow
<1>2. /\ r \in MemoryRow /\ r.rev = mem[m].rev + 1 /\ r.by = mem[m].by
      /\ r.sup = mem[m].sup /\ r.status = status /\ r.conf = answer
  BY <1>m, <1>r DEF MemoryRow
<1> HIDE DEF r
<1> QED  BY <1>1, <1>2, StatusNames, UpdateStep

LEMMA ExpireStep ==
  ASSUME IndInv, NEW m \in Memories, Expire(m)
  PROVE  IndInv' /\ RetiredStay
<1> DEFINE r == [mem[m] EXCEPT !.ends = TRUE, !.rev = @ + 1]
<1>1. /\ mem[m].status \in Live /\ UNCHANGED <<merge, draft, sweep, swept>>
      /\ mem' = [mem EXCEPT ![m] = r]
  BY DEF Expire, IsLive
<1>m. mem[m] \in MemoryRow
  BY <1>1, LiveRow
<1>r. r \in MemoryRow
  BY <1>m, RowFields DEF MemoryRow
<1>2. /\ r \in MemoryRow /\ r.rev = mem[m].rev + 1 /\ r.by = mem[m].by
      /\ r.sup = mem[m].sup /\ r.status = mem[m].status /\ r.conf = mem[m].conf
  BY <1>m, <1>r DEF MemoryRow
<1> HIDE DEF r
<1> QED  BY <1>1, <1>2, LiveRow, UpdateStep

LEMMA UnexpireStep ==
  ASSUME IndInv, NEW m \in Memories, Unexpire(m)
  PROVE  IndInv' /\ RetiredStay
<1> DEFINE r == [mem[m] EXCEPT !.ends = FALSE, !.rev = @ + 1,
                   !.status = IF @ = "stale" THEN "active" ELSE @]
<1>1. /\ mem[m].status \in Live /\ UNCHANGED <<merge, draft, sweep, swept>>
      /\ mem' = [mem EXCEPT ![m] = r]
  BY DEF Unexpire, IsLive
<1>m. mem[m] \in MemoryRow
  BY <1>1, LiveRow
<1>r. r \in MemoryRow
  <2>1. "active" \in Live \cup Retired \cup {"absent"}
    BY StatusNames
  <2> QED  BY <2>1, <1>m, RowFields DEF MemoryRow
<1>2. /\ r \in MemoryRow /\ r.rev = mem[m].rev + 1 /\ r.by = mem[m].by
      /\ r.sup = mem[m].sup /\ r.status \in {mem[m].status, "active"}
      /\ r.conf = mem[m].conf
  BY <1>m, <1>r DEF MemoryRow
<1> HIDE DEF r
<1> QED  BY <1>1, <1>2, LiveRow, StatusNames, UpdateStep

LEMMA ReviewedStep ==
  ASSUME IndInv, NEW m \in Memories, NEW status \in Live \cup Retired,
         NEW answer \in Answers, answer \in Refused => status \in Retired,
         Reviewed(m, status, answer)
  PROVE  IndInv' /\ RetiredStay
<1> DEFINE r == [mem[m] EXCEPT !.status = status, !.conf = Answered(@, answer),
                               !.rev = @ + 1]
<1>1. /\ mem[m].status \in Live /\ UNCHANGED <<merge, draft, sweep, swept>>
      /\ mem' = [mem EXCEPT ![m] = r]
  BY DEF Reviewed, IsLive
<1>2. Answered(mem[m].conf, answer) \in {mem[m].conf, answer}
  BY DEF Answered
<1>m. mem[m] \in MemoryRow /\ Answered(mem[m].conf, answer) \in Answers
  BY <1>1, <1>2, LiveRow
<1>r. r \in MemoryRow
  BY <1>m, RowFields DEF MemoryRow
<1>3. /\ r \in MemoryRow /\ r.rev = mem[m].rev + 1 /\ r.by = mem[m].by
      /\ r.sup = mem[m].sup /\ r.status = status
      /\ r.conf = Answered(mem[m].conf, answer)
  BY <1>m, <1>r DEF MemoryRow
<1> HIDE DEF r
<1> QED  BY <1>1, <1>2, <1>3, LiveRow, UpdateStep

-----------------------------------------------------------------------------
(* Steps that outdate the candidates derived from a row.                   *)

LEMMA OutdatedRow ==
  ASSUME IndInv, NEW S, NEW x \in Derived(S)
  PROVE  /\ x \in Memories /\ mem[x].status \in Live
         /\ Outdated(mem[x]) \in MemoryRow
         /\ Outdated(mem[x]).rev = mem[x].rev + 1
         /\ Outdated(mem[x]).by = mem[x].by /\ Outdated(mem[x]).sup = mem[x].sup
         /\ Outdated(mem[x]).status = "stale"
         /\ Outdated(mem[x]).conf = mem[x].conf /\ mem[x].conf \notin Refused
<1>1. x \in Memories /\ mem[x].status \in Live
  BY StatusNames DEF Derived
<1>2. mem[x] \in MemoryRow
  BY <1>1, LiveRow
<1>3. Outdated(mem[x]) \in MemoryRow
  <2>1. "stale" \in Live \cup Retired \cup {"absent"}
    BY StatusNames
  <2> QED  BY <2>1, <1>2, RowFields DEF MemoryRow, Outdated
<1>4. /\ Outdated(mem[x]).rev = mem[x].rev + 1
      /\ Outdated(mem[x]).by = mem[x].by /\ Outdated(mem[x]).sup = mem[x].sup
      /\ Outdated(mem[x]).status = "stale"
      /\ Outdated(mem[x]).conf = mem[x].conf
  BY <1>2 DEF Outdated, MemoryRow
<1> QED  BY <1>1, <1>3, <1>4, LiveRow

LEMMA SupersededRow ==
  ASSUME NEW r \in MemoryRow, NEW s \in Memories
  PROVE  /\ Superseded(r, s) \in MemoryRow
         /\ Superseded(r, s).rev = r.rev + 1
         /\ Superseded(r, s).by = s /\ Superseded(r, s).sup = r.sup
         /\ Superseded(r, s).status = "superseded"
         /\ Superseded(r, s).conf = r.conf
<1>1. "superseded" \in Live \cup Retired \cup {"absent"}
  BY StatusNames
<1>2. Superseded(r, s) \in MemoryRow
  BY <1>1, RowFields DEF MemoryRow, Superseded
<1>3. /\ Superseded(r, s).rev = r.rev + 1
      /\ Superseded(r, s).by = s /\ Superseded(r, s).sup = r.sup
      /\ Superseded(r, s).status = "superseded"
      /\ Superseded(r, s).conf = r.conf
  BY DEF MemoryRow, Superseded
<1> QED  BY <1>2, <1>3

LEMMA OutdatedChanges ==
  ASSUME IndInv, NEW S, NEW x \in Derived(S), mem'[x] = Outdated(mem[x])
  PROVE  Changed(x)
<1>1. "stale" # "absent" /\ mem[x].status # "absent"
  BY OutdatedRow, StatusNames
<1> QED  BY <1>1, OutdatedRow DEF Changed

\* forget and correct: m gets the status, its derived candidates are outdated.
LEMMA OutdatingStep ==
  ASSUME IndInv, NEW m \in Memories, mem[m].status \in Live,
         NEW status \in {"active", "superseded"},
         mem' = [x \in Memories |->
                   IF x = m THEN [mem[m] EXCEPT !.status = status, !.rev = @ + 1]
                   ELSE IF x \in Derived({m}) THEN Outdated(mem[x]) ELSE mem[x]],
         merge' = Invalidate(Derived({m})),
         UNCHANGED <<draft, sweep, swept>>
  PROVE  IndInv' /\ RetiredStay
<1> DEFINE r == [mem[m] EXCEPT !.status = status, !.rev = @ + 1]
           O == Derived({m})
<1>t. TypeOK
  BY DEF IndInv
<1>m. mem[m] \in MemoryRow
  BY LiveRow
<1>r. r \in MemoryRow
  <2>1. status \in Live \cup Retired \cup {"absent"}
    BY StatusNames
  <2> QED  BY <2>1, <1>m, RowFields DEF MemoryRow
<1>1. /\ r \in MemoryRow /\ r.rev = mem[m].rev + 1 /\ r.by = mem[m].by
      /\ r.sup = mem[m].sup /\ r.status = status /\ r.conf = mem[m].conf
  BY <1>m, <1>r DEF MemoryRow
<1>2. /\ mem'[m] = r
      /\ \A x \in O \ {m} : mem'[x] = Outdated(mem[x])
      /\ \A x \in Memories : x # m /\ x \notin O => mem'[x] = mem[x]
  BY OutdatedRow
<1>3. mem' \in [Memories -> MemoryRow]
  BY <1>1, <1>t, OutdatedRow DEF TypeOK
<1> HIDE DEF r, O
<1>4. Changed(m)
  BY <1>1, <1>2, LiveRow, StatusNames DEF Changed
<1>5. \A x \in O \ {m} : Changed(x)
  BY <1>2, OutdatedChanges DEF O
<1>6. RowSteps
  BY <1>t, <1>2, <1>3, <1>4, <1>5 DEF RowSteps, TypeOK
<1>7. PointersSame
  BY <1>1, <1>2, OutdatedRow DEF PointersSame, O
<1>8. MergeSteps
  BY InvalidateIsMergeStep
<1> QED  BY <1>t, <1>6, <1>7, <1>8, SimpleStep DEF TypeOK

LEMMA CorrectStep ==
  ASSUME IndInv, NEW m \in Memories, Correct(m)
  PROVE  IndInv' /\ RetiredStay
  BY OutdatingStep DEF Correct, IsLive

LEMMA ForgetStep ==
  ASSUME IndInv, NEW m \in Memories, Forget(m)
  PROVE  IndInv' /\ RetiredStay
  BY OutdatingStep DEF Forget, IsLive

\* undo with a successor: the one pointer it sets closes no cycle, and nobody else
\* says that it replaced m.
LEMMA UndoStep ==
  ASSUME IndInv, NEW m \in Memories, NEW s \in Memories, Undo(m, s)
  PROVE  IndInv' /\ RetiredStay
<1> DEFINE O == Derived({m})
           r == Superseded(mem[m], s)
           h == [mem[s] EXCEPT !.sup = m, !.rev = @ + 1]
<1>t. TypeOK
  BY DEF IndInv
<1>0. /\ mem[m].status \in Live /\ mem[s].status \in Live /\ s # m /\ ~Leads(s, m)
      /\ UNCHANGED <<draft, sweep, swept>>
      /\ merge' = Invalidate(O)
      /\ mem' = [x \in Memories |->
                   IF x = m THEN r ELSE IF x = s THEN h
                   ELSE IF x \in O THEN Outdated(mem[x]) ELSE mem[x]]
  BY StatusNames DEF Undo, IsLive, MaySucceed
<1>m. mem[m] \in MemoryRow /\ mem[s] \in MemoryRow
  BY <1>0, LiveRow
<1>1. /\ r \in MemoryRow /\ r.rev = mem[m].rev + 1 /\ r.by = s
      /\ r.sup = mem[m].sup /\ r.status = "superseded" /\ r.conf = mem[m].conf
  BY <1>m, SupersededRow
<1>h. h \in MemoryRow
  BY <1>m, RowFields DEF MemoryRow
<1>2. /\ h \in MemoryRow /\ h.rev = mem[s].rev + 1 /\ h.by = mem[s].by
      /\ h.sup = m /\ h.status = mem[s].status /\ h.conf = mem[s].conf
  BY <1>m, <1>h DEF MemoryRow
<1>3. /\ mem'[m] = r /\ mem'[s] = h
      /\ \A x \in O \ {m, s} : mem'[x] = Outdated(mem[x])
      /\ \A x \in Memories : x \notin {m, s} /\ x \notin O => mem'[x] = mem[x]
  BY <1>0, OutdatedRow
<1>4. mem' \in [Memories -> MemoryRow]
  BY <1>0, <1>1, <1>2, <1>t, OutdatedRow DEF TypeOK
<1> HIDE DEF r, h, O
<1>5. Changed(m)
  BY <1>0, <1>1, <1>3, StatusNames DEF Changed
<1>6. Changed(s)
  BY <1>0, <1>2, <1>3, LiveRow, StatusNames DEF Changed
<1>7. \A x \in O \ {m, s} : Changed(x)
  BY <1>3, OutdatedChanges DEF O
<1>8. RowSteps
  BY <1>t, <1>0, <1>3, <1>4, <1>5, <1>6, <1>7 DEF RowSteps, TypeOK
<1>9. MergeSteps
  BY <1>0, InvalidateIsMergeStep DEF O
<1>10. ASSUME NEW x \in Memories \ {m} PROVE mem'[x].by = mem[x].by
  <2>1. CASE x = s
    BY <1>2, <1>3, <2>1
  <2>2. CASE x # s /\ x \in O
    BY <1>3, <2>2, OutdatedRow DEF O
  <2>3. CASE x # s /\ x \notin O
    BY <1>3, <2>3
  <2> QED  BY <2>1, <2>2, <2>3
<1>11. Acyclic'
  <2>1. Acyclic
    BY DEF IndInv
  <2> DEFINE From == {m}
  <2>2. From \in SUBSET Memories /\ s \in Memories
    OBVIOUS
  <2>3. \A x \in From : ~Leads(s, x)
    BY <1>0
  <2>4. \A x \in From : mem'[x].by = s
    BY <1>1, <1>3
  <2>5. \A x \in Memories \ From :
          mem'[x].by = mem[x].by \/ mem'[x].by \notin Memories
    BY <1>10
  <2> HIDE DEF From
  <2> QED  BY <2>1, <2>2, <2>3, <2>4, <2>5, NoCycleThrough
<1>12. PointersAgree'
  <2> SUFFICES ASSUME NEW x \in Memories, NEW y \in Memories \ swept', mem'[x].sup = y
               PROVE  mem'[y].by = x
    BY DEF PointersAgree
  <2>1. CASE x = s
    BY <2>1, <1>1, <1>2, <1>3
  <2>2. CASE x # s
    <3>1. mem[x].sup = y
      BY <2>2, <1>1, <1>3, OutdatedRow DEF O
    <3>2. mem[y].by = x
      BY <3>1, <1>0 DEF IndInv, PointersAgree
    <3>3. y # m
      BY <3>2, <1>0, LiveRow, NullIsNoValue
    <3> QED  BY <3>2, <3>3, <1>10
  <2> QED  BY <2>1, <2>2
<1>13. TypeOK'
  BY <1>t, <1>0, <1>8, <1>9 DEF TypeOK, RowSteps, MergeSteps
<1>14. PlansOK' /\ MergesOK' /\ MergedRowsRetired'
  BY <1>0, <1>8, <1>9, PlansKept, MergesKept
<1> QED  BY <1>8, <1>11, <1>12, <1>13, <1>14, RowsKept DEF IndInv

-----------------------------------------------------------------------------
(* Acceptance and replacement.                                             *)

\* A candidate that is accepted supersedes rows that are in use, and all of its
\* members but those a sweep brought back.
LEMMA AcceptedMembers ==
  ASSUME IndInv, NEW c \in Memories, AwaitsMerge(c), mem[c].status \in Pending,
         AsReviewed(c)
  PROVE  /\ Replaced(c) \in SUBSET Memories /\ c \notin Replaced(c)
         /\ merge[c].members \subseteq Memories
         /\ \A m \in merge[c].members : mem[m].status = "active"
         /\ \A m \in merge[c].members \ swept : m \in Replaced(c)
         /\ \A m \in Replaced(c) : mem[m].by = None
         /\ merge[c].survivor \in merge[c].members \cup {None}
<1>1. merge[c] \in MergeRecord /\ SeenOK(merge[c])
  BY DEF IndInv, TypeOK, MergesOK
<1>2. \A m \in merge[c].members : m \in Memories /\ mem[m].status = "active"
  BY <1>1 DEF SeenOK, AsReviewed, MergeRecord
<1>3. c \notin merge[c].members
  BY <1>2, StatusNames
<1>4. \A m \in merge[c].members \ swept : mem[m].by = None
  BY <1>2, LiveRow, StatusNames
<1> QED  BY <1>1, <1>2, <1>3, <1>4, StatusNames DEF Replaced, SeenOK

LEMMA AcceptStep ==
  ASSUME IndInv, NEW c \in Memories, Accept(c)
  PROVE  IndInv' /\ RetiredStay
<1> DEFINE R == Replaced(c)
           O == Derived(R) \ {c}
           sup == IF merge[c].survivor = None THEN mem[c].sup ELSE merge[c].survivor
           r == [mem[c] EXCEPT !.status = "active", !.rev = @ + 1, !.sup = sup]
<1>t. TypeOK
  BY DEF IndInv
<1>0. /\ AwaitsMerge(c) /\ mem[c].status \in Pending /\ AsReviewed(c)
      /\ \A m \in R : mem[m].status \in Live /\ ~Leads(c, m)
      /\ UNCHANGED <<draft, sweep, swept>>
      /\ merge' = [Invalidate(O) EXCEPT ![c].state = "accepted"]
      /\ mem' = [x \in Memories |->
                   IF x = c THEN r ELSE IF x \in R THEN Superseded(mem[x], c)
                   ELSE IF x \in O THEN Outdated(mem[x]) ELSE mem[x]]
  BY DEF Accept, IsLive
<1>1. /\ R \in SUBSET Memories /\ c \notin R /\ merge[c].members \subseteq Memories
      /\ \A m \in R : mem[m].by = None
      /\ \A m \in merge[c].members \ swept : m \in R
      /\ merge[c].survivor \in merge[c].members \cup {None}
  BY <1>0, AcceptedMembers
<1>m. mem[c].status \in Live /\ mem[c] \in MemoryRow /\ mem[c].conf \notin Refused
  BY <1>0, LiveRow, StatusNames
<1>2. /\ r \in MemoryRow /\ r.rev = mem[c].rev + 1 /\ r.by = mem[c].by
      /\ r.sup = sup /\ r.status = "active" /\ r.conf = mem[c].conf
  <2>1. sup \in Memories \cup {None}
    BY <1>1, <1>m, RowFields
  <2>2. "active" \in Live \cup Retired \cup {"absent"}
    BY StatusNames
  <2> HIDE DEF sup
  <2>3. r \in MemoryRow
    BY <1>m, <2>1, <2>2, RowFields DEF MemoryRow
  <2> QED  BY <1>m, <2>3 DEF MemoryRow
<1>3. /\ mem'[c] = r
      /\ \A x \in R : mem'[x] = Superseded(mem[x], c)
      /\ \A x \in O \ R : mem'[x] = Outdated(mem[x])
      /\ \A x \in Memories : x # c /\ x \notin R /\ x \notin O => mem'[x] = mem[x]
  BY <1>0, <1>1, OutdatedRow
<1>s. \A x \in R : mem[x] \in MemoryRow /\ mem[x].conf \notin Refused
  BY <1>0, <1>1, LiveRow
<1>4. mem' \in [Memories -> MemoryRow]
  BY <1>0, <1>2, <1>s, <1>t, OutdatedRow, SupersededRow DEF TypeOK
<1> HIDE DEF r, O, R, sup
<1>5. Changed(c)
  BY <1>2, <1>3, <1>m, StatusNames DEF Changed
<1>6. ASSUME NEW x \in R PROVE Changed(x)
  <2>1. /\ mem'[x].rev = mem[x].rev + 1 /\ mem'[x].status = "superseded"
    BY <1>3, <1>s, SupersededRow
  <2> QED  BY <2>1, <1>0, StatusNames DEF Changed
<1>7. \A x \in O \ R : Changed(x)
  BY <1>3, OutdatedChanges DEF O
<1>8. RowSteps
  BY <1>t, <1>0, <1>3, <1>4, <1>5, <1>6, <1>7 DEF RowSteps, TypeOK
<1>9. /\ \A x \in R : mem'[x].by = c /\ mem'[x].sup = mem[x].sup
      /\ \A x \in Memories \ R : mem'[x].by = mem[x].by
      /\ \A x \in Memories \ R : x # c => mem'[x].sup = mem[x].sup
  <2>1. \A x \in R : mem'[x].by = c /\ mem'[x].sup = mem[x].sup
    BY <1>3, <1>s, SupersededRow
  <2>2. \A x \in O \ R : mem'[x].by = mem[x].by /\ mem'[x].sup = mem[x].sup
    BY <1>3, OutdatedRow DEF O
  <2> QED  BY <2>1, <2>2, <1>2, <1>3
<1>10. Acyclic'
  <2>1. Acyclic
    BY DEF IndInv
  <2>2. \A x \in R : ~Leads(c, x)
    BY <1>0
  <2> QED  BY <2>1, <2>2, <1>1, <1>9, NoCycleThrough
<1>11. PointersAgree'
  <2> SUFFICES ASSUME NEW x \in Memories, NEW y \in Memories \ swept', mem'[x].sup = y
               PROVE  mem'[y].by = x
    BY DEF PointersAgree
  <2>1. CASE x = c /\ merge[c].survivor # None
    <3>1. y = merge[c].survivor
      BY <2>1, <1>2, <1>3 DEF sup
    <3>2. y \in R
      BY <2>1, <3>1, <1>0, <1>1
    <3> QED  BY <2>1, <3>2, <1>9
  <2>2. CASE ~(x = c /\ merge[c].survivor # None)
    <3>1. mem[x].sup = y
      BY <2>2, <1>2, <1>3, <1>9 DEF sup
    <3>2. mem[y].by = x
      BY <3>1, <1>0 DEF IndInv, PointersAgree
    <3>3. y \notin R
      BY <3>2, <1>1, NullIsNoValue
    <3> QED  BY <3>2, <3>3, <1>9
  <2> QED  BY <2>1, <2>2
<1>12. /\ merge' \in [Memories -> MergeRecord] /\ merge'[c].state = "accepted"
       /\ merge'[c].members = merge[c].members
       /\ \A d \in Memories \ {c} : KeptOrInvalidated(d, merge'[d])
  <2> DEFINE I == Invalidate(O)
  <2>1. /\ I \in [Memories -> MergeRecord]
        /\ \A d \in Memories : KeptOrInvalidated(d, I[d])
    BY Invalidations DEF O
  <2>2. merge' = [I EXCEPT ![c].state = "accepted"]
    BY <1>0
  <2> HIDE DEF I
  <2>3. I[c] \in MergeRecord /\ I[c].members = merge[c].members
    BY <2>1 DEF KeptOrInvalidated
  <2> DEFINE a == [I[c] EXCEPT !.state = "accepted"]
  <2>4. a \in MergeRecord /\ a.state = "accepted" /\ a.members = merge[c].members
    BY <2>3 DEF MergeRecord, Verdicts
  <2>5. merge' = [I EXCEPT ![c] = a]
    BY <2>2
  <2> HIDE DEF a
  <2> QED  BY <2>1, <2>4, <2>5
<1>13. MergeOK(c)'
  <2>1. \A m \in merge[c].members \ swept : mem'[m].status = "superseded"
    BY <1>1, <1>3, <1>s, SupersededRow
  <2> QED  BY <1>0, <1>12, <2>1, StatusNames DEF MergeOK, AwaitsMerge
<1>14. MergesOK' /\ MergedRowsRetired'
  <2>1. \A d \in Memories : MergeOK(d)'
    BY <1>8, <1>12, <1>13, MergeKept
  <2>2. draft' # NoMerge => draft'.state = "open" /\ SeenOK(draft)'
    BY <1>0, <1>8, DraftKept DEF SeenOK
  <2> QED  BY <2>1, <2>2, MergesOfAll
<1>15. TypeOK'
  BY <1>t, <1>0, <1>8, <1>12 DEF TypeOK, RowSteps
<1>16. PlansOK'
  BY <1>0, <1>8, PlansKept
<1> QED  BY <1>8, <1>10, <1>11, <1>14, <1>15, <1>16, RowsKept DEF IndInv

\* supersede-existing: the new row is led to by the row it replaces, and leads
\* nowhere.
LEMMA ReplaceStep ==
  ASSUME IndInv, NEW m \in Memories, NEW n \in Memories, Replace(m, n)
  PROVE  IndInv' /\ RetiredStay
<1> DEFINE r == [mem[m] EXCEPT !.status = "superseded", !.by = n, !.rev = @ + 1,
                   !.conf = Answered(@, "superseded")]
           b == [NoRow EXCEPT !.status = "active", !.sup = m,
                   !.conf = Answered(mem[m].conf, "confirmed")]
<1>t. TypeOK
  BY DEF IndInv
<1>0. /\ mem[m].status \in Live /\ ~AwaitsMerge(m) /\ mem[n].status = "absent"
      /\ m # n /\ UNCHANGED <<draft, sweep, swept>>
      /\ merge' = [merge EXCEPT ![n] = merge[m]]
      /\ mem' = [mem EXCEPT ![n] = b, ![m] = r]
  BY StatusNames DEF Replace, IsLive
<1>m. mem[m] \in MemoryRow /\ mem[m].conf \notin Refused /\ mem[n] = NoRow
  BY <1>0, LiveRow DEF IndInv, RowsOK
<1>a. /\ Answered(mem[m].conf, "superseded") \in Answers \ Refused
      /\ Answered(mem[m].conf, "confirmed") \in Answers \ Refused
  BY <1>m, RowFields DEF Answered, Answers, Refused
<1>1. /\ r \in MemoryRow /\ r.rev = mem[m].rev + 1 /\ r.by = n
      /\ r.sup = mem[m].sup /\ r.status = "superseded" /\ r.conf \notin Refused
  <2>1. "superseded" \in Live \cup Retired \cup {"absent"}
    BY StatusNames
  <2>2. r \in MemoryRow
    BY <1>m, <1>a, <2>1, RowFields DEF MemoryRow
  <2> QED  BY <1>m, <1>a, <2>2 DEF MemoryRow
<1>2. /\ b \in MemoryRow /\ b.rev = 0 /\ b.by = None
      /\ b.sup = m /\ b.status = "active" /\ b.conf \notin Refused
  <2>1. "active" \in Live \cup Retired \cup {"absent"}
    BY StatusNames
  <2>2. b \in MemoryRow
    BY <1>a, <2>1, NoRowTyped, RowFields DEF MemoryRow
  <2> QED  BY <1>a, <2>2, NoRowTyped DEF MemoryRow
<1> HIDE DEF r, b
<1>3. /\ mem' \in [Memories -> MemoryRow] /\ mem'[m] = r /\ mem'[n] = b
      /\ \A x \in Memories \ {m, n} : mem'[x] = mem[x]
  BY <1>0, <1>1, <1>2, <1>t DEF TypeOK
<1>4. Changed(m) /\ Born(n)
  BY <1>0, <1>1, <1>2, <1>3, StatusNames DEF Changed, Born
<1>5. RowSteps
  BY <1>t, <1>0, <1>3, <1>4 DEF RowSteps, TypeOK
<1>6. \A x \in Memories \ {m} : mem'[x].by = mem[x].by
  BY <1>2, <1>3, <1>m, NoRowTyped
<1>7. Acyclic'
  <2> DEFINE From == {m}
  <2>1. From \in SUBSET Memories /\ Acyclic
    BY DEF IndInv
  <2>2. \A x \in From : ~Leads(n, x)
    <3> DEFINE Alone == {n}
    <3>1. Alone \in SUBSET Memories /\ n \in Alone /\ m \notin Alone
      BY <1>0
    <3>2. \A x \in Alone : mem[x].by \in Memories => mem[x].by \in Alone
      BY <1>m, NoRowTyped, NullIsNoValue
    <3> HIDE DEF Alone
    <3> QED  BY <3>1, <3>2 DEF Leads
  <2>3. \A x \in From : mem'[x].by = n
    BY <1>1, <1>3
  <2>4. \A x \in Memories \ From :
          mem'[x].by = mem[x].by \/ mem'[x].by \notin Memories
    BY <1>6
  <2> HIDE DEF From
  <2> QED  BY <2>1, <2>2, <2>3, <2>4, NoCycleThrough
<1>8. PointersAgree'
  <2> SUFFICES ASSUME NEW x \in Memories, NEW y \in Memories \ swept', mem'[x].sup = y
               PROVE  mem'[y].by = x
    BY DEF PointersAgree
  <2>1. CASE x = n
    BY <2>1, <1>1, <1>2, <1>3
  <2>2. CASE x # n
    <3>1. mem[x].sup = y
      BY <2>2, <1>1, <1>3
    <3>2. mem[y].by = x
      BY <3>1, <1>0 DEF IndInv, PointersAgree
    <3>3. y # m
      BY <3>2, <1>0, LiveRow, NullIsNoValue
    <3> QED  BY <3>2, <3>3, <1>6
  <2> QED  BY <2>1, <2>2
<1>9. /\ merge' \in [Memories -> MergeRecord] /\ merge'[n] = merge[m]
      /\ \A c \in Memories \ {n} : merge'[c] = merge[c]
  BY <1>0, <1>t DEF TypeOK
<1>10. MergeOK(n)'
  <2>1. ~AwaitsMerge(n)'
    BY <1>0, <1>9 DEF AwaitsMerge
  <2>2. merge[m].state = "none" => merge[m].members = {}
    BY DEF IndInv, MergesOK
  <2> QED  BY <1>5, <1>9, <2>1, <2>2, MergedStayRetired DEF MergeOK
<1>11. MergesOK' /\ MergedRowsRetired'
  <2>1. \A c \in Memories \ {n} : MergeOK(c)'
    BY <1>5, <1>9, MergeKept DEF KeptOrInvalidated
  <2>2. draft' # NoMerge => draft'.state = "open" /\ SeenOK(draft)'
    BY <1>0, <1>5, DraftKept DEF SeenOK
  <2> QED  BY <1>10, <2>1, <2>2, MergesOfAll
<1>12. TypeOK'
  BY <1>t, <1>0, <1>5, <1>9 DEF TypeOK, RowSteps
<1>13. PlansOK'
  BY <1>0, <1>5, PlansKept
<1> QED  BY <1>5, <1>7, <1>8, <1>11, <1>12, <1>13, RowsKept DEF IndInv

-----------------------------------------------------------------------------
(* Requests together; a step that changes no row; generation; the sweep.   *)

LEMMA RequestStep ==
  ASSUME IndInv, Request PROVE IndInv' /\ RetiredStay
<1>0. /\ "none" \in {"none", "pending"} /\ "pending" \in {"none", "pending"}
      /\ "confirmed" \in Answers \ Refused /\ "rejected" \in Answers
      /\ "expired" \in Answers /\ "pending" \in Answers \ Refused
      /\ "active" \in {"active", "rejected"} /\ "rejected" \in {"active", "rejected"}
  BY DEF Answers, Refused
<1>1. ASSUME NEW m \in Memories, Commit(m) \/ AskToConfirm(m) \/ ProposeReview(m)
      PROVE  IndInv' /\ RetiredStay
  BY <1>0, <1>1, NewStep, StatusNames DEF Commit, AskToConfirm, ProposeReview
<1>2. ASSUME NEW m \in Memories, Confirm(m) \/ Refuse(m) \/ AnswerTooLate(m)
      PROVE  IndInv' /\ RetiredStay
  BY <1>0, <1>2, SettleStep DEF Confirm, Refuse, AnswerTooLate
<1>3. ASSUME NEW m \in Memories, Approve(m) PROVE IndInv' /\ RetiredStay
  BY <1>0, <1>3, ReviewedStep, StatusNames DEF Approve
<1>4. ASSUME NEW m \in Memories, Reject(m) PROVE IndInv' /\ RetiredStay
  BY <1>0, <1>4, ReviewedStep, StatusNames DEF Reject
<1>5. ASSUME NEW m \in Memories, MakePrivate(m) PROVE IndInv' /\ RetiredStay
  BY <1>0, <1>5, ReviewedStep, StatusNames DEF MakePrivate
<1>6. ASSUME NEW m \in Memories, Assign(m) PROVE IndInv' /\ RetiredStay
  <2>1. Reviewed(m, mem[m].status, "pending") /\ mem[m].status \in Live
    BY <1>6 DEF Assign, Reviewed, IsLive
  <2> QED  BY <1>0, <2>1, ReviewedStep
<1> QED  BY <1>1, <1>2, <1>3, <1>4, <1>5, <1>6, CorrectStep, ForgetStep, AcceptStep,
            ExpireStep, UnexpireStep, UndoStep, ReplaceStep DEF Request

LEMMA RowsSame ==
  ASSUME IndInv, UNCHANGED <<mem, swept>>
  PROVE  RowSteps /\ PointersSame /\ Acyclic' /\ PointersAgree'
  BY DEF IndInv, TypeOK, RowSteps, PointersSame, Acyclic, PointersAgree

LEMMA ClusterStep ==
  ASSUME IndInv, NEW members \in SUBSET Memories,
         NEW survivor \in Memories \cup {None}, Cluster(members, survivor)
  PROVE  IndInv' /\ RetiredStay
<1>t. TypeOK
  BY DEF IndInv
<1> DEFINE d == [members |-> members, survivor |-> survivor, state |-> "open",
                 seen |-> [m \in Memories |-> IF m \in members THEN mem[m].rev ELSE 0]]
<1>1. /\ UNCHANGED <<mem, merge, sweep, swept>> /\ draft' = d
      /\ \A m \in members : mem[m].status = "active"
      /\ survivor \in members \cup {None}
  BY DEF Cluster
<1>2. RowSteps /\ PointersSame /\ Acyclic' /\ PointersAgree'
  BY <1>1, RowsSame
<1>3. \A m \in Memories : mem[m].rev \in Nat
  BY <1>t, RowFields DEF TypeOK
<1>4. d \in MergeRecord
  BY <1>1, <1>3 DEF MergeRecord, Verdicts
<1>5. TypeOK'
  BY <1>t, <1>1, <1>4 DEF TypeOK
<1>6. \A m \in members : d.seen[m] = mem[m].rev /\ mem[m].status # "absent"
  BY <1>1, StatusNames
<1>7. d.state = "open" /\ d.members = members /\ d.survivor = survivor
  OBVIOUS
<1> HIDE DEF d
<1>8. draft'.state = "open" /\ SeenOK(draft)'
  BY <1>1, <1>3, <1>6, <1>7 DEF SeenOK
<1>9. \A c \in Memories : MergeOK(c)'
  BY <1>1, <1>2, MergeKept DEF KeptOrInvalidated
<1>10. MergesOK' /\ MergedRowsRetired'
  BY <1>8, <1>9, MergesOfAll
<1> QED  BY <1>1, <1>2, <1>5, <1>10, RowsKept, PlansKept DEF IndInv

LEMMA PublishStep ==
  ASSUME IndInv, NEW c \in Memories, PublishDraft(c)
  PROVE  IndInv' /\ RetiredStay
<1>t. TypeOK
  BY DEF IndInv
<1> DEFINE r == [NoRow EXCEPT !.status = "candidate"]
<1>1. /\ draft # NoMerge /\ mem[c].status = "absent" /\ mem[c] = NoRow
      /\ UNCHANGED <<sweep, swept>> /\ draft' = NoMerge
      /\ mem' = [mem EXCEPT ![c] = r] /\ merge' = [merge EXCEPT ![c] = draft]
  BY DEF PublishDraft, IndInv, RowsOK
<1>2. /\ r \in MemoryRow /\ r.status = "candidate" /\ r.rev = 0 /\ r.by = None
      /\ r.sup = None /\ r.conf = "none"
  <2>1. "candidate" \in Live \cup Retired \cup {"absent"}
    BY StatusNames
  <2> QED  BY <2>1, NoRowTyped DEF MemoryRow
<1> HIDE DEF r
<1>3. /\ mem' \in [Memories -> MemoryRow] /\ mem'[c] = r
      /\ \A x \in Memories \ {c} : mem'[x] = mem[x]
      /\ merge' \in [Memories -> MergeRecord] /\ merge'[c] = draft
      /\ \A x \in Memories \ {c} : merge'[x] = merge[x]
  BY <1>t, <1>1, <1>2 DEF TypeOK
<1>4. Born(c)
  BY <1>1, <1>2, <1>3, StatusNames DEF Born, Refused
<1>5. RowSteps
  BY <1>t, <1>1, <1>3, <1>4 DEF RowSteps, TypeOK
<1>6. PointersSame
  BY <1>1, <1>2, <1>3, NoRowTyped DEF PointersSame
<1>7. MergeOK(c)'
  <2>1. merge'[c].state = "open"
    BY <1>1, <1>3 DEF IndInv, MergesOK
  <2>2. SeenOK(merge[c])'
    BY <1>1, <1>3, <1>5, DraftKept DEF SeenOK
  <2> QED  BY <2>1, <2>2 DEF MergeOK
<1>8. \A x \in Memories \ {c} : MergeOK(x)'
  BY <1>3, <1>5, MergeKept DEF KeptOrInvalidated
<1>9. MergesOK' /\ MergedRowsRetired'
  BY <1>1, <1>7, <1>8, MergesOfAll
<1>10. TypeOK'
  BY <1>t, <1>1, <1>3, NoMergeTyped DEF TypeOK
<1> QED  BY <1>1, <1>5, <1>6, <1>9, <1>10, RowsKept, PlansKept, PointersKept DEF IndInv

LEMMA DropDraftStep ==
  ASSUME IndInv, DropDraft
  PROVE  IndInv' /\ RetiredStay
<1>t. TypeOK
  BY DEF IndInv
<1>1. UNCHANGED <<mem, merge, sweep, swept>> /\ draft' = NoMerge
  BY DEF DropDraft
<1>2. RowSteps /\ PointersSame /\ Acyclic' /\ PointersAgree'
  BY <1>1, RowsSame
<1>3. \A c \in Memories : MergeOK(c)'
  BY <1>1, <1>2, MergeKept DEF KeptOrInvalidated
<1>4. TypeOK' /\ MergesOK' /\ MergedRowsRetired'
  BY <1>t, <1>1, <1>3, NoMergeTyped, MergesOfAll DEF TypeOK
<1> QED  BY <1>1, <1>2, <1>4, RowsKept, PlansKept DEF IndInv

LEMMA ScanStep ==
  ASSUME IndInv, NEW s \in Sweeps, NEW S \in SUBSET Memories, Scan(s, S)
  PROVE  IndInv' /\ RetiredStay
<1>t. TypeOK
  BY DEF IndInv
<1> DEFINE plan == [m \in Memories |-> IF m \in S THEN mem[m].conf ELSE None]
<1>1. /\ UNCHANGED <<mem, merge, draft, swept>> /\ sweep' = [sweep EXCEPT ![s] = plan]
      /\ \A m \in S : mem[m].status = "active"
  BY DEF Scan
<1>2. RowSteps /\ PointersSame /\ Acyclic' /\ PointersAgree'
  BY <1>1, RowsSame
<1>3. \A m \in S : mem[m].conf \in Answers \ Refused /\ mem[m].status # "absent"
  BY <1>1, LiveRow, StatusNames
<1>4. plan \in [Memories -> Answers \cup {None}]
  BY <1>3
<1>5. \A m \in Memories : plan[m] # None => m \in S /\ plan[m] = mem[m].conf
  OBVIOUS
<1> HIDE DEF plan
<1>6. /\ sweep' \in [Sweeps -> [Memories -> Answers \cup {None}]] /\ sweep'[s] = plan
      /\ \A t \in Sweeps \ {s} : sweep'[t] = sweep[t]
  BY <1>t, <1>1, <1>4 DEF TypeOK
<1>7. PlansOK'
  <2> SUFFICES ASSUME NEW t \in Sweeps, NEW m \in Memories, sweep'[t][m] # None
               PROVE  mem[m].status # "absent" /\ sweep'[t][m] \notin Refused
    BY <1>1 DEF PlansOK, Refused
  <2>1. CASE t = s
    BY <2>1, <1>3, <1>5, <1>6
  <2>2. CASE t # s
    BY <2>2, <1>6 DEF IndInv, PlansOK, Refused
  <2> QED  BY <2>1, <2>2
<1>8. MergeSteps
  BY <1>t, <1>1 DEF MergeSteps, TypeOK, KeptOrInvalidated
<1>9. TypeOK'
  BY <1>t, <1>1, <1>6 DEF TypeOK
<1> QED  BY <1>1, <1>2, <1>7, <1>8, <1>9, RowsKept, MergesKept DEF IndInv

\* A sweep writes what it read over rows that have changed; those it brings back
\* are recorded in swept.
LEMMA MarkSteps ==
  ASSUME IndInv, NEW s \in Sweeps, Mark(s)
  PROVE  RowSteps /\ PointersSame
<1>t. TypeOK
  BY DEF IndInv
<1> DEFINE r(m) == [mem[m] EXCEPT !.status = "stale", !.conf = sweep[s][m], !.rev = @ + 1]
<1>1. /\ UNCHANGED <<merge, draft>> /\ sweep' = [sweep EXCEPT ![s] = NoPlan]
      /\ mem' = [m \in Memories |-> IF m \in Marked(s) THEN r(m) ELSE mem[m]]
      /\ swept' = swept \cup {m \in Marked(s) : mem[m].status \in Retired}
  BY DEF Mark
<1>2. ASSUME NEW m \in Marked(s)
      PROVE  /\ m \in Memories /\ mem[m].status # "absent" /\ mem[m] \in MemoryRow
             /\ sweep[s][m] \in Answers /\ sweep[s][m] \notin Refused
             /\ mem[m].status \in Live \/ m \in swept'
  <2>1. m \in Memories /\ sweep[s][m] # None
    BY DEF Marked
  <2>2. mem[m].status # "absent" /\ sweep[s][m] \notin Refused
    BY <2>1 DEF IndInv, PlansOK, Refused
  <2>3. mem[m] \in MemoryRow /\ sweep[s][m] \in Answers
    BY <1>t, <2>1 DEF TypeOK
  <2>4. mem[m].status \in Live \/ mem[m].status \in Retired
    BY <2>2, <2>3, RowFields
  <2> QED  BY <2>1, <2>2, <2>3, <2>4, <1>1
<1>3. ASSUME NEW m \in Marked(s)
      PROVE  /\ r(m) \in MemoryRow /\ r(m).rev = mem[m].rev + 1 /\ r(m).by = mem[m].by
             /\ r(m).sup = mem[m].sup /\ r(m).status = "stale"
             /\ r(m).conf = sweep[s][m]
  <2>1. "stale" \in Live \cup Retired \cup {"absent"}
    BY StatusNames
  <2>2. mem[m].rev \in Nat /\ mem[m].rev + 1 \in Nat
    BY <1>2, RowFields
  <2>3. r(m) \in MemoryRow
    BY <1>2, <2>1, <2>2 DEF MemoryRow
  <2> QED  BY <1>2, <2>3 DEF MemoryRow
<1> HIDE DEF r
<1>4. /\ mem' \in [Memories -> MemoryRow]
      /\ \A m \in Marked(s) : mem'[m] = r(m)
      /\ \A m \in Memories \ Marked(s) : mem'[m] = mem[m]
  BY <1>t, <1>1, <1>2, <1>3 DEF TypeOK
<1>5. \A m \in Marked(s) : Changed(m)
  BY <1>2, <1>3, <1>4, StatusNames DEF Changed
<1>6. swept \subseteq swept' /\ swept' \subseteq Memories
  BY <1>t, <1>1, <1>2 DEF TypeOK
<1>7. RowSteps
  BY <1>4, <1>5, <1>6 DEF RowSteps
<1>8. PointersSame
  BY <1>3, <1>4 DEF PointersSame
<1> QED  BY <1>7, <1>8

LEMMA SweepStep ==
  ASSUME IndInv, NEW s \in Sweeps, Mark(s) \/ DropSweep(s)
  PROVE  IndInv' /\ RetiredStay
<1>t. TypeOK
  BY DEF IndInv
<1>1. RowSteps /\ PointersSame
  BY MarkSteps, RowsSame DEF DropSweep
<1>2. UNCHANGED <<merge, draft>> /\ sweep' = [sweep EXCEPT ![s] = NoPlan]
  BY DEF Mark, DropSweep
<1>3. /\ sweep' \in [Sweeps -> [Memories -> Answers \cup {None}]]
      /\ \A t \in Sweeps : sweep'[t] = sweep[t] \/ sweep'[t] = NoPlan
  BY <1>t, <1>2 DEF TypeOK, NoPlan
<1>4. MergeSteps
  BY <1>t, <1>2 DEF MergeSteps, TypeOK, KeptOrInvalidated
<1> QED  BY <1>1, <1>2, <1>3, <1>4, SimpleStep

LEMMA NextKeepsInductive == IndInv /\ [Next]_vars => IndInv' /\ RetiredStay
<1> SUFFICES ASSUME IndInv, [Next]_vars PROVE IndInv' /\ RetiredStay
  OBVIOUS
<1>1. CASE Request
  BY <1>1, RequestStep
<1>2. CASE Generation
  BY <1>2, ClusterStep, PublishStep, DropDraftStep DEF Generation
<1>3. CASE Staleness
  BY <1>3, ScanStep, SweepStep DEF Staleness
<1>4. CASE UNCHANGED vars
  <2>1. UNCHANGED <<mem, merge, draft, sweep, swept>>
    BY <1>4 DEF vars
  <2>2. RowSteps /\ PointersSame
    BY <2>1, RowsSame
  <2>3. MergeSteps /\ sweep' \in [Sweeps -> [Memories -> Answers \cup {None}]]
    BY <2>1 DEF MergeSteps, IndInv, TypeOK, KeptOrInvalidated
  <2> QED  BY <2>1, <2>2, <2>3, SimpleStep
<1> QED  BY <1>1, <1>2, <1>3, <1>4 DEF Next

-----------------------------------------------------------------------------
\* The inductive invariant, for any number of rows, sweeps and updates.
THEOREM LifecycleInvariant == Spec => []IndInv
<1>1. Init => IndInv
  BY InitIsInductive
<1>2. IndInv /\ [Next]_vars => IndInv'
  BY NextKeepsInductive
<1> QED  BY <1>1, <1>2, PTL DEF Spec

\* The tables hold rows of their types.
THEOREM LifecycleTyped == Spec => []TypeOK
<1>1. IndInv => TypeOK
  BY DEF IndInv
<1> QED  BY <1>1, LifecycleInvariant, PTL

\* No sequence of undos, merges and replacements makes superseded_by a cycle.
THEOREM SupersessionIsAcyclic == Spec => []Acyclic
<1>1. IndInv => Acyclic
  BY DEF IndInv
<1> QED  BY <1>1, LifecycleInvariant, PTL

\* A row with a successor is out of use, unless a sweep brought it back.
THEOREM SuccessorsAlwaysReplace == Spec => []SuccessorsReplace
<1>1. IndInv => SuccessorsReplace
  BY DEF IndInv
<1> QED  BY <1>1, LifecycleInvariant, PTL

\* supersedes and superseded_by always name each other.
THEOREM PointersAlwaysAgree == Spec => []PointersAgree
<1>1. IndInv => PointersAgree
  BY DEF IndInv
<1> QED  BY <1>1, LifecycleInvariant, PTL

\* The rows an accepted merge was made from are out of use.
THEOREM MergedRowsAreRetired == Spec => []MergedRowsRetired
<1>1. IndInv => MergedRowsRetired
  BY DEF IndInv
<1> QED  BY <1>1, LifecycleInvariant, PTL

\* A row whose confirmation was refused or came too late is out of use.
THEOREM RefusedRowsStayOut == Spec => []RefusedStaysOut
<1>1. IndInv => RefusedStaysOut
  BY DEF IndInv
<1> QED  BY <1>1, LifecycleInvariant, PTL

\* A retired row keeps its status and its successor in every step that does not
\* bring it back by a sweep.
THEOREM OnlySweepsBringBack == Spec => OnlySweepsRevive
<1>1. IndInv /\ [Next]_vars => [RetiredStay]_vars
  BY NextKeepsInductive
<1> QED  BY <1>1, LifecycleInvariant, PTL DEF Spec, OnlySweepsRevive


-----------------------------------------------------------------------------
(* The refinement of Succession.                                           *)

\* What the mapping shows of a row.
LEMMA Shown ==
  ASSUME NEW m \in Memories
  PROVE  /\ State[m] = IF mem[m].status \in Live THEN "in use" ELSE mem[m].status
         /\ Heir[m] = mem[m].by
  BY DEF State, Heir, IsLive

LEMMA StateNames ==
  ASSUME NEW m \in Memories
  PROVE  /\ State[m] = "in use" <=> mem[m].status \in Live \/ mem[m].status = "in use"
         /\ mem[m].status = "absent" => State[m] = "absent"
         /\ mem[m].status \in Retired => State[m] = mem[m].status
  BY Shown, StatusNames

\* A row that looks as before.
Alike(x) ==
  /\ mem'[x].by = mem[x].by
  /\ \/ mem'[x].status = mem[x].status
     \/ mem[x].status \in Live /\ mem'[x].status \in Live

LEMMA AlikeShown ==
  ASSUME NEW x \in Memories, Alike(x)
  PROVE  State'[x] = State[x] /\ Heir'[x] = Heir[x]
<1>1. /\ State'[x] = IF mem'[x].status \in Live THEN "in use" ELSE mem'[x].status
      /\ Heir'[x] = mem'[x].by
  BY DEF State, Heir, IsLive
<1> QED  BY <1>1, Shown DEF Alike

LEMMA LineKept ==
  ASSUME swept' = swept, \A x \in Memories : Alike(x)
  PROVE  UNCHANGED Line!vars
<1>1. \A x \in Memories : State'[x] = State[x] /\ Heir'[x] = Heir[x]
  BY AlikeShown
<1>2. State' = State /\ Heir' = Heir
  BY <1>1 DEF State, Heir
<1> QED  BY <1>2 DEF Line!vars

\* One row is added or retired, the others look as before.
LEMMA LineMoves ==
  ASSUME swept' = swept, NEW m \in Memories,
         \A x \in Memories \ {m} : Alike(x), mem'[m].by = mem[m].by,
         \/ mem[m].status = "absent" /\ mem'[m].status \in Live
         \/ mem[m].status \in Live /\ mem'[m].status \in Retired
  PROVE  Line!Next
<1>1. \A x \in Memories \ {m} : State'[x] = State[x] /\ Heir'[x] = Heir[x]
  BY AlikeShown
<1>2. /\ State'[m] = IF mem'[m].status \in Live THEN "in use" ELSE mem'[m].status
      /\ Heir'[m] = mem'[m].by
  BY DEF State, Heir, IsLive
<1>3. Heir' = Heir
  BY <1>1, <1>2, Shown DEF Heir
<1>4. CASE mem[m].status = "absent" /\ mem'[m].status \in Live
  <2>1. State[m] = "absent" /\ State'[m] = "in use"
    BY <1>2, <1>4, Shown, StatusNames
  <2>2. State' = [State EXCEPT ![m] = "in use"] /\ State' # State
    BY <1>1, <2>1 DEF State
  <2>3. Line!Add(m)
    BY <1>3, <2>1, <2>2 DEF Line!Add
  <2> QED  BY <2>2, <2>3 DEF Line!Next
<1>5. CASE mem[m].status \in Live /\ mem'[m].status \in Retired
  <2> DEFINE how == mem'[m].status
  <2>1. State[m] = "in use" /\ State'[m] = how
    BY <1>2, <1>5, Shown, StatusNames
  <2>0. how \in Retired /\ how # "in use"
    BY <1>5 DEF Retired
  <2> HIDE DEF how
  <2>2. State' = [State EXCEPT ![m] = how] /\ State' # State
    BY <1>1, <2>0, <2>1 DEF State
  <2>3. Line!Retire(m, how)
    BY <1>3, <2>1, <2>2 DEF Line!Retire
  <2> QED  BY <2>0, <2>2, <2>3 DEF Line!Next
<1> QED  BY <1>4, <1>5

LEMMA ReachesIsLeads ==
  ASSUME NEW x \in Memories, NEW y \in Memories, ~Leads(x, y)
  PROVE  ~Line!Reaches(x, y)
<1>1. PICK S \in SUBSET Memories :
        /\ x \in S /\ y \notin S
        /\ \A m \in S : mem[m].by \in Memories => mem[m].by \in S
  BY DEF Leads
<1>2. \A m \in S : Heir[m] = mem[m].by
  BY Shown
<1> QED  BY <1>1, <1>2 DEF Line!Reaches

\* The rows of From are superseded by h in one step.
LEMMA LineSucceeds ==
  ASSUME IndInv, swept' = swept, NEW From \in SUBSET Memories, NEW h \in Memories,
         From # {}, h \notin From,
         \A m \in From : /\ mem[m].status \in Live /\ ~Leads(h, m)
                         /\ mem'[m].status = "superseded" /\ mem'[m].by = h,
         mem[h].status \in Live \cup {"absent"}, mem'[h].status \in Live,
         mem'[h].by = mem[h].by,
         \A x \in Memories \ (From \cup {h}) : Alike(x)
  PROVE  Line!Next
<1>1. \A x \in Memories \ (From \cup {h}) : State'[x] = State[x] /\ Heir'[x] = Heir[x]
  BY AlikeShown
<1>2. \A x \in Memories :
        /\ State'[x] = IF mem'[x].status \in Live THEN "in use" ELSE mem'[x].status
        /\ Heir'[x] = mem'[x].by
  BY DEF State, Heir, IsLive
<1>3. \A m \in From : State'[m] = "superseded" /\ Heir'[m] = h
  <2> SUFFICES ASSUME NEW m \in From PROVE State'[m] = "superseded" /\ Heir'[m] = h
    OBVIOUS
  <2>1. "superseded" \notin Live /\ m \in Memories
    BY StatusNames
  <2>2. mem'[m].status = "superseded" /\ mem'[m].by = h
    OBVIOUS
  <2>3. /\ State'[m] = IF mem'[m].status \in Live THEN "in use" ELSE mem'[m].status
        /\ Heir'[m] = mem'[m].by
    BY <1>2, <2>1
  <2> QED  BY <2>1, <2>2, <2>3
<1>4. State'[h] = "in use" /\ Heir'[h] = Heir[h]
  BY <1>2, Shown
<1>5. \A m \in From : State[m] = "in use" /\ ~Line!Reaches(h, m)
  BY Shown, ReachesIsLeads
<1>6. State[h] \in {"absent", "in use"}
  BY Shown, StatusNames
<1>7. \A m \in From : Heir[m] = None \/ m \in swept
  <2>1. \A m \in From : mem[m].status # "superseded"
    BY StatusNames
  <2>2. \A m \in From : mem[m].by = None \/ m \in swept
    BY <2>1 DEF IndInv, SuccessorsReplace
  <2> QED  BY <2>2, Shown
<1>8. State' = [x \in Memories |-> IF x \in From THEN "superseded"
                                  ELSE IF x = h THEN "in use" ELSE State[x]]
  BY <1>1, <1>3, <1>4 DEF State
<1>9. Heir' = [x \in Memories |-> IF x \in From THEN h ELSE Heir[x]]
  BY <1>1, <1>3, <1>4 DEF Heir
<1>10. State' # State
  BY <1>3, <1>5
<1>11. Line!Succeed(From, h)
  BY <1>5, <1>6, <1>7, <1>8, <1>9 DEF Line!Succeed
<1> QED  BY <1>10, <1>11 DEF Line!Next

LEMMA LineInit == Init => Line!Init
<1> SUFFICES ASSUME Init PROVE Line!Init
  OBVIOUS
<1>1. mem = [m \in Memories |-> NoRow] /\ swept = {}
  BY DEF Init
<1>2. \A m \in Memories : State[m] = "absent" /\ Heir[m] = None
  BY <1>1, Shown, StatusNames, NoRowTyped
<1>3. State = [m \in Memories |-> "absent"] /\ Heir = [m \in Memories |-> None]
  BY <1>2 DEF State, Heir
<1> QED  BY <1>1, <1>3 DEF Line!Init

LEMMA LineAdds ==
  ASSUME IndInv, NEW m \in Memories, NEW r \in MemoryRow, r.status \in Live,
         r.by = None, mem[m].status = "absent", mem' = [mem EXCEPT ![m] = r],
         swept' = swept
  PROVE  Line!Next
<1>1. /\ mem'[m] = r /\ \A x \in Memories \ {m} : mem'[x] = mem[x]
      /\ mem[m].by = None
  BY NoRowTyped DEF IndInv, TypeOK, RowsOK
<1> QED  BY <1>1, LineMoves DEF Alike

\* A row in use gets another status and keeps its successor.
LEMMA LineUpdates ==
  ASSUME IndInv, NEW m \in Memories, mem[m].status \in Live,
         mem'[m].status \in Live \cup Retired, mem'[m].by = mem[m].by,
         \A x \in Memories \ {m} : Alike(x), swept' = swept
  PROVE  Line!Next \/ UNCHANGED Line!vars
<1>1. CASE mem'[m].status \in Live
  <2>1. Alike(m)
    BY <1>1 DEF Alike
  <2> QED  BY <2>1, LineKept
<1>2. CASE mem'[m].status \in Retired
  BY <1>2, LineMoves
<1> QED  BY <1>1, <1>2

\* The requests that write one row.
LEMMA LineWrites ==
  ASSUME IndInv, NEW m \in Memories,
         \/ Confirm(m) \/ Refuse(m) \/ AnswerTooLate(m)
         \/ Approve(m) \/ Reject(m) \/ MakePrivate(m) \/ Assign(m)
         \/ Expire(m) \/ Unexpire(m)
  PROVE  Line!Next \/ UNCHANGED Line!vars
<1>t. mem \in [Memories -> MemoryRow]
  BY DEF IndInv, TypeOK
<1>1. /\ mem[m].status \in Live /\ swept' = swept
      /\ \A x \in Memories \ {m} : mem'[x] = mem[x]
      /\ mem'[m].by = mem[m].by /\ mem'[m].status \in Live \cup Retired
  <2>1. CASE \E status \in {"active", "rejected"}, answer \in Answers :
               Settle(m, status, answer)
    BY <1>t, <2>1, StatusNames DEF Settle, Confirmable, MemoryRow
  <2>2. CASE \E status \in Live \cup Retired, answer \in Answers :
               Reviewed(m, status, answer)
    BY <1>t, <2>2 DEF Reviewed, IsLive, MemoryRow
  <2>3. CASE Expire(m)
    BY <1>t, <2>3 DEF Expire, IsLive, MemoryRow
  <2>4. CASE Unexpire(m)
    BY <1>t, <2>4, StatusNames DEF Unexpire, IsLive, MemoryRow
  <2>5. /\ {"active", "rejected", "private_only"} \subseteq Live \cup Retired
        /\ {"confirmed", "rejected", "expired", "pending"} \subseteq Answers
    BY StatusNames DEF Answers
  <2>6. Assign(m) => \E status \in Live \cup Retired, answer \in Answers :
                       Reviewed(m, status, answer)
    BY <2>5 DEF Assign, Reviewed, IsLive
  <2> QED  BY <2>1, <2>2, <2>3, <2>4, <2>5, <2>6
           DEF Confirm, Refuse, AnswerTooLate, Approve, Reject, MakePrivate
<1>2. \A x \in Memories \ {m} : Alike(x)
  BY <1>1 DEF Alike
<1> QED  BY <1>1, <1>2, LineUpdates

\* A candidate that is outdated is parked, and a parked row is in use.
LEMMA OutdatedAlike ==
  ASSUME IndInv, NEW S, NEW x \in Memories, x \in Derived(S),
         mem'[x] = Outdated(mem[x])
  PROVE  Alike(x)
<1>1. mem[x].status \in Live /\ mem[x] \in MemoryRow
  BY StatusNames DEF Derived, IndInv, TypeOK
<1>2. Outdated(mem[x]).status = "stale" /\ Outdated(mem[x]).by = mem[x].by
  BY <1>1 DEF Outdated, MemoryRow
<1> QED  BY <1>1, <1>2, StatusNames DEF Alike

\* Correct and Forget.
LEMMA LineOutdates ==
  ASSUME IndInv, NEW m \in Memories, Correct(m) \/ Forget(m)
  PROVE  Line!Next \/ UNCHANGED Line!vars
<1>t. mem[m] \in MemoryRow
  BY DEF IndInv, TypeOK
<1>1. PICK r : /\ \/ r = [mem[m] EXCEPT !.status = "active", !.rev = @ + 1]
                  \/ r = [mem[m] EXCEPT !.status = "superseded", !.rev = @ + 1]
               /\ mem' = [x \in Memories |-> IF x = m THEN r
                             ELSE IF x \in Derived({m}) THEN Outdated(mem[x]) ELSE mem[x]]
               /\ mem[m].status \in Live /\ swept' = swept
  BY DEF Correct, Forget, IsLive
<1>2. r.status \in Live \cup Retired /\ r.by = mem[m].by
  BY <1>t, <1>1, StatusNames DEF MemoryRow
<1>3. /\ mem'[m] = r
      /\ \A x \in Memories \ {m} :
           \/ mem'[x] = mem[x]
           \/ x \in Derived({m}) /\ mem'[x] = Outdated(mem[x])
  BY <1>1
<1>4. \A x \in Memories \ {m} : Alike(x)
  <2> SUFFICES ASSUME NEW x \in Memories \ {m} PROVE Alike(x)
    OBVIOUS
  <2>1. CASE mem'[x] = mem[x]
    BY <2>1 DEF Alike
  <2>2. CASE x \in Derived({m}) /\ mem'[x] = Outdated(mem[x])
    BY <2>2, OutdatedAlike
  <2> QED  BY <1>3, <2>1, <2>2
<1> QED  BY <1>1, <1>2, <1>3, <1>4, LineUpdates

LEMMA LineUndoes ==
  ASSUME IndInv, NEW m \in Memories, NEW s \in Memories, Undo(m, s)
  PROVE  Line!Next
<1>t. mem[m] \in MemoryRow /\ mem[s] \in MemoryRow
  BY DEF IndInv, TypeOK
<1>1. /\ mem[m].status \in Live /\ s # m /\ mem[s].status \in Live /\ ~Leads(s, m)
      /\ swept' = swept
      /\ mem'[m] = Superseded(mem[m], s)
      /\ mem'[s] = [mem[s] EXCEPT !.sup = m, !.rev = @ + 1]
      /\ \A x \in Memories \ {m, s} :
           \/ mem'[x] = mem[x]
           \/ x \in Derived({m}) /\ mem'[x] = Outdated(mem[x])
  BY StatusNames DEF Undo, IsLive, MaySucceed
<1>2. /\ mem'[m].status = "superseded" /\ mem'[m].by = s
      /\ mem'[s].status \in Live /\ mem'[s].by = mem[s].by
      /\ mem[s].status \in Live \cup {"absent"}
  BY <1>t, <1>1 DEF Superseded, MemoryRow
<1>3. \A x \in Memories \ {m, s} : Alike(x)
  <2> SUFFICES ASSUME NEW x \in Memories \ {m, s} PROVE Alike(x)
    OBVIOUS
  <2>1. CASE mem'[x] = mem[x]
    BY <2>1 DEF Alike
  <2>2. CASE x \in Derived({m}) /\ mem'[x] = Outdated(mem[x])
    BY <2>2, OutdatedAlike
  <2> QED  BY <1>1, <2>1, <2>2
<1> DEFINE From == {m}
<1>4. /\ From \in SUBSET Memories /\ From # {} /\ s \notin From
      /\ \A x \in From : /\ mem[x].status \in Live /\ ~Leads(s, x)
                          /\ mem'[x].status = "superseded" /\ mem'[x].by = s
      /\ \A x \in Memories \ (From \cup {s}) : Alike(x)
  BY <1>1, <1>2, <1>3
<1> HIDE DEF From
<1>5. swept' = swept
  BY <1>1
<1> QED  BY <1>2, <1>4, <1>5, LineSucceeds

LEMMA LineReplaces ==
  ASSUME IndInv, NEW m \in Memories, NEW n \in Memories, Replace(m, n)
  PROVE  Line!Next
<1>t. mem \in [Memories -> MemoryRow] /\ RowsOK
  BY DEF IndInv, TypeOK
<1>1. /\ mem[m].status \in Live /\ mem[n].status = "absent" /\ swept' = swept
      /\ mem[n].by = None /\ n # m
  BY <1>t, StatusNames, NoRowTyped DEF Replace, IsLive, RowsOK
<1>2. /\ mem'[n].status = "active" /\ mem'[n].by = None
      /\ mem'[m].status = "superseded" /\ mem'[m].by = n
      /\ \A x \in Memories \ {m, n} : mem'[x] = mem[x]
  BY <1>t, <1>1, NoRowTyped DEF Replace, MemoryRow
<1>3. ~Leads(n, m)
  <2>1. {n} \in SUBSET Memories /\ \A x \in {n} : mem[x].by \notin Memories
    BY <1>1, NullIsNoValue
  <2> QED  BY <1>1, <2>1 DEF Leads
<1>4. \A x \in Memories \ {m, n} : Alike(x)
  BY <1>2 DEF Alike
<1> DEFINE From == {m}
<1>5. /\ From \in SUBSET Memories /\ From # {} /\ n \notin From
      /\ \A x \in From : /\ mem[x].status \in Live /\ ~Leads(n, x)
                          /\ mem'[x].status = "superseded" /\ mem'[x].by = n
      /\ \A x \in Memories \ (From \cup {n}) : Alike(x)
  BY <1>1, <1>2, <1>3, <1>4
<1> HIDE DEF From
<1> QED  BY <1>1, <1>2, <1>5, LineSucceeds, StatusNames

\* Members that a merge supersedes, and none of the others.
LEMMA LineMerges ==
  ASSUME IndInv, NEW c \in Memories, Accept(c)
  PROVE  Line!Next \/ UNCHANGED Line!vars
<1> DEFINE R == Replaced(c)
           O == Derived(R) \ {c}
           r == [mem[c] EXCEPT !.status = "active", !.rev = @ + 1,
                   !.sup = IF merge[c].survivor = None THEN @ ELSE merge[c].survivor]
<1>t. mem \in [Memories -> MemoryRow] /\ merge[c] \in MergeRecord
  BY DEF IndInv, TypeOK
<1>0. R \subseteq Memories
  BY <1>t DEF Replaced, MergeRecord
<1>1. /\ mem[c].status \in Live /\ swept' = swept
      /\ \A m \in R : mem[m].status \in Live /\ ~Leads(c, m)
      /\ mem' = [x \in Memories |-> IF x = c THEN r
                   ELSE IF x \in R THEN Superseded(mem[x], c)
                   ELSE IF x \in O THEN Outdated(mem[x]) ELSE mem[x]]
  BY StatusNames DEF Accept, IsLive
<1>2. c \notin R
  BY <1>1 DEF Leads
<1>3. r.status = "active" /\ r.by = mem[c].by
  BY <1>t DEF MemoryRow
<1>o. \A x \in O : x \in Derived(R)
  OBVIOUS
<1> HIDE DEF R, O, r
<1>4. /\ mem'[c] = r /\ \A m \in R : mem'[m] = Superseded(mem[m], c)
      /\ \A x \in Memories \ (R \cup {c}) :
           \/ mem'[x] = mem[x]
           \/ x \in Derived(R) /\ mem'[x] = Outdated(mem[x])
  BY <1>0, <1>1, <1>2, <1>o
<1>5. \A m \in R : mem'[m].status = "superseded" /\ mem'[m].by = c
  BY <1>t, <1>0, <1>4 DEF Superseded, MemoryRow
<1>6. \A x \in Memories \ (R \cup {c}) : Alike(x)
  <2> SUFFICES ASSUME NEW x \in Memories \ (R \cup {c}) PROVE Alike(x)
    OBVIOUS
  <2>1. CASE mem'[x] = mem[x]
    BY <2>1 DEF Alike
  <2>2. CASE x \in Derived(R) /\ mem'[x] = Outdated(mem[x])
    BY <2>2, OutdatedAlike
  <2> QED  BY <1>4, <2>1, <2>2
<1>7. mem'[c].status \in Live /\ mem'[c].by = mem[c].by
  BY <1>3, <1>4, StatusNames
<1>8. CASE R = {}
  <2>1. \A x \in Memories : Alike(x)
    BY <1>1, <1>6, <1>7, <1>8 DEF Alike
  <2> QED  BY <1>1, <2>1, LineKept
<1>9. CASE R # {}
  BY <1>0, <1>1, <1>2, <1>5, <1>6, <1>7, <1>9, LineSucceeds
<1> QED  BY <1>8, <1>9

\* A sweep revives the retired rows among those it marks.
LEMMA LineRevives ==
  ASSUME IndInv, NEW s \in Sweeps, Mark(s)
  PROVE  Line!Next \/ UNCHANGED Line!vars
<1> DEFINE B == {m \in Marked(s) : mem[m].status \in Retired}
<1>t. mem \in [Memories -> MemoryRow]
  BY DEF IndInv, TypeOK
<1>0. B \subseteq Memories /\ \A m \in B : mem[m].status \in Retired
  BY DEF Marked
<1>1. /\ swept' = swept \cup B
      /\ \A m \in Memories : mem'[m].by = mem[m].by
      /\ \A m \in Marked(s) : mem'[m].status = "stale"
      /\ \A m \in Memories \ Marked(s) : mem'[m] = mem[m]
  BY <1>t DEF Mark, Marked, MemoryRow
<1>2. \A m \in Marked(s) \ B : mem[m].status \in Live
  <2>1. \A m \in Marked(s) : m \in Memories /\ mem[m].status # "absent"
    BY DEF Marked, IndInv, PlansOK
  <2>2. \A m \in Memories : mem[m].status \in Live \cup Retired \cup {"absent"}
    BY <1>t, RowFields
  <2> QED  BY <2>1, <2>2
<1>3. \A m \in B : m \in Marked(s)
  OBVIOUS
<1> HIDE DEF B
<1>4. \A x \in Memories \ B : Alike(x)
  BY <1>1, <1>2, StatusNames DEF Alike
<1>5. CASE B = {}
  BY <1>1, <1>4, <1>5, LineKept
<1>6. CASE B # {}
  <2>1. \A x \in Memories \ B : State'[x] = State[x]
    BY <1>4, AlikeShown
  <2>2. \A x \in Memories : /\ State'[x] = IF mem'[x].status \in Live THEN "in use"
                                           ELSE mem'[x].status
                            /\ Heir'[x] = mem'[x].by
    BY DEF State, Heir, IsLive
  <2>3. \A m \in B : State[m] \in Retired /\ State'[m] = "in use" /\ State'[m] # State[m]
    <3>1. "in use" \notin Retired
      BY DEF Retired
    <3>2. \A m \in B : State[m] \in Retired
      BY <1>0, Shown, StatusNames
    <3>3. \A m \in B : State'[m] = "in use"
      BY <1>0, <1>1, <1>3, <2>2, StatusNames
    <3> QED  BY <3>1, <3>2, <3>3
  <2>4. State' = [x \in Memories |-> IF x \in B THEN "in use" ELSE State[x]]
    BY <2>1, <2>3 DEF State
  <2>5. Heir' = Heir
    BY <1>1, <2>2, Shown DEF Heir
  <2>6. Line!Revive(B) /\ State' # State
    BY <1>1, <1>6, <2>3, <2>4, <2>5 DEF Line!Revive
  <2> QED  BY <1>0, <2>6 DEF Line!Next
<1> QED  BY <1>5, <1>6

LEMMA LineStep == IndInv /\ [Next]_vars => [Line!Next]_(Line!vars)
<1> SUFFICES ASSUME IndInv, [Next]_vars PROVE Line!Next \/ UNCHANGED Line!vars
  OBVIOUS
<1>1. ASSUME UNCHANGED <<mem, swept>>
      PROVE  UNCHANGED Line!vars
  BY <1>1, LineKept DEF Alike
<1>2. ASSUME NEW m \in Memories, NEW status \in Live, NEW conf \in {"none", "pending"},
             New(m, status, conf)
      PROVE  Line!Next
  <2> DEFINE r == [NoRow EXCEPT !.status = status, !.conf = conf]
  <2>1. r \in MemoryRow /\ r.status = status /\ r.by = None
    BY DEF NoRow, MemoryRow, Answers
  <2>2. mem[m].status = "absent" /\ mem' = [mem EXCEPT ![m] = r] /\ swept' = swept
    BY <1>2 DEF New
  <2> HIDE DEF r
  <2> QED  BY <2>1, <2>2, LineAdds
<1>3. ASSUME NEW c \in Memories, PublishDraft(c)
      PROVE  Line!Next
  <2> DEFINE r == [NoRow EXCEPT !.status = "candidate"]
  <2>1. r \in MemoryRow /\ r.status = "candidate" /\ r.by = None
    <3>1. "candidate" \in Live \cup Retired \cup {"absent"}
      BY StatusNames
    <3> QED  BY <3>1, NoRowTyped DEF MemoryRow
  <2>2. mem[c].status = "absent" /\ mem' = [mem EXCEPT ![c] = r] /\ swept' = swept
    BY <1>3 DEF PublishDraft
  <2> HIDE DEF r
  <2> QED  BY <2>1, <2>2, LineAdds, StatusNames
<1>4. CASE Request
  <2>1. ASSUME NEW m \in Memories, Commit(m) \/ AskToConfirm(m) \/ ProposeReview(m)
        PROVE  Line!Next
    BY <1>2, <2>1, StatusNames DEF Commit, AskToConfirm, ProposeReview
  <2> QED  BY <1>4, <2>1, LineWrites, LineOutdates, LineMerges, LineUndoes, LineReplaces
           DEF Request
<1>5. CASE Generation
  <2>1. ASSUME NEW S \in SUBSET Memories, NEW x \in Memories \cup {None}, Cluster(S, x)
        PROVE  UNCHANGED Line!vars
    BY <1>1, <2>1 DEF Cluster
  <2>2. ASSUME DropDraft PROVE UNCHANGED Line!vars
    BY <1>1, <2>2 DEF DropDraft
  <2> QED  BY <1>3, <1>5, <2>1, <2>2 DEF Generation
<1>6. CASE Staleness
  <2>1. ASSUME NEW s \in Sweeps, NEW S \in SUBSET Memories, Scan(s, S)
        PROVE  UNCHANGED Line!vars
    BY <1>1, <2>1 DEF Scan
  <2>2. ASSUME NEW s \in Sweeps, DropSweep(s) PROVE UNCHANGED Line!vars
    BY <1>1, <2>2 DEF DropSweep
  <2> QED  BY <1>6, <2>1, <2>2, LineRevives DEF Staleness
<1> QED  BY <1>1, <1>4, <1>5, <1>6 DEF Next, vars

\* Every behaviour of the memory rows is one of Succession, for any number of rows,
\* merges, updates and sweeps.
THEOREM MemoriesImplementSuccession == Spec => ImplementsSuccession
  BY LineInit, LineStep, LifecycleInvariant, PTL
  DEF Spec, ImplementsSuccession, Line!Spec
=============================================================================

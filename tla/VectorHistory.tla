---------------------------- MODULE VectorHistory ----------------------------
(***************************************************************************)
(* VectorCache with a history variable: what the row of each memory has    *)
(* held since the search that a process runs now began.  The variable only *)
(* records; every step of VectorCache is a step here.                      *)
(***************************************************************************)
EXTENDS VectorCache

VARIABLE seen  \* by process and memory: vectors the row has shown to a scan

history == <<vars, seen>>

\* What a scan of the table finds for a memory.
Shown(m) == IF row[m].live THEN row[m].vec ELSE None

\* A search begins with the table of its first statement; nothing is kept
\* between searches.
Observe ==
  seen' = [p \in Processes |-> [m \in Memories |->
             CASE query'[p].at = "idle" -> {}
               [] query[p].at = "idle" /\ query'[p].at # "idle" -> {Shown(m)}
               [] OTHER -> seen[p][m] \cup {Shown(m)'}]]

HistoryInit ==
  /\ Init
  /\ seen = [p \in Processes |-> [m \in Memories |-> {}]]

\* Next /\ Observe, with the actions apart.
HistoryNext ==
  \/ \E m \in Memories, t \in Texts :
       \/ Create(m, t) /\ Observe
       \/ Refresh(m, t) /\ Observe
  \/ \E m \in Memories :
       \/ Archive(m) /\ Observe
       \/ Redact(m) /\ Observe
  \/ \E e \in Embedders, m \in Memories, x \in Models : Prepare(e, m, x) /\ Observe
  \/ \E e \in Embedders :
       \/ Store(e) /\ Observe
       \/ Abandon(e) /\ Observe
  \/ \E p \in Processes :
       \/ Validate(p) /\ Observe
       \/ Count(p) /\ Observe
       \/ Build(p) /\ Observe
       \/ Select(p) /\ Observe
       \/ Recount(p) /\ Observe
       \/ Append(p) /\ Observe
       \/ Rank(p) /\ Observe
       \/ Drop(p) /\ Observe

HistorySpec == HistoryInit /\ [][HistoryNext]_history

-----------------------------------------------------------------------------
\* A search reads a memory as one reads a regular register, whatever is written,
\* cleared or archived while its statements run: every candidate had a vector at
\* some moment of the search, and it is ranked by what its row held at some
\* moment of the search (or left out, if its row had none at one).  No candidate
\* is ranked by a vector that was lost before the search began.
RankingRegular ==
  \A p \in Processes : query[p].at = "rank" =>
    \A m \in query[p].found : /\ seen[p][m] \ {None} # {}
                              /\ entry[p].vec[m] \in seen[p][m]

-----------------------------------------------------------------------------
(* The inductive invariant of the proofs.                                  *)

\* What a search with entry e and query q has to do with s, what the rows have
\* shown since it began: the candidates were embedded then, and what is resident
\* while the search uses it, and may be a candidate's, was stored then.
Recorded(e, q, s) ==
  /\ s \in [Memories -> SUBSET (Vectors \cup {None})]
  /\ q.at # "idle" =>
       /\ \A m \in Memories : Shown(m) \in s[m]
       /\ \A m \in q.found : s[m] \ {None} # {}
  /\ q.at = "select" \/ Chosen(q) =>
       \A m \in Memories :
         e.vec[m] # None /\ (row[m].live \/ m \in q.found) => e.vec[m] \in s[m]
  /\ q.at = "rank" => \A m \in q.found : e.vec[m] = None => None \in s[m]

SeenOK == \A p \in Processes : Recorded(entry[p], query[p], seen[p])

HistoryInv == IndInv /\ SeenOK
=============================================================================

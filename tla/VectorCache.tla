----------------------------- MODULE VectorCache -----------------------------
(***************************************************************************)
(* The embedding of a memory, in the SQLite profile: made from a text that *)
(* was read earlier, stored by compare-and-set, cleared with the text it   *)
(* was made from, and kept by every process in a resident cache that       *)
(* vector search ranks with.                                               *)
(*                                                                         *)
(* A write takes the writer lock before it reads whether the row has a     *)
(* vector, and commits the row and the stamp together: it is one action.   *)
(* A search runs under its entry's lock, but its statements run in         *)
(* autocommit: each is an action of its own, on its own snapshot, and      *)
(* writes of any process come between them.                                *)
(*                                                                         *)
(* A vector stands for what it was computed from, which is what its        *)
(* signature says: the two are written and cleared together.               *)
(*                                                                         *)
(* Definitions whose name starts with Bad are faulty variants, used by no  *)
(* specification.                                                          *)
(***************************************************************************)
EXTENDS Naturals, FiniteSets

CONSTANTS
  Memories,   \* memory ids
  Texts,      \* normalised texts of a memory
  Models,     \* provider, model and endpoint an embedding is made by
  Embedders,  \* embedding passes under way: after a commit, and reindex
  Processes,  \* processes that search; each has one cache entry
  None,       \* SQL NULL, and a vector that is not resident
  MaxStamp    \* bound on the rewrites of the stamp

Vectors == [text : Texts, model : Models]

ASSUME BoundIsNatural == MaxStamp \in Nat
ASSUME MemoriesAreFinite == IsFiniteSet(Memories)
ASSUME NullIsNoValue == None \notin Texts \cup {"redacted"} /\ None \notin Vectors

VARIABLES
  row,    \* the memories table: liveness, text and embedding
  stamp,  \* embedding_stamp; a fresh uuid is a number never used before
  job,    \* by embedder: the memory, and the vector being made of what it read
  entry,  \* by process: the token and the vectors of its _VectorCacheEntry
  query   \* by process: where its search is and what it has read

vars == <<row, stamp, job, entry, query>>

NoRow   == [live |-> FALSE, text |-> None, vec |-> None]
Cold    == [token |-> 0, vec |-> [m \in Memories |-> None]]
NoQuery == [at |-> "idle", token |-> 0, rows |-> 0, fresh |-> FALSE, found |-> {}]

\* The stamp is seeded before any entry is built: no entry has token 0 then.
Init ==
  /\ row = [m \in Memories |-> NoRow]
  /\ stamp = 1
  /\ job = [e \in Embedders |-> None]
  /\ entry = [p \in Processes |-> Cold]
  /\ query = [p \in Processes |-> NoQuery]

\* Rows the cache may hold: the base predicate of every scan.
Embedded == {m \in Memories : row[m].live /\ row[m].vec # None}
Resident(p) == {m \in Memories : entry[p].vec[m] # None}

-----------------------------------------------------------------------------
(* Writes.                                                                 *)

\* bump_embedding_stamp, for a write that changes or destroys a vector.
Bump(lost) ==
  IF lost THEN stamp < MaxStamp /\ stamp' = stamp + 1 ELSE stamp' = stamp

\* Ids are never used again.
Create(m, t) ==
  /\ row[m] = NoRow
  /\ row' = [row EXCEPT ![m] = [NoRow EXCEPT !.live = TRUE, !.text = t]]
  /\ UNCHANGED <<stamp, job, entry, query>>

\* A correction, or a review that accepts the row: the text is written and the
\* vector is cleared in one transaction.
BadRefresh(m, t) ==
  /\ row[m].live
  /\ row' = [row EXCEPT ![m].text = t, ![m].vec = None]
  /\ UNCHANGED <<stamp, job, entry, query>>

Refresh(m, t) ==
  /\ row[m].live
  /\ Bump(row[m].vec # None)
  /\ row' = [row EXCEPT ![m].text = t, ![m].vec = None]
  /\ UNCHANGED <<job, entry, query>>

\* A status of "archived" deletes the row softly and leaves its vector.
Archive(m) ==
  /\ row[m].live
  /\ row' = [row EXCEPT ![m].live = FALSE]
  /\ UNCHANGED <<stamp, job, entry, query>>

\* redact_memory_bundle and redact_memory_content, of archived rows too.
Redact(m) ==
  /\ row[m].text # None
  /\ Bump(row[m].vec # None)
  /\ row' = [row EXCEPT ![m] = [NoRow EXCEPT !.text = "redacted"]]
  /\ UNCHANGED <<job, entry, query>>

-----------------------------------------------------------------------------
(* Embedding: read, computed with no transaction open, stored.             *)

\* list_memories_missing_embeddings, and the row of a commit, which has no
\* vector: no vector, or not one of this text by this model.
Missing(m, x) ==
  /\ row[m].live
  /\ row[m].vec # [text |-> row[m].text, model |-> x]

Prepare(e, m, x) ==
  /\ job[e] = None
  /\ Missing(m, x)
  /\ job' = [job EXCEPT ![e] =
               [memory |-> m, vec |-> [text |-> row[m].text, model |-> x]]]
  /\ UNCHANGED <<row, stamp, entry, query>>

BadFits(m, v) == row[m].live
\* The condition of the UPDATE: the row's digest is that of the text that was
\* embedded.
Fits(m, v) == row[m].live /\ row[m].text = v.text

\* update_memory_embedding
Store(e) ==
  /\ job[e] # None
  /\ LET m == job[e].memory
         v == job[e].vec
     IN IF Fits(m, v)
        THEN /\ Bump(row[m].vec # None)
             /\ row' = [row EXCEPT ![m].vec = v]
        ELSE UNCHANGED <<row, stamp>>
  /\ job' = [job EXCEPT ![e] = None]
  /\ UNCHANGED <<entry, query>>

\* The provider refused, or the pass was killed.
Abandon(e) ==
  /\ job[e] # None
  /\ job' = [job EXCEPT ![e] = None]
  /\ UNCHANGED <<row, stamp, entry, query>>

-----------------------------------------------------------------------------
(* A search with the resident vectors: cached_vector_ranked.               *)

BadValidate(p) ==
  /\ query[p].at = "idle"
  /\ query' = [query EXCEPT ![p] =
       [NoQuery EXCEPT !.token = stamp,
          !.at = IF entry[p].token = 0 THEN "count" ELSE "select"]]
  /\ UNCHANGED <<row, stamp, job, entry>>

\* The token is read; another one means that the entry must be built again.
Validate(p) ==
  /\ query[p].at = "idle"
  /\ query' = [query EXCEPT ![p] =
       [NoQuery EXCEPT !.token = stamp,
          !.at = IF entry[p].token # stamp THEN "count" ELSE "select"]]
  /\ UNCHANGED <<row, stamp, job, entry>>

\* The number of rows to make room for.
Count(p) ==
  /\ query[p].at = "count"
  /\ query' = [query EXCEPT ![p].at = "build", ![p].rows = Cardinality(Embedded)]
  /\ UNCHANGED <<row, stamp, job, entry>>

\* _rebuild_entry: the scan, in any order, stops when the room is full.  The
\* entry gets the token that was read before the scan.
Build(p) ==
  /\ query[p].at = "build"
  /\ \E S \in SUBSET Embedded :
       /\ Cardinality(S) <= query[p].rows
       /\ Cardinality(S) < query[p].rows => S = Embedded
       /\ entry' = [entry EXCEPT ![p] =
            [token |-> query[p].token,
             vec |-> [m \in Memories |-> IF m \in S THEN row[m].vec ELSE None]]]
  /\ query' = [query EXCEPT ![p].fresh = TRUE,
                 ![p].at = IF query[p].fresh THEN "append" ELSE "select"]
  /\ UNCHANGED <<row, stamp, job>>

\* The candidates: embedded rows that pass the query's filters, whatever they
\* are.  Few of them beside many resident rows may mean that most are dead.
Select(p) ==
  /\ query[p].at = "select"
  /\ \E S \in SUBSET Embedded :
       query' = [query EXCEPT ![p].found = S, ![p].at =
                   IF ~query[p].fresh /\ 2 * Cardinality(S) < Cardinality(Resident(p))
                   THEN "recount" ELSE "append"]
  /\ UNCHANGED <<row, stamp, job, entry>>

\* Compaction, with the token read at the start.
Recount(p) ==
  /\ query[p].at = "recount"
  /\ query' = IF 2 * Cardinality(Embedded) < Cardinality(Resident(p))
              THEN [query EXCEPT ![p].at = "build", ![p].fresh = TRUE,
                                 ![p].rows = Cardinality(Embedded)]
              ELSE [query EXCEPT ![p].at = "append"]
  /\ UNCHANGED <<row, stamp, job, entry>>

BadAppended(p) == {}
\* Candidates the entry has not seen and that still have a vector.
Appended(p) == (query[p].found \ Resident(p)) \cap Embedded

Append(p) ==
  /\ query[p].at = "append"
  /\ entry' = [entry EXCEPT ![p].vec =
                 [m \in Memories |-> IF m \in Appended(p) THEN row[m].vec ELSE @[m]]]
  /\ query' = [query EXCEPT ![p].at = "rank"]
  /\ UNCHANGED <<row, stamp, job>>

Rank(p) ==
  /\ query[p].at = "rank"
  /\ query' = [query EXCEPT ![p] = NoQuery]
  /\ UNCHANGED <<row, stamp, job, entry>>

\* The entry is over its cap, the cache was turned off, or a statement failed:
\* the entry goes and the search runs without it.
Drop(p) ==
  /\ query[p].at \notin {"idle", "rank"}
  /\ entry' = [entry EXCEPT ![p] = Cold]
  /\ query' = [query EXCEPT ![p] = NoQuery]
  /\ UNCHANGED <<row, stamp, job>>

-----------------------------------------------------------------------------
Write ==
  \/ \E m \in Memories, t \in Texts : Create(m, t) \/ Refresh(m, t)
  \/ \E m \in Memories : Archive(m) \/ Redact(m)

Embed == \E e \in Embedders :
  \/ \E m \in Memories, x \in Models : Prepare(e, m, x)
  \/ Store(e) \/ Abandon(e)

Search == \E p \in Processes :
  \/ Validate(p) \/ Count(p) \/ Build(p) \/ Select(p)
  \/ Recount(p) \/ Append(p) \/ Rank(p) \/ Drop(p)

Next == Write \/ Embed \/ Search

Spec == Init /\ [][Next]_vars

-----------------------------------------------------------------------------
(* Properties.                                                             *)

Phases == {"idle", "count", "build", "select", "recount", "append", "rank"}
Row == [live : BOOLEAN, text : Texts \cup {None, "redacted"},
        vec : Vectors \cup {None}]

\* The tables and the entries hold values of their types.
TypeOK ==
  /\ row \in [Memories -> Row]
  /\ stamp \in Nat \ {0}
  /\ job \in [Embedders -> [memory : Memories, vec : Vectors] \cup {None}]
  /\ entry \in [Processes -> [token : Nat, vec : [Memories -> Vectors \cup {None}]]]
  /\ query \in [Processes -> [at : Phases, token : Nat, rows : Nat,
                              fresh : BOOLEAN, found : SUBSET Memories]]

\* A stored vector is of the text its row has now, through corrections,
\* redactions and answers of the provider that come late.
VectorIsOfText ==
  \A m \in Memories : row[m].vec # None => row[m].vec.text = row[m].text

\* An entry whose token is current holds no dead vector of a live row: the
\* writes that do not rewrite the stamp only add vectors it does not have.
ResidentIsCurrent ==
  \A p \in Processes : entry[p].token = stamp =>
    \A m \in Resident(p) : row[m].live => entry[p].vec[m] = row[m].vec

\* A ranking sees what a scan of the table would: unless a vector was lost
\* while the search ran, every candidate is ranked, and by its stored vector.
RankingExact ==
  \A p \in Processes : query[p].at = "rank" /\ query[p].token = stamp =>
    \A m \in query[p].found : row[m].live => entry[p].vec[m] = row[m].vec

-----------------------------------------------------------------------------
(* The inductive invariant of the proofs.                                  *)

\* A live row has a text.
TextsOK == \A m \in Memories : row[m].live => row[m].text \in Texts

\* A search past its choice of candidates, or building for one it has made.
Chosen(q) == \/ q.at \in {"recount", "append", "rank"}
             \/ q.at = "build" /\ q.fresh

\* What a search may rely on between its statements, with entry e and query q:
\* it knows no id that will be created; its tokens are not from the future; a
\* current entry holds no dead vector; it ranks with the token it validated; and
\* while that token is current no candidate has lost its vector.
Sound(e, q) ==
  /\ \A m \in Memories : e.vec[m] # None \/ m \in q.found => row[m].text # None
  /\ e.token <= stamp /\ q.token <= stamp
  /\ e.token = stamp =>
       \A m \in Memories : e.vec[m] # None /\ row[m].live => e.vec[m] = row[m].vec
  /\ q.at = "count" => ~q.fresh
  /\ Chosen(q) \/ q.at = "select" => e.token = q.token
  /\ Chosen(q) /\ q.token = stamp =>
       \A m \in q.found : row[m].live =>
         row[m].vec # None /\ (q.at = "rank" => e.vec[m] # None)

IndInv ==
  /\ TypeOK /\ TextsOK /\ VectorIsOfText
  /\ \A p \in Processes : Sound(entry[p], query[p])

=============================================================================

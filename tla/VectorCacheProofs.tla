-------------------------- MODULE VectorCacheProofs --------------------------
(***************************************************************************)
(* Theorems about VectorCache: stored vectors are of the stored texts, no  *)
(* current entry holds a dead vector, and a ranking misses no candidate.   *)
(* WriteStep says what a write of one row must do to the stamp, SearchStep *)
(* what one step of a search must leave behind; each action is shown to    *)
(* do so.  With the history of the rows beside it: a candidate is ranked   *)
(* by what its row held at some moment of the search.                      *)
(***************************************************************************)
EXTENDS VectorHistory, FiniteSetTheorems, TLAPS

Entry == [token : Nat, vec : [Memories -> Vectors \cup {None}]]
Query == [at : Phases, token : Nat, rows : Nat, fresh : BOOLEAN,
          found : SUBSET Memories]

LEMMA EmbeddedIsFinite ==
  /\ Cardinality(Embedded) \in Nat
  /\ Embedded \subseteq Memories
<1>1. Embedded \subseteq Memories
  BY DEF Embedded
<1> QED  BY <1>1, MemoriesAreFinite, FS_Subset, FS_CardinalityType

LEMMA InitIsInductive == Init => IndInv
<1> SUFFICES ASSUME Init PROVE IndInv
  OBVIOUS
<1> USE NullIsNoValue DEF Init, NoRow, Cold, NoQuery, Row, Phases
<1>1. TypeOK
  BY DEF TypeOK
<1>2. TextsOK /\ VectorIsOfText
  BY DEF TextsOK, VectorIsOfText
<1>3. ASSUME NEW p \in Processes  PROVE Sound(entry[p], query[p])
  BY DEF Sound, Chosen
<1> QED  BY <1>1, <1>2, <1>3 DEF IndInv

-----------------------------------------------------------------------------
(* Writes.                                                                 *)

\* A write of one row keeps the invariant if the row's vector is of its text,
\* if nothing comes back to life, and if the loss of a vector is announced.
LEMMA WriteStep ==
  ASSUME IndInv, UNCHANGED <<entry, query>>,
         job' \in [Embedders -> [memory : Memories, vec : Vectors] \cup {None}],
         NEW m \in Memories, NEW r \in Row,
         row' = [row EXCEPT ![m] = r],
         stamp' = stamp \/ stamp' = stamp + 1,
         r.text # None, r.live => r.text \in Texts,
         r.vec # None => r.vec.text = r.text,
         r.live => row[m].live \/ row[m].text = None,
         r.live /\ row[m].vec # None /\ r.vec # row[m].vec => stamp' = stamp + 1
  PROVE  IndInv'
<1>t. TypeOK /\ row \in [Memories -> Row] /\ stamp \in Nat
  BY DEF IndInv, TypeOK
<1>1. TypeOK'
  BY <1>t DEF TypeOK
<1>2. /\ row'[m] = r
      /\ \A n \in Memories \ {m} : row'[n] = row[n]
  BY <1>t
<1>3. TextsOK'
  BY <1>2 DEF IndInv, TextsOK
<1>4. VectorIsOfText'
  BY <1>2 DEF IndInv, VectorIsOfText
<1>5. ASSUME NEW p \in Processes
      PROVE  Sound(entry[p], query[p])'
  <2> DEFINE e == entry[p]
             q == query[p]
  <2>1. Sound(e, q) /\ e \in Entry /\ q \in Query
    BY <1>t DEF IndInv, TypeOK, Entry, Query
  <2>2. e' = e /\ q' = q
    OBVIOUS
  <2> HIDE DEF e, q
  <2>3. /\ \A n \in Memories : e.vec[n] # None \/ n \in q.found => row'[n].text # None
        /\ e.token <= stamp' /\ q.token <= stamp'
        /\ e.token = stamp' \/ q.token = stamp' => stamp' = stamp
    BY <1>t, <1>2, <2>1 DEF Sound, Entry, Query
  <2>4. ASSUME stamp' = stamp, NEW n \in Memories, row'[n].live,
               e.vec[n] # None \/ n \in q.found
        PROVE  /\ row[n].live
               /\ row[n].vec # None => row'[n].vec = row[n].vec
    BY <1>t, <1>2, <2>1, <2>4 DEF Sound
  <2>5. e.token = stamp' =>
          \A n \in Memories : e.vec[n] # None /\ row'[n].live => e.vec[n] = row'[n].vec
    BY <2>1, <2>3, <2>4 DEF Sound
  <2>6. Chosen(q) /\ q.token = stamp' =>
          \A n \in q.found : row'[n].live =>
            row'[n].vec # None /\ (q.at = "rank" => e.vec[n] # None)
    BY <2>1, <2>3, <2>4 DEF Sound, Query
  <2>7. /\ q.at = "count" => ~q.fresh
        /\ Chosen(q) \/ q.at = "select" => e.token = q.token
    BY <2>1 DEF Sound
  <2>8. Sound(e, q)'
    BY <2>2, <2>3, <2>5, <2>6, <2>7 DEF Sound, Chosen
  <2> QED  BY <2>8 DEF e, q
<1> QED  BY <1>1, <1>3, <1>4, <1>5 DEF IndInv

LEMMA CreateStep ==
  ASSUME IndInv, NEW m \in Memories, NEW t \in Texts, Create(m, t)
  PROVE  IndInv'
<1> DEFINE r == [NoRow EXCEPT !.live = TRUE, !.text = t]
<1>1. r \in Row /\ r.live /\ r.text = t /\ r.vec = None /\ t # None
  BY NullIsNoValue DEF NoRow, Row
<1>2. row[m].text = None /\ row[m].vec = None
  BY DEF Create, NoRow
<1>3. row' = [row EXCEPT ![m] = r] /\ UNCHANGED <<stamp, job, entry, query>>
  BY DEF Create
<1>4. job \in [Embedders -> [memory : Memories, vec : Vectors] \cup {None}]
  BY DEF IndInv, TypeOK
<1> HIDE DEF r
<1> QED  BY <1>1, <1>2, <1>3, <1>4, WriteStep

LEMMA BumpTyped ==
  ASSUME TypeOK, NEW lost \in BOOLEAN, Bump(lost)
  PROVE  /\ stamp' = stamp \/ stamp' = stamp + 1
         /\ lost => stamp' = stamp + 1
  BY DEF Bump

LEMMA RefreshStep ==
  ASSUME IndInv, NEW m \in Memories, NEW t \in Texts, Refresh(m, t)
  PROVE  IndInv'
<1> DEFINE r == [row[m] EXCEPT !.text = t, !.vec = None]
<1>t. TypeOK /\ row[m] \in Row
  BY DEF IndInv, TypeOK
<1>1. r \in Row /\ r.text = t /\ r.vec = None /\ t # None
  BY <1>t, NullIsNoValue DEF Row
<1>2. row[m].live /\ UNCHANGED <<job, entry, query>>
  BY DEF Refresh
<1>3. row' = [row EXCEPT ![m] = r]
  BY DEF Refresh
<1>4. /\ stamp' = stamp \/ stamp' = stamp + 1
      /\ row[m].vec # None => stamp' = stamp + 1
  BY <1>t, BumpTyped DEF Refresh
<1>5. job' \in [Embedders -> [memory : Memories, vec : Vectors] \cup {None}]
  BY <1>t, <1>2 DEF TypeOK
<1> HIDE DEF r
<1> QED  BY <1>1, <1>2, <1>3, <1>4, <1>5, WriteStep

LEMMA ArchiveStep ==
  ASSUME IndInv, NEW m \in Memories, Archive(m)
  PROVE  IndInv'
<1> DEFINE r == [row[m] EXCEPT !.live = FALSE]
<1>t. TypeOK /\ row[m] \in Row
  BY DEF IndInv, TypeOK
<1>1. r \in Row /\ ~r.live /\ r.text = row[m].text /\ r.vec = row[m].vec
  BY <1>t DEF Row
<1>2. row[m].text # None /\ (row[m].vec # None => row[m].vec.text = row[m].text)
  BY NullIsNoValue DEF Archive, IndInv, TextsOK, VectorIsOfText
<1>3. row' = [row EXCEPT ![m] = r] /\ UNCHANGED <<stamp, job, entry, query>>
  BY DEF Archive
<1>4. job \in [Embedders -> [memory : Memories, vec : Vectors] \cup {None}]
  BY <1>t DEF TypeOK
<1> HIDE DEF r
<1> QED  BY <1>1, <1>2, <1>3, <1>4, WriteStep

LEMMA RedactStep ==
  ASSUME IndInv, NEW m \in Memories, Redact(m)
  PROVE  IndInv'
<1> DEFINE r == [NoRow EXCEPT !.text = "redacted"]
<1>t. TypeOK
  BY DEF IndInv
<1>1. r \in Row /\ ~r.live /\ r.text # None /\ r.vec = None
  BY NullIsNoValue DEF NoRow, Row
<1>2. row' = [row EXCEPT ![m] = r] /\ UNCHANGED <<job, entry, query>>
  BY DEF Redact
<1>3. stamp' = stamp \/ stamp' = stamp + 1
  BY <1>t, BumpTyped DEF Redact
<1>4. job' \in [Embedders -> [memory : Memories, vec : Vectors] \cup {None}]
  BY <1>t, <1>2 DEF TypeOK
<1> HIDE DEF r
<1> QED  BY <1>1, <1>2, <1>3, <1>4, WriteStep

-----------------------------------------------------------------------------
(* Embedding.                                                              *)

\* Steps that touch no row and no entry.
LEMMA JobStep ==
  ASSUME IndInv, UNCHANGED <<row, stamp, entry, query>>,
         job' \in [Embedders -> [memory : Memories, vec : Vectors] \cup {None}]
  PROVE  IndInv'
  BY DEF IndInv, TypeOK, TextsOK, VectorIsOfText, Sound, Chosen

LEMMA PrepareStep ==
  ASSUME IndInv, NEW e \in Embedders, NEW m \in Memories, NEW x \in Models,
         Prepare(e, m, x)
  PROVE  IndInv'
<1>1. row[m].text \in Texts
  BY DEF Prepare, Missing, IndInv, TextsOK
<1>2. [memory |-> m, vec |-> [text |-> row[m].text, model |-> x]]
        \in [memory : Memories, vec : Vectors]
  BY <1>1 DEF Vectors
<1>3. job' \in [Embedders -> [memory : Memories, vec : Vectors] \cup {None}]
  BY <1>2 DEF Prepare, IndInv, TypeOK
<1>4. UNCHANGED <<row, stamp, entry, query>>
  BY DEF Prepare
<1> QED  BY <1>3, <1>4, JobStep

LEMMA AbandonStep ==
  ASSUME IndInv, NEW e \in Embedders, Abandon(e)
  PROVE  IndInv'
<1>1. job' \in [Embedders -> [memory : Memories, vec : Vectors] \cup {None}]
  BY DEF Abandon, IndInv, TypeOK
<1> QED  BY <1>1, JobStep DEF Abandon

LEMMA StoreStep ==
  ASSUME IndInv, NEW e \in Embedders, Store(e)
  PROVE  IndInv'
<1>t. TypeOK
  BY DEF IndInv
<1> DEFINE m == job[e].memory
           v == job[e].vec
<1>1. job[e] \in [memory : Memories, vec : Vectors]
  BY <1>t DEF Store, TypeOK
<1>2. m \in Memories /\ v \in Vectors /\ row[m] \in Row
  BY <1>1, <1>t DEF TypeOK
<1>3. job' \in [Embedders -> [memory : Memories, vec : Vectors] \cup {None}]
  BY <1>t DEF Store, TypeOK
<1>4. UNCHANGED <<entry, query>>
  BY DEF Store
<1>5. CASE Fits(m, v)
  <2> DEFINE r == [row[m] EXCEPT !.vec = v]
  <2>1. /\ r \in Row /\ r.live = row[m].live /\ r.text = row[m].text /\ r.vec = v
        /\ row[m].live /\ v.text = row[m].text
    BY <1>2, <1>5 DEF Row, Fits
  <2>2. row' = [row EXCEPT ![m] = r]
    BY <1>5 DEF Store
  <2>3. /\ stamp' = stamp \/ stamp' = stamp + 1
        /\ row[m].vec # None => stamp' = stamp + 1
    BY <1>t, <1>5, BumpTyped DEF Store
  <2>4. r.text # None /\ r.text \in Texts
    BY <1>2, <2>1, NullIsNoValue DEF IndInv, TextsOK
  <2> HIDE DEF r, m, v
  <2> QED  BY <1>2, <1>3, <1>4, <2>1, <2>2, <2>3, <2>4, WriteStep
<1>6. CASE ~Fits(m, v)
  <2>1. UNCHANGED <<row, stamp>>
    BY <1>6 DEF Store
  <2> QED  BY <1>3, <1>4, <2>1, JobStep
<1> QED  BY <1>5, <1>6

-----------------------------------------------------------------------------
(* Searches.                                                               *)

LEMMA SearchStep ==
  ASSUME IndInv, UNCHANGED <<row, stamp, job>>, NEW p \in Processes,
         NEW E \in Entry, NEW Q \in Query,
         entry' = [entry EXCEPT ![p] = E], query' = [query EXCEPT ![p] = Q],
         Sound(E, Q)
  PROVE  IndInv'
<1>t. TypeOK /\ entry \in [Processes -> Entry] /\ query \in [Processes -> Query]
  BY DEF IndInv, TypeOK, Entry, Query
<1>1. entry' \in [Processes -> Entry] /\ query' \in [Processes -> Query]
  BY <1>t
<1>2. TypeOK'
  BY <1>t, <1>1 DEF TypeOK, Entry, Query
<1>3. /\ entry'[p] = E /\ query'[p] = Q
      /\ \A q \in Processes \ {p} : entry'[q] = entry[q] /\ query'[q] = query[q]
  BY <1>t
<1>4. VectorIsOfText' /\ TextsOK'
  BY DEF IndInv, VectorIsOfText, TextsOK
<1>5. ASSUME NEW q \in Processes  PROVE Sound(entry[q], query[q])'
  <2>1. CASE q = p
    <3>1. entry[q]' = E /\ query[q]' = Q
      BY <1>3, <2>1
    <3> QED  BY <3>1 DEF Sound, Chosen
  <2>2. CASE q # p
    <3>1. entry[q]' = entry[q] /\ query[q]' = query[q]
      BY <1>3, <2>2
    <3> QED  BY <3>1 DEF IndInv, Sound, Chosen
  <2> QED  BY <2>1, <2>2
<1> QED  BY <1>2, <1>4, <1>5 DEF IndInv

\* The invariant of a search before its step.
LEMMA SoundBefore ==
  ASSUME IndInv, NEW p \in Processes
  PROVE  /\ Sound(entry[p], query[p]) /\ entry[p] \in Entry /\ query[p] \in Query
         /\ stamp \in Nat
  BY DEF IndInv, TypeOK, Entry, Query

\* Steps that change the query alone.
LEMMA QueryStep ==
  ASSUME IndInv, UNCHANGED <<row, stamp, job, entry>>, NEW p \in Processes,
         NEW Q \in Query, query' = [query EXCEPT ![p] = Q], Sound(entry[p], Q)
  PROVE  IndInv'
<1>1. entry[p] \in Entry
  BY SoundBefore
<1>2. entry' = [entry EXCEPT ![p] = entry[p]]
  BY DEF IndInv, TypeOK
<1> QED  BY <1>1, <1>2, SearchStep

LEMMA NoQueryIsSound ==
  ASSUME NEW E, NEW Q \in Query, Sound(E, Q), stamp \in Nat
  PROVE  NoQuery \in Query /\ Sound(E, NoQuery)
  BY DEF Sound, NoQuery, Query, Phases, Chosen

LEMMA ValidateStep ==
  ASSUME IndInv, NEW p \in Processes, Validate(p)
  PROVE  IndInv'
<1> DEFINE Q == [NoQuery EXCEPT !.token = stamp,
                   !.at = IF entry[p].token # stamp THEN "count" ELSE "select"]
<1>t. stamp \in Nat /\ Sound(entry[p], query[p])
  BY SoundBefore DEF IndInv, TypeOK
<1>1. /\ Q \in Query /\ Q.token = stamp /\ Q.found = {} /\ ~Q.fresh
      /\ Q.at = IF entry[p].token # stamp THEN "count" ELSE "select"
  BY <1>t DEF NoQuery, Query, Phases
<1>2. query' = [query EXCEPT ![p] = Q] /\ UNCHANGED <<row, stamp, job, entry>>
  BY DEF Validate
<1> HIDE DEF Q
<1>3. Sound(entry[p], Q)
  BY <1>t, <1>1 DEF Sound, Chosen
<1> QED  BY <1>1, <1>2, <1>3, QueryStep

LEMMA CountStep ==
  ASSUME IndInv, NEW p \in Processes, Count(p)
  PROVE  IndInv'
<1> DEFINE Q == [query[p] EXCEPT !.at = "build", !.rows = Cardinality(Embedded)]
<1>t. stamp \in Nat /\ Sound(entry[p], query[p]) /\ query[p] \in Query
  BY SoundBefore
<1>1. /\ Q \in Query /\ Q.token = query[p].token /\ Q.found = query[p].found
      /\ ~Q.fresh /\ Q.at = "build"
  BY <1>t, EmbeddedIsFinite DEF Query, Phases, Count, Sound
<1>2. query' = [query EXCEPT ![p] = Q] /\ UNCHANGED <<row, stamp, job, entry>>
  BY DEF Count
<1> HIDE DEF Q
<1>3. Sound(entry[p], Q)
  BY <1>t, <1>1 DEF Sound, Chosen
<1> QED  BY <1>1, <1>2, <1>3, QueryStep

\* What a scan leaves is current as of the scan.
LEMMA BuildStep ==
  ASSUME IndInv, NEW p \in Processes, Build(p)
  PROVE  IndInv'
<1>t. /\ stamp \in Nat /\ Sound(entry[p], query[p])
      /\ entry[p] \in Entry /\ query[p] \in Query /\ TypeOK
  BY SoundBefore DEF IndInv
<1>1. PICK S \in SUBSET Embedded :
        entry' = [entry EXCEPT ![p] =
          [token |-> query[p].token,
           vec |-> [m \in Memories |-> IF m \in S THEN row[m].vec ELSE None]]]
  BY DEF Build
<1> DEFINE E == [token |-> query[p].token,
                 vec |-> [m \in Memories |-> IF m \in S THEN row[m].vec ELSE None]]
           Q == [query[p] EXCEPT !.fresh = TRUE,
                   !.at = IF query[p].fresh THEN "append" ELSE "select"]
<1>2. /\ Q \in Query /\ Q.token = query[p].token /\ Q.found = query[p].found
      /\ Q.at = IF query[p].fresh THEN "append" ELSE "select"
  BY <1>t DEF Query, Phases
<1>3. E \in Entry /\ E.token = query[p].token
  BY <1>t DEF Entry, TypeOK, Row, Query
<1>4. \A m \in Memories : E.vec[m] # None =>
        m \in Embedded /\ E.vec[m] = row[m].vec
  OBVIOUS
<1>5. \A m \in Embedded : row[m].text # None
  BY NullIsNoValue DEF Embedded, IndInv, TextsOK
<1>6. /\ entry' = [entry EXCEPT ![p] = E] /\ query' = [query EXCEPT ![p] = Q]
      /\ UNCHANGED <<row, stamp, job>> /\ query[p].at = "build"
  BY <1>1 DEF Build
<1> HIDE DEF E, Q
<1>7. Sound(E, Q)
  BY <1>t, <1>2, <1>3, <1>4, <1>5, <1>6 DEF Sound, Chosen, Query
<1> QED  BY <1>2, <1>3, <1>6, <1>7, SearchStep

LEMMA SelectStep ==
  ASSUME IndInv, NEW p \in Processes, Select(p)
  PROVE  IndInv'
<1>t. /\ stamp \in Nat /\ Sound(entry[p], query[p])
      /\ entry[p] \in Entry /\ query[p] \in Query
  BY SoundBefore
<1>1. PICK S \in SUBSET Embedded :
        query' = [query EXCEPT ![p].found = S, ![p].at =
          IF ~query[p].fresh /\ 2 * Cardinality(S) < Cardinality(Resident(p))
          THEN "recount" ELSE "append"]
  BY DEF Select
<1> DEFINE Q == [query[p] EXCEPT !.found = S, !.at =
                   IF ~query[p].fresh /\ 2 * Cardinality(S) < Cardinality(Resident(p))
                   THEN "recount" ELSE "append"]
<1>2. /\ Q \in Query /\ Q.token = query[p].token /\ Q.found = S
      /\ Q.at \in {"recount", "append"}
  BY <1>t, EmbeddedIsFinite DEF Query, Phases
<1>3. /\ query' = [query EXCEPT ![p] = Q] /\ UNCHANGED <<row, stamp, job, entry>>
      /\ query[p].at = "select"
  BY <1>1 DEF Select
<1>4. \A m \in S : row[m].text # None /\ row[m].vec # None
  BY NullIsNoValue DEF Embedded, IndInv, TextsOK
<1> HIDE DEF Q
<1>5. Sound(entry[p], Q)
  BY <1>t, <1>2, <1>3, <1>4 DEF Sound, Chosen
<1> QED  BY <1>2, <1>3, <1>5, QueryStep

LEMMA RecountStep ==
  ASSUME IndInv, NEW p \in Processes, Recount(p)
  PROVE  IndInv'
<1>t. stamp \in Nat /\ Sound(entry[p], query[p]) /\ query[p] \in Query
  BY SoundBefore
<1>1. PICK Q :
        /\ \/ Q = [query[p] EXCEPT !.at = "build", !.fresh = TRUE,
                                   !.rows = Cardinality(Embedded)]
           \/ Q = [query[p] EXCEPT !.at = "append"]
        /\ query' = [query EXCEPT ![p] = Q]
  BY DEF Recount
<1>2. /\ Q \in Query /\ Q.token = query[p].token /\ Q.found = query[p].found
      /\ (Q.at = "build" /\ Q.fresh) \/ Q.at = "append"
  BY <1>t, <1>1, EmbeddedIsFinite DEF Query, Phases
<1>3. query[p].at = "recount" /\ UNCHANGED <<row, stamp, job, entry>>
  BY DEF Recount
<1>4. Sound(entry[p], Q)
  BY <1>t, <1>2, <1>3 DEF Sound, Chosen
<1> QED  BY <1>1, <1>2, <1>3, <1>4, QueryStep

\* Every candidate that is still embedded is resident afterwards.
LEMMA AppendStep ==
  ASSUME IndInv, NEW p \in Processes, Append(p)
  PROVE  IndInv'
<1>t. /\ stamp \in Nat /\ Sound(entry[p], query[p])
      /\ entry[p] \in Entry /\ query[p] \in Query /\ TypeOK
  BY SoundBefore DEF IndInv
<1> DEFINE E == [entry[p] EXCEPT !.vec =
                   [m \in Memories |-> IF m \in Appended(p) THEN row[m].vec ELSE @[m]]]
           Q == [query[p] EXCEPT !.at = "rank"]
<1>1. /\ Q \in Query /\ Q.token = query[p].token /\ Q.found = query[p].found
      /\ Q.at = "rank"
  BY <1>t DEF Query, Phases
<1>2. E \in Entry /\ E.token = entry[p].token
  BY <1>t DEF Entry, TypeOK, Row
<1>3. \A m \in Memories :
        E.vec[m] = IF m \in Appended(p) THEN row[m].vec ELSE entry[p].vec[m]
  BY <1>t DEF Entry
<1>4. \A m \in Appended(p) : row[m].text # None /\ row[m].vec # None
  BY NullIsNoValue DEF Appended, Embedded, IndInv, TextsOK
<1>5. \A m \in query[p].found :
        row[m].live /\ row[m].vec # None => m \in Appended(p) \/ entry[p].vec[m] # None
  BY <1>t DEF Appended, Embedded, Resident, Query
<1>6. /\ entry' = [entry EXCEPT ![p] = E] /\ query' = [query EXCEPT ![p] = Q]
      /\ UNCHANGED <<row, stamp, job>> /\ query[p].at = "append"
  BY DEF Append
<1> HIDE DEF E, Q
<1>7. Sound(E, Q)
  BY <1>t, <1>1, <1>2, <1>3, <1>4, <1>5, <1>6 DEF Sound, Chosen, Query
<1> QED  BY <1>1, <1>2, <1>6, <1>7, SearchStep

LEMMA RankStep ==
  ASSUME IndInv, NEW p \in Processes, Rank(p)
  PROVE  IndInv'
  BY SoundBefore, NoQueryIsSound, QueryStep DEF Rank

LEMMA DropStep ==
  ASSUME IndInv, NEW p \in Processes, Drop(p)
  PROVE  IndInv'
<1>1. stamp \in Nat \ {0}
  BY DEF IndInv, TypeOK
<1>2. Cold \in Entry /\ NoQuery \in Query /\ Sound(Cold, NoQuery)
  BY <1>1 DEF Cold, NoQuery, Entry, Query, Phases, Sound, Chosen
<1> QED  BY <1>2, SearchStep DEF Drop

-----------------------------------------------------------------------------
(* The theorems.                                                           *)

LEMMA InvariantStep == IndInv /\ [Next]_vars => IndInv'
<1> SUFFICES ASSUME IndInv, [Next]_vars PROVE IndInv'
  OBVIOUS
<1>1. CASE Write
  BY <1>1, CreateStep, RefreshStep, ArchiveStep, RedactStep DEF Write
<1>2. CASE Embed
  BY <1>2, PrepareStep, StoreStep, AbandonStep DEF Embed
<1>3. CASE Search
  BY <1>3, ValidateStep, CountStep, BuildStep, SelectStep, RecountStep, AppendStep,
     RankStep, DropStep DEF Search
<1>4. CASE UNCHANGED vars
  <2>1. job' \in [Embedders -> [memory : Memories, vec : Vectors] \cup {None}]
    BY <1>4 DEF vars, IndInv, TypeOK
  <2> QED  BY <1>4, <2>1, JobStep DEF vars
<1> QED  BY <1>1, <1>2, <1>3, <1>4 DEF Next

\* Rows, stamp, entries and searches fit together between any two statements.
THEOREM CacheInvariant == Spec => []IndInv
  BY InitIsInductive, InvariantStep, PTL DEF Spec

\* The tables and the entries hold values of their types.
THEOREM CacheTyped == Spec => []TypeOK
<1>1. IndInv => TypeOK
  BY DEF IndInv
<1> QED  BY <1>1, CacheInvariant, PTL

\* A stored vector is of the text its row has now.
THEOREM VectorsAreOfTheirTexts == Spec => []VectorIsOfText
<1>1. IndInv => VectorIsOfText
  BY DEF IndInv
<1> QED  BY <1>1, CacheInvariant, PTL

\* An entry with the current token holds no dead vector of a live row.
THEOREM ResidentVectorsAreCurrent == Spec => []ResidentIsCurrent
<1>1. IndInv => ResidentIsCurrent
  BY DEF IndInv, Sound, ResidentIsCurrent, Resident
<1> QED  BY <1>1, CacheInvariant, PTL

\* A ranking during which no vector was lost misses no candidate.
THEOREM RankingsAreExact == Spec => []RankingExact
<1>1. IndInv => RankingExact
  <2> SUFFICES ASSUME IndInv, NEW p \in Processes, query[p].at = "rank",
                      query[p].token = stamp, NEW m \in query[p].found, row[m].live
               PROVE  entry[p].vec[m] = row[m].vec
    BY DEF RankingExact
  <2>1. Sound(entry[p], query[p]) /\ m \in Memories
    BY SoundBefore DEF Query
  <2> QED  BY <2>1 DEF Sound, Chosen
<1> QED  BY <1>1, CacheInvariant, PTL

-----------------------------------------------------------------------------
(* The history of the rows: a search reads each of them as a regular       *)
(* register.                                                               *)

Sightings == [Memories -> SUBSET (Vectors \cup {None})]

LEMMA HistoryStepIsStep == HistoryNext => Next /\ Observe
<1>1. ASSUME NEW m \in Memories, NEW t \in Texts, Create(m, t) \/ Refresh(m, t)
      PROVE  Next
  BY <1>1 DEF Next, Write
<1>2. ASSUME NEW m \in Memories, Archive(m) \/ Redact(m)
      PROVE  Next
  BY <1>2 DEF Next, Write
<1>3. ASSUME NEW e \in Embedders, NEW m \in Memories, NEW x \in Models, Prepare(e, m, x)
      PROVE  Next
  BY <1>3 DEF Next, Embed
<1>4. ASSUME NEW e \in Embedders, Store(e) \/ Abandon(e)
      PROVE  Next
  BY <1>4 DEF Next, Embed
<1>5. ASSUME NEW p \in Processes,
             \/ Validate(p) \/ Count(p) \/ Build(p) \/ Select(p)
             \/ Recount(p) \/ Append(p) \/ Rank(p) \/ Drop(p)
      PROVE  Next
  BY <1>5 DEF Next, Search
<1> QED  BY <1>1, <1>2, <1>3, <1>4, <1>5 DEF HistoryNext

LEMMA ShownTyped ==
  ASSUME TypeOK
  PROVE  \A m \in Memories : Shown(m) \in Vectors \cup {None}
  BY DEF Shown, TypeOK, Row

\* What the history of a search is after a step.
LEMMA Observed ==
  ASSUME Observe, NEW p \in Processes
  PROVE  /\ query'[p].at = "idle" => seen'[p] = [m \in Memories |-> {}]
         /\ query[p].at = "idle" /\ query'[p].at # "idle" =>
              seen'[p] = [m \in Memories |-> {Shown(m)}]
         /\ query[p].at # "idle" /\ query'[p].at # "idle" =>
              seen'[p] = [m \in Memories |-> seen[p][m] \cup {Shown(m)'}]
  BY DEF Observe

LEMMA IdleIsRecorded ==
  ASSUME NEW e, NEW q, q.at = "idle"
  PROVE  Recorded(e, q, [m \in Memories |-> {}])
  BY DEF Recorded, Chosen

LEMMA HistoryInitIsInductive == HistoryInit => HistoryInv
<1> SUFFICES ASSUME HistoryInit PROVE SeenOK
  BY InitIsInductive DEF HistoryInit, HistoryInv
<1>1. \A p \in Processes : query[p].at = "idle" /\ seen[p] = [m \in Memories |-> {}]
  BY DEF HistoryInit, Init, NoQuery
<1> QED  BY <1>1, IdleIsRecorded DEF SeenOK

\* A step that moves no search, and after which no row is live that the search
\* may have been resident of as a dead one.
LEMMA WriteRecords ==
  ASSUME HistoryInv, TypeOK', Observe, UNCHANGED <<entry, query>>,
         \A m \in Memories : row'[m].live => row[m].live \/ row[m].text = None
  PROVE  SeenOK'
<1> SUFFICES ASSUME NEW p \in Processes PROVE Recorded(entry[p], query[p], seen[p])'
  BY DEF SeenOK
<1> DEFINE e == entry[p]
           q == query[p]
           s == seen[p]
<1>1. Sound(e, q) /\ q \in Query /\ Recorded(e, q, s)
  BY SoundBefore DEF HistoryInv, SeenOK
<1>2. e' = e /\ q' = q
  OBVIOUS
<1>3. CASE q.at = "idle"
  <2>1. seen'[p] = [m \in Memories |-> {}]
    BY <1>2, <1>3, Observed
  <2>2. Recorded(e, q, [m \in Memories |-> {}])'
    BY <1>2, <1>3, <2>1 DEF Recorded, Chosen
  <2> QED  BY <2>1, <2>2
<1>4. CASE q.at # "idle"
  <2>1. s' = [m \in Memories |-> s[m] \cup {Shown(m)'}]
    BY <1>2, <1>4, Observed
  <2>2. \A m \in Memories : Shown(m)' \in Vectors \cup {None}
    BY DEF Shown, TypeOK, Row
  <2> HIDE DEF e, q, s
  <2>3. /\ s' \in Sightings
        /\ \A m \in Memories : s[m] \subseteq s'[m] /\ Shown(m)' \in s'[m]
    BY <1>1, <2>1, <2>2 DEF Recorded, Sightings
  <2>4. \A m \in Memories : e.vec[m] # None /\ row'[m].live => row[m].live
    BY <1>1 DEF Sound
  <2>5. q.found \subseteq Memories
    BY <1>1 DEF Query
  <2>6. \A m \in q.found : s'[m] \ {None} # {}
    BY <1>1, <1>4, <2>3, <2>5 DEF Recorded
  <2>7. q.at = "select" \/ Chosen(q) =>
          \A m \in Memories :
            e.vec[m] # None /\ (row'[m].live \/ m \in q.found) => e.vec[m] \in s'[m]
    BY <1>1, <2>3, <2>4 DEF Recorded
  <2>8. q.at = "rank" => \A m \in q.found : e.vec[m] = None => None \in s'[m]
    BY <1>1, <2>3, <2>5 DEF Recorded
  <2>9. Recorded(e, q, s)'
    BY <1>2, <2>3, <2>6, <2>7, <2>8 DEF Recorded, Sightings, Chosen
  <2> QED  BY <2>9 DEF e, q, s
<1> QED  BY <1>3, <1>4

\* A step of one search: the table is as it was, and so is what the others know.
LEMMA SearchRecords ==
  ASSUME HistoryInv, TypeOK', Observe, UNCHANGED row, NEW p \in Processes,
         \A r \in Processes \ {p} : entry'[r] = entry[r] /\ query'[r] = query[r],
         Recorded(entry'[p], query'[p], seen'[p])
  PROVE  SeenOK'
<1>1. \A m \in Memories : Shown(m)' = Shown(m)
  BY DEF Shown
<1>2. \A E, Q, S : Recorded(E, Q, S) => Recorded(E, Q, S)'
  BY <1>1 DEF Recorded, Chosen
<1> SUFFICES ASSUME NEW r \in Processes PROVE Recorded(entry'[r], query'[r], seen'[r])
  BY <1>2 DEF SeenOK
<1>3. CASE r = p
  BY <1>3
<1>4. CASE r # p /\ query[r].at = "idle"
  <2>1. seen'[r] = [m \in Memories |-> {}] /\ query'[r].at = "idle"
    BY <1>4, Observed
  <2> QED  BY <2>1, IdleIsRecorded
<1>5. CASE r # p /\ query[r].at # "idle"
  <2>1. Recorded(entry[r], query[r], seen[r])
    BY DEF HistoryInv, SeenOK
  <2>2. seen'[r] = [m \in Memories |-> seen[r][m] \cup {Shown(m)}]
    <3>1. query'[r].at # "idle"
      BY <1>5
    <3>2. seen'[r] = [m \in Memories |-> seen[r][m] \cup {Shown(m)'}]
      BY <1>5, <3>1, Observed
    <3> QED  BY <1>1, <3>2
  <2>3. seen[r] \in Sightings /\ \A m \in Memories : Shown(m) \in seen[r][m]
    BY <1>5, <2>1 DEF Recorded, Sightings
  <2>4. \A m \in Memories : seen[r][m] \cup {Shown(m)} = seen[r][m]
    BY <2>3
  <2>5. seen'[r] = seen[r]
    BY <2>2, <2>3, <2>4 DEF Sightings
  <2> QED  BY <1>5, <2>1, <2>5
<1> QED  BY <1>3, <1>4, <1>5

\* What one search has seen, when its own step leaves the table alone.
LEMMA SearchSees ==
  ASSUME HistoryInv, Observe, UNCHANGED row, NEW p \in Processes, query[p].at # "idle"
  PROVE  /\ Recorded(entry[p], query[p], seen[p])
         /\ query'[p].at # "idle" => seen'[p] = seen[p]
         /\ query'[p].at = "idle" => Recorded(entry'[p], query'[p], seen'[p])
<1>1. \A m \in Memories : Shown(m)' = Shown(m)
  BY DEF Shown
<1>2. Recorded(entry[p], query[p], seen[p])
  BY DEF HistoryInv, SeenOK
<1>3. seen[p] \in Sightings /\ \A m \in Memories : Shown(m) \in seen[p][m]
  BY <1>2 DEF Recorded, Sightings
<1>4. ASSUME query'[p].at # "idle" PROVE seen'[p] = seen[p]
  <2>1. seen'[p] = [m \in Memories |-> seen[p][m] \cup {Shown(m)'}]
    BY <1>4, Observed
  <2>2. \A m \in Memories : seen[p][m] \cup {Shown(m)'} = seen[p][m]
    BY <1>1, <1>3
  <2> QED  BY <1>3, <2>1, <2>2 DEF Sightings
<1>5. ASSUME query'[p].at = "idle" PROVE Recorded(entry'[p], query'[p], seen'[p])
  <2>1. seen'[p] = [m \in Memories |-> {}]
    BY <1>5, Observed
  <2> QED  BY <1>5, <2>1, IdleIsRecorded
<1> QED  BY <1>2, <1>4, <1>5

\* A step of process p alone.
OneSearch(p, E, Q) ==
  /\ entry' = [entry EXCEPT ![p] = E] /\ query' = [query EXCEPT ![p] = Q]
  /\ UNCHANGED row

LEMMA OneSearchMoves ==
  ASSUME TypeOK, NEW p \in Processes, NEW E, NEW Q, OneSearch(p, E, Q)
  PROVE  /\ entry'[p] = E /\ query'[p] = Q
         /\ \A r \in Processes \ {p} : entry'[r] = entry[r] /\ query'[r] = query[r]
  BY DEF TypeOK, OneSearch

\* A search that goes on from a history it has: what it must keep.
LEMMA SearchGoesOn ==
  ASSUME HistoryInv, TypeOK', Observe, NEW p \in Processes, NEW E, NEW Q,
         OneSearch(p, E, Q), query[p].at # "idle",
         Q.at = "idle" \/ Recorded(E, Q, seen[p])
  PROVE  SeenOK'
<1>1. /\ entry'[p] = E /\ query'[p] = Q
      /\ \A r \in Processes \ {p} : entry'[r] = entry[r] /\ query'[r] = query[r]
  BY OneSearchMoves DEF HistoryInv, IndInv
<1>2. UNCHANGED row
  BY DEF OneSearch
<1>3. Recorded(entry'[p], query'[p], seen'[p])
  BY <1>1, <1>2, SearchSees
<1> QED  BY <1>1, <1>2, <1>3, SearchRecords

LEMMA ValidateRecords ==
  ASSUME HistoryInv, TypeOK', Observe, NEW p \in Processes, Validate(p)
  PROVE  SeenOK'
<1> DEFINE Q == [NoQuery EXCEPT !.token = stamp,
                   !.at = IF entry[p].token # stamp THEN "count" ELSE "select"]
           s == [m \in Memories |-> {Shown(m)}]
<1>t. TypeOK /\ Sound(entry[p], query[p])
  BY SoundBefore DEF HistoryInv, IndInv
<1>1. /\ Q.at \in {"count", "select"} /\ Q.found = {} /\ ~Q.fresh
      /\ Q.at = "select" => entry[p].token = stamp
  BY DEF NoQuery
<1>2. OneSearch(p, entry[p], Q) /\ query[p].at = "idle"
  BY <1>t DEF OneSearch, Validate, TypeOK
<1>3. s \in Sightings /\ \A m \in Memories : s[m] = {Shown(m)}
  BY <1>t, ShownTyped DEF Sightings
<1> HIDE DEF Q, s
<1>4. Q.at = "select" =>
        \A m \in Memories : entry[p].vec[m] # None /\ row[m].live
                              => entry[p].vec[m] = Shown(m)
  BY <1>t, <1>1 DEF Sound, Shown
<1>5. Recorded(entry[p], Q, s)
  BY <1>1, <1>3, <1>4 DEF Recorded, Chosen, Sightings
<1>6. /\ entry'[p] = entry[p] /\ query'[p] = Q
      /\ \A r \in Processes \ {p} : entry'[r] = entry[r] /\ query'[r] = query[r]
  BY <1>t, <1>2, OneSearchMoves
<1>7. seen'[p] = s
  BY <1>1, <1>2, <1>6, Observed DEF s
<1>8. UNCHANGED row
  BY <1>2 DEF OneSearch
<1> QED  BY <1>5, <1>6, <1>7, <1>8, SearchRecords

\* The vectors of a scan are shown by the table it scans.
LEMMA BuildRecords ==
  ASSUME HistoryInv, TypeOK', Observe, NEW p \in Processes, Build(p)
  PROVE  SeenOK'
<1>1. PICK S \in SUBSET Embedded :
        entry' = [entry EXCEPT ![p] =
          [token |-> query[p].token,
           vec |-> [m \in Memories |-> IF m \in S THEN row[m].vec ELSE None]]]
  BY DEF Build
<1> DEFINE E == [token |-> query[p].token,
                 vec |-> [m \in Memories |-> IF m \in S THEN row[m].vec ELSE None]]
           Q == [query[p] EXCEPT !.fresh = TRUE,
                   !.at = IF query[p].fresh THEN "append" ELSE "select"]
<1>2. OneSearch(p, E, Q) /\ query[p].at = "build"
  BY <1>1 DEF OneSearch, Build
<1>3. Q.at \in {"append", "select"} /\ Q.found = query[p].found
  BY SoundBefore DEF HistoryInv, Query
<1>4. \A m \in Memories : E.vec[m] # None => E.vec[m] = Shown(m)
  BY DEF Embedded, Shown
<1> HIDE DEF E, Q
<1>5. Recorded(entry[p], query[p], seen[p])
  BY DEF HistoryInv, SeenOK
<1>6. Recorded(E, Q, seen[p])
  BY <1>2, <1>3, <1>4, <1>5 DEF Recorded
<1> QED  BY <1>2, <1>6, SearchGoesOn

LEMMA SelectRecords ==
  ASSUME HistoryInv, TypeOK', Observe, NEW p \in Processes, Select(p)
  PROVE  SeenOK'
<1>1. PICK S \in SUBSET Embedded :
        query' = [query EXCEPT ![p].found = S, ![p].at =
          IF ~query[p].fresh /\ 2 * Cardinality(S) < Cardinality(Resident(p))
          THEN "recount" ELSE "append"]
  BY DEF Select
<1> DEFINE Q == [query[p] EXCEPT !.found = S, !.at =
                   IF ~query[p].fresh /\ 2 * Cardinality(S) < Cardinality(Resident(p))
                   THEN "recount" ELSE "append"]
<1>2. OneSearch(p, entry[p], Q) /\ query[p].at = "select"
  BY <1>1 DEF OneSearch, Select, HistoryInv, IndInv, TypeOK
<1>3. Q.at \in {"recount", "append"} /\ Q.found = S
  BY SoundBefore DEF HistoryInv, Query
<1>4. \A m \in S : m \in Memories /\ row[m].live /\ Shown(m) # None
  BY DEF Embedded, Shown
<1> HIDE DEF Q
<1>5. Recorded(entry[p], query[p], seen[p])
  BY DEF HistoryInv, SeenOK
<1>6. \A m \in Q.found : seen[p][m] \ {None} # {}
  BY <1>2, <1>3, <1>4, <1>5 DEF Recorded
<1>7. Recorded(entry[p], Q, seen[p])
  BY <1>2, <1>3, <1>4, <1>5, <1>6 DEF Recorded, Chosen
<1> QED  BY <1>2, <1>7, SearchGoesOn

\* Counting the rows, before the scan and for the compaction.
LEMMA CountsRecord ==
  ASSUME HistoryInv, TypeOK', Observe, NEW p \in Processes, Count(p) \/ Recount(p)
  PROVE  SeenOK'
<1> DEFINE Q == query'[p]
<1>t. TypeOK /\ Sound(entry[p], query[p]) /\ query[p] \in Query
  BY SoundBefore DEF HistoryInv, IndInv
<1>1. /\ query[p].at \in {"count", "recount"}
      /\ Q.found = query[p].found /\ Q.at \in {"build", "append"}
      /\ query[p].at = "count" => Q.at = "build" /\ ~Q.fresh
  BY <1>t DEF Count, Recount, TypeOK, Query, Sound
<1>2. OneSearch(p, entry[p], Q)
  BY <1>t DEF OneSearch, Count, Recount, TypeOK
<1>3. Recorded(entry[p], query[p], seen[p])
  BY DEF HistoryInv, SeenOK
<1> HIDE DEF Q
<1>4. Recorded(entry[p], Q, seen[p])
  BY <1>1, <1>3 DEF Recorded, Chosen
<1> QED  BY <1>1, <1>2, <1>4, SearchGoesOn

\* A candidate that stays without a vector has none in the table either.
LEMMA AppendRecords ==
  ASSUME HistoryInv, TypeOK', Observe, NEW p \in Processes, Append(p)
  PROVE  SeenOK'
<1> DEFINE E == [entry[p] EXCEPT !.vec =
                   [m \in Memories |-> IF m \in Appended(p) THEN row[m].vec ELSE @[m]]]
           Q == [query[p] EXCEPT !.at = "rank"]
<1>t. TypeOK /\ entry[p] \in Entry /\ query[p] \in Query
  BY SoundBefore DEF HistoryInv, IndInv
<1>1. OneSearch(p, E, Q) /\ query[p].at = "append"
  BY DEF OneSearch, Append
<1>2. Q.at = "rank" /\ Q.found = query[p].found /\ Q.found \subseteq Memories
  BY <1>t DEF Query
<1>3. \A m \in Memories :
        E.vec[m] = IF m \in Appended(p) THEN row[m].vec ELSE entry[p].vec[m]
  BY <1>t DEF Entry
<1>4. \A m \in Appended(p) : row[m].vec = Shown(m) /\ row[m].vec # None
  BY DEF Appended, Embedded, Shown
<1>5. \A m \in query[p].found : E.vec[m] = None => Shown(m) = None
  BY <1>2, <1>3, <1>4 DEF Appended, Embedded, Resident, Shown
<1> HIDE DEF E, Q
<1>6. Recorded(entry[p], query[p], seen[p])
  BY DEF HistoryInv, SeenOK
<1>7. \A m \in Memories :
        E.vec[m] # None /\ (row[m].live \/ m \in Q.found) => E.vec[m] \in seen[p][m]
  BY <1>1, <1>2, <1>3, <1>4, <1>6 DEF Recorded, Chosen
<1>8. \A m \in Q.found : E.vec[m] = None => None \in seen[p][m]
  BY <1>1, <1>2, <1>5, <1>6 DEF Recorded
<1>9. Recorded(E, Q, seen[p])
  BY <1>1, <1>2, <1>6, <1>7, <1>8 DEF Recorded
<1> QED  BY <1>1, <1>9, SearchGoesOn

LEMMA EndsRecord ==
  ASSUME HistoryInv, TypeOK', Observe, NEW p \in Processes, Rank(p) \/ Drop(p)
  PROVE  SeenOK'
<1>1. PICK E \in {entry[p], Cold} : OneSearch(p, E, NoQuery)
  BY DEF OneSearch, Rank, Drop, HistoryInv, IndInv, TypeOK
<1>2. query[p].at # "idle" /\ NoQuery.at = "idle"
  BY DEF Rank, Drop, NoQuery
<1> QED  BY <1>1, <1>2, SearchGoesOn

\* No write brings a row back to life.
LEMMA WritesRecord ==
  ASSUME HistoryInv, TypeOK', Observe, Write \/ Embed \/ UNCHANGED vars
  PROVE  SeenOK'
<1>t. TypeOK
  BY DEF HistoryInv, IndInv
<1>1. UNCHANGED <<entry, query>>
  BY DEF Write, Create, Refresh, Archive, Redact, Embed, Prepare, Store, Abandon, vars
<1>2. ASSUME NEW m \in Memories, NEW t \in Texts, Create(m, t)
      PROVE  \A n \in Memories : row'[n].live => row[n].live \/ row[n].text = None
  BY <1>t, <1>2 DEF Create, NoRow, TypeOK
<1>3. ASSUME NEW m \in Memories, NEW t \in Texts, Refresh(m, t)
      PROVE  \A n \in Memories : row'[n].live => row[n].live
  BY <1>t, <1>3 DEF Refresh, TypeOK
<1>4. ASSUME NEW m \in Memories, Archive(m) \/ Redact(m)
      PROVE  \A n \in Memories : row'[n].live => row[n].live
  BY <1>t, <1>4 DEF Archive, Redact, NoRow, TypeOK
<1>5. ASSUME NEW e \in Embedders, Store(e)
      PROVE  \A n \in Memories : row'[n].live => row[n].live
  BY <1>t, <1>5 DEF Store, Fits, TypeOK, Row
<1>6. UNCHANGED row => \A n \in Memories : row'[n].live => row[n].live
  OBVIOUS
<1>7. \A n \in Memories : row'[n].live => row[n].live \/ row[n].text = None
  BY <1>2, <1>3, <1>4, <1>5, <1>6 DEF Write, Embed, Prepare, Abandon, vars
<1> QED  BY <1>1, <1>7, WriteRecords

LEMMA HistoryStep == HistoryInv /\ [HistoryNext]_history => HistoryInv'
<1> SUFFICES ASSUME HistoryInv, [HistoryNext]_history PROVE HistoryInv'
  OBVIOUS
<1>1. CASE HistoryNext
  <2>1. Next /\ Observe
    BY <1>1, HistoryStepIsStep
  <2>2. IndInv' /\ TypeOK'
    BY <2>1, InvariantStep DEF HistoryInv, IndInv
  <2>3. SeenOK'
    <3>1. CASE Write \/ Embed
      BY <2>1, <2>2, <3>1, WritesRecord
    <3>2. CASE Search
      BY <2>1, <2>2, <3>2, ValidateRecords, CountsRecord, BuildRecords, SelectRecords,
         AppendRecords, EndsRecord DEF Search
    <3> QED  BY <2>1, <3>1, <3>2 DEF Next
  <2> QED  BY <2>2, <2>3 DEF HistoryInv
<1>2. CASE UNCHANGED history
  <2>1. UNCHANGED vars /\ seen' = seen /\ IndInv'
    BY <1>2, InvariantStep DEF history, HistoryInv
  <2>2. SeenOK'
    BY <2>1 DEF vars, HistoryInv, SeenOK, Recorded, Shown, Chosen
  <2> QED  BY <2>1, <2>2 DEF HistoryInv
<1> QED  BY <1>1, <1>2

\* With its history beside it the cache still does what it did.
THEOREM HistoryInvariant == HistorySpec => []HistoryInv
  BY HistoryInitIsInductive, HistoryStep, PTL DEF HistorySpec

\* Every candidate of a ranking is ranked by what its row held during the search.
THEOREM RankingsAreRegular == HistorySpec => []RankingRegular
<1>1. HistoryInv => RankingRegular
  <2> SUFFICES ASSUME HistoryInv, NEW p \in Processes, query[p].at = "rank",
                      NEW m \in query[p].found
               PROVE  /\ seen[p][m] \ {None} # {}
                      /\ entry[p].vec[m] \in seen[p][m]
    BY DEF RankingRegular
  <2>1. Recorded(entry[p], query[p], seen[p]) /\ m \in Memories
    BY SoundBefore DEF HistoryInv, SeenOK, Query
  <2> QED  BY <2>1 DEF Recorded, Chosen
<1> QED  BY <1>1, HistoryInvariant, PTL
=============================================================================

------------------------ MODULE ProjectUpdatesProofs ------------------------
(***************************************************************************)
(* Theorems about ProjectUpdates: one candidate per inputs, and, until     *)
(* something is redacted, memory and artifact tell one outcome and the     *)
(* stored events prove it.  The step that could break all three is a       *)
(* publication; PublishShape says that it stores a pair or repeats one.    *)
(***************************************************************************)
EXTENDS ProjectUpdatesRefinement, TLAPS

MemoryRow   == [status : {"absent", "candidate", "active", "rejected", "superseded",
                          "archived", "private_only", "stale"},
                key : Digests \cup {None}]
ArtifactRow == [status : {"absent", "needs_review", "accepted", "rejected"},
                key : Digests \cup {None}, cand : Memories \cup {None},
                redacted : BOOLEAN]
Creation    == [art : Artifacts, mem : Memories, plain : BOOLEAN]
Verdict     == [art : Artifacts, mem : Memories, plain : BOOLEAN,
                verdict : {"accepted", "rejected"}]
Busy        == [step : {"read", "remembered", "stored"}, key : Digests,
                mem : Memories \cup {None, Own}, art : Artifacts \cup {None, Own}]

LEMMA TypeParts ==
  TypeOK <=>
    /\ project \in States /\ evidence \in States
    /\ mem \in [Memories -> MemoryRow] /\ art \in [Artifacts -> ArtifactRow]
    /\ created \subseteq Creation /\ decided \subseteq Verdict
    /\ gen \in [Generators -> {Idle} \cup Busy]
    /\ scanned \subseteq Memories /\ redacted \in 0..Redactions
  BY DEF TypeOK, MemoryRow, ArtifactRow, Creation, Verdict, Busy

LEMMA NoRows ==
  /\ NoArtifact \in ArtifactRow /\ NoArtifact.status = "absent"
  /\ NoArtifact.key = None /\ NoArtifact.cand = None
  /\ NoMemory \in MemoryRow /\ NoMemory.status = "absent" /\ NoMemory.key = None
  /\ Idle.step = "idle" /\ Idle.mem = None /\ Idle.art = None
  /\ None \notin Memories /\ None \notin Artifacts /\ None \notin Digests
  /\ Own \notin Memories /\ Own \notin Artifacts /\ Own # None
  BY MarksAreNoIds DEF NoArtifact, NoMemory, Idle, ArtifactRow, MemoryRow

LEMMA InitIsInductive == Init => IndInv
<1> SUFFICES ASSUME Init PROVE IndInv
  OBVIOUS
<1>1. /\ mem = [m \in Memories |-> NoMemory] /\ art = [a \in Artifacts |-> NoArtifact]
      /\ gen = [g \in Generators |-> Idle] /\ created = {} /\ decided = {}
      /\ scanned = {} /\ redacted = 0 /\ project \in States /\ evidence \in States
  BY DEF Init
<1>3. TypeOK
  BY <1>1, TypeParts, NoRows, RedactionBound
<1>4. RowsOK /\ OneCandidatePerInputs
  BY <1>1, NoRows DEF RowsOK, OneCandidatePerInputs
<1>5. OutcomesAgree
  BY <1>1, NoRows DEF OutcomesAgree, Agreed
<1>6. PairsOK /\ FoundOK /\ EventsOK /\ SweepsOK
  BY <1>1, NoRows DEF PairsOK, FoundOK, EventsOK, SweepsOK
<1> QED  BY <1>3, <1>4, <1>5, <1>6 DEF IndInv

-----------------------------------------------------------------------------
(* Looks: steps that write no row.                                         *)

LEMMA LookStep ==
  ASSUME IndInv, UNCHANGED <<mem, art, created, decided, scanned, redacted>>,
         project' \in States, evidence' \in States,
         gen' \in [Generators -> {Idle} \cup Busy],
         redacted = 0 => FoundOK'
  PROVE  IndInv'
<1>1. TypeOK'
  BY DEF IndInv, TypeOK, Busy
<1>2. RowsOK' /\ OneCandidatePerInputs' /\ OutcomesAgree'
  BY DEF IndInv, RowsOK, OneCandidatePerInputs, OutcomesAgree, Agreed
<1>3. redacted = 0 => PairsOK' /\ EventsOK' /\ SweepsOK'
  BY DEF IndInv, PairsOK, EventsOK, SweepsOK, Decision
<1> QED  BY <1>1, <1>2, <1>3 DEF IndInv

LEMMA GeneratorMoves ==
  ASSUME IndInv, NEW g \in Generators, NEW v \in {Idle} \cup Busy,
         gen' = [gen EXCEPT ![g] = v],
         UNCHANGED <<project, evidence, mem, art, created, decided, scanned, redacted>>,
         redacted = 0 =>
           /\ v.mem \in Memories => v.key # None /\ mem[v.mem].key = v.key
           /\ v.art \in Artifacts => v.key # None /\ art[v.art].key = v.key
  PROVE  IndInv'
<1>t. TypeOK
  BY DEF IndInv
<1>1. /\ gen' \in [Generators -> {Idle} \cup Busy] /\ gen'[g] = v
      /\ \A h \in Generators \ {g} : gen'[h] = gen[h]
  BY <1>t, TypeParts
<1>2. redacted = 0 => FoundOK'
  BY <1>1 DEF IndInv, FoundOK
<1>3. project' \in States /\ evidence' \in States
  BY <1>t, TypeParts
<1> QED  BY <1>1, <1>2, <1>3, LookStep

LEMMA ObserveStep ==
  ASSUME IndInv, NEW e \in States, Observe(e)
  PROVE  IndInv'
<1>1. gen' \in [Generators -> {Idle} \cup Busy] /\ project' \in States
  BY TypeParts DEF IndInv, Observe
<1>2. redacted = 0 => FoundOK'
  BY DEF IndInv, FoundOK, Observe
<1> QED  BY <1>1, <1>2, LookStep DEF Observe

\* A generator that is not idle has its row.
LEMMA BusyRow ==
  ASSUME IndInv, NEW g \in Generators
  PROVE  /\ gen[g].step # "idle" => gen[g] \in Busy
         /\ gen[g].step = "idle" => gen[g] = Idle
         /\ redacted = 0 =>
              /\ gen[g].mem \in Memories =>
                   gen[g].key # None /\ mem[gen[g].mem].key = gen[g].key
              /\ gen[g].art \in Artifacts =>
                   gen[g].key # None /\ art[gen[g].art].key = gen[g].key
<1>1. gen[g] = Idle \/ gen[g] \in Busy
  BY TypeParts DEF IndInv
<1>2. gen[g].step # "idle" => gen[g] \in Busy
  BY <1>1, NoRows
<1>3. gen[g].step = "idle" => gen[g] = Idle
  BY <1>1 DEF Busy
<1> QED  BY <1>2, <1>3 DEF IndInv, FoundOK

LEMMA ReadStep ==
  ASSUME IndInv, NEW g \in Generators, Read(g)
  PROVE  IndInv'
<1> DEFINE v == [Idle EXCEPT !.step = "read", !.key = Digest]
<1>1. Digest \in Digests
  BY TypeParts DEF IndInv, Digest, Digests
<1>2. v \in Busy /\ v.mem = None /\ v.art = None
  BY <1>1, MarksAreNoIds DEF Busy, Idle
<1>3. gen[g] = Idle
  BY BusyRow DEF Read
<1>4. gen' = [gen EXCEPT ![g] = v]
  BY <1>3 DEF Read
<1> HIDE DEF v
<1> QED  BY <1>2, <1>4, NoRows, GeneratorMoves DEF Read

LEMMA RememberStep ==
  ASSUME IndInv, NEW g \in Generators, Remember(g)
  PROVE  IndInv'
<1>1. gen[g] \in Busy /\ gen[g].key \in Digests
  BY BusyRow DEF Remember, Busy
<1>2. PICK m \in WithMemKey(gen[g].key) \cup {Own} :
        gen' = [gen EXCEPT ![g].step = "remembered", ![g].mem = m]
  BY DEF Remember
<1> DEFINE v == [gen[g] EXCEPT !.step = "remembered", !.mem = m]
<1>3. v \in Busy /\ v.mem = m /\ v.art = gen[g].art /\ v.key = gen[g].key
  BY <1>1, <1>2 DEF Busy, WithMemKey
<1>4. m \in Memories => mem[m].key = gen[g].key
  BY <1>2, NoRows DEF WithMemKey
<1>5. gen' = [gen EXCEPT ![g] = v]
  BY <1>2
<1> HIDE DEF v
<1> QED  BY <1>1, <1>3, <1>4, <1>5, BusyRow, NoRows, GeneratorMoves DEF Remember

LEMMA StoreStep ==
  ASSUME IndInv, NEW g \in Generators, Store(g)
  PROVE  IndInv'
<1>1. gen[g] \in Busy /\ gen[g].key \in Digests
  BY BusyRow DEF Store, Busy
<1>2. PICK a \in WithArtKey(gen[g].key) \cup {Own} :
        gen' = [gen EXCEPT ![g].step = "stored", ![g].art = a]
  BY DEF Store
<1> DEFINE v == [gen[g] EXCEPT !.step = "stored", !.art = a]
<1>3. v \in Busy /\ v.mem = gen[g].mem /\ v.art = a /\ v.key = gen[g].key
  BY <1>1, <1>2 DEF Busy, WithArtKey
<1>4. a \in Artifacts => art[a].key = gen[g].key
  BY <1>2, NoRows DEF WithArtKey
<1>5. gen' = [gen EXCEPT ![g] = v]
  BY <1>2
<1> HIDE DEF v
<1> QED  BY <1>1, <1>3, <1>4, <1>5, BusyRow, NoRows, GeneratorMoves DEF Store

LEMMA DropStep ==
  ASSUME IndInv, NEW g \in Generators, Drop(g)
  PROVE  IndInv'
  BY NoRows, GeneratorMoves DEF Drop

-----------------------------------------------------------------------------
(* A publication.                                                          *)

\* What a publication stores.
NewMemory(m, d)      == mem' = [mem EXCEPT ![m] = [status |-> "candidate", key |-> d]]
NewArtifact(a, m, d) == art' = [art EXCEPT ![a] = [status |-> "needs_review", cand |-> m,
                                                   key |-> d, redacted |-> FALSE]]

\* A row is added only under a digest that no row has.
LEMMA PublishAdds ==
  ASSUME NEW g \in Generators, NEW m \in Memories, NEW a \in Artifacts,
         PublishesMemory(g, m), PublishesArtifact(g, m, a)
  PROVE  /\ \/ UNCHANGED mem
            \/ /\ mem[m].status = "absent" /\ NewMemory(m, gen[g].key)
               /\ \A n \in Memories : mem[n].key # gen[g].key
         /\ \/ UNCHANGED art
            \/ /\ art[a].status = "absent" /\ NewArtifact(a, m, gen[g].key)
               /\ \A b \in Artifacts : art[b].key # gen[g].key
  BY DEF PublishesMemory, PublishesArtifact, WithMemKey, WithArtKey, NewMemory,
         NewArtifact

\* Before any redaction it stores a pair, or finds one.
LEMMA PublishShape ==
  ASSUME IndInv, redacted = 0, NEW g \in Generators, gen[g] \in Busy,
         NEW m \in Memories, NEW a \in Artifacts,
         PublishesMemory(g, m), PublishesArtifact(g, m, a)
  PROVE  \/ /\ UNCHANGED <<mem, art>>
            /\ art[a].status # "absent" /\ art[a].cand = m
         \/ /\ mem[m].status = "absent" /\ NewMemory(m, gen[g].key)
            /\ art[a].status = "absent" /\ NewArtifact(a, m, gen[g].key)
<1> DEFINE d == gen[g].key
<1>0. /\ PairsOK /\ RowsOK /\ OneCandidatePerInputs /\ TypeOK /\ d \in Digests
      /\ d # None
  BY NoRows DEF IndInv, Busy
<1>1. \/ UNCHANGED mem /\ mem[m].key = d
      \/ /\ mem[m].status = "absent" /\ NewMemory(m, d)
         /\ \A n \in Memories : mem[n].key # d
  BY BusyRow DEF PublishesMemory, WithMemKey, NewMemory
<1>2. \/ UNCHANGED art /\ art[a].key = d
      \/ /\ art[a].status = "absent" /\ NewArtifact(a, m, d)
         /\ \A b \in Artifacts : art[b].key # d
  BY BusyRow DEF PublishesArtifact, WithArtKey, NewArtifact
<1> HIDE DEF d
<1>3. \A b \in Artifacts : art[b].key = d =>
        art[b].status # "absent" /\ art[b].cand \in Memories /\ mem[art[b].cand].key = d
  BY <1>0, NoRows DEF RowsOK, PairsOK
<1>4. mem[m].key = d => \E b \in Artifacts : art[b].key = d
  <2> SUFFICES ASSUME mem[m].key = d PROVE \E b \in Artifacts : art[b].key = d
    OBVIOUS
  <2>1. mem[m].status # "absent"
    BY <1>0, NoRows DEF RowsOK
  <2>2. PICK b \in Artifacts : art[b].status # "absent" /\ art[b].cand = m
    BY <1>0, <2>1 DEF PairsOK
  <2> QED  BY <1>0, <2>2 DEF PairsOK
<1>5. CASE UNCHANGED mem /\ mem[m].key = d
  <2>1. UNCHANGED art /\ art[a].key = d
    BY <1>2, <1>4, <1>5
  <2>2. art[a].cand = m
    BY <1>0, <1>3, <1>5, <2>1 DEF OneCandidatePerInputs
  <2> QED  BY <1>3, <1>5, <2>1, <2>2
<1>6. CASE /\ mem[m].status = "absent" /\ NewMemory(m, d)
           /\ \A n \in Memories : mem[n].key # d
  <2>1. art[a].status = "absent" /\ NewArtifact(a, m, d)
    BY <1>2, <1>3, <1>6
  <2> QED  BY <1>6, <2>1 DEF d
<1> QED  BY <1>1, <1>5, <1>6

LEMMA PublishTyped ==
  ASSUME IndInv, NEW g \in Generators, Publish(g)
  PROVE  TypeOK' /\ RowsOK' /\ OneCandidatePerInputs'
<1>t. TypeOK /\ RowsOK /\ OneCandidatePerInputs
  BY DEF IndInv
<1>g. gen[g] \in Busy /\ gen[g].key \in Digests /\ gen[g].key # None
  BY BusyRow, NoRows DEF Publish, Busy
<1>1. PICK m \in Memories, a \in Artifacts :
        /\ PublishesMemory(g, m) /\ PublishesArtifact(g, m, a)
        /\ created' = created \cup {[art |-> a, mem |-> m, plain |-> TRUE]}
  BY DEF Publish
<1> DEFINE d == gen[g].key
<1>2. /\ \/ UNCHANGED mem
         \/ /\ mem[m].status = "absent" /\ NewMemory(m, d)
            /\ \A n \in Memories : mem[n].key # d
      /\ \/ UNCHANGED art
         \/ /\ art[a].status = "absent" /\ NewArtifact(a, m, d)
            /\ \A b \in Artifacts : art[b].key # d
  BY <1>1, PublishAdds
<1>d. d \in Digests /\ d # None
  BY <1>g
<1> HIDE DEF d
<1>r. /\ [status |-> "candidate", key |-> d] \in MemoryRow
      /\ [status |-> "needs_review", cand |-> m, key |-> d, redacted |-> FALSE]
           \in ArtifactRow
  BY <1>d DEF MemoryRow, ArtifactRow
<1>3. /\ mem' \in [Memories -> MemoryRow]
      /\ \A n \in Memories :
           \/ mem'[n] = mem[n]
           \/ n = m /\ mem'[n].key = d /\ mem'[n].status = "candidate"
      /\ UNCHANGED mem \/ \A n \in Memories : mem[n].key # d
  <2>1. mem \in [Memories -> MemoryRow]
    BY <1>t, TypeParts
  <2>2. CASE UNCHANGED mem
    BY <2>1, <2>2
  <2>3. CASE /\ mem[m].status = "absent" /\ NewMemory(m, d)
             /\ \A n \in Memories : mem[n].key # d
    BY <2>1, <2>3, <1>r DEF NewMemory
  <2> QED  BY <1>2, <2>2, <2>3
<1>4. /\ art' \in [Artifacts -> ArtifactRow]
      /\ \A b \in Artifacts :
           \/ art'[b] = art[b]
           \/ b = a /\ art'[b].key = d /\ art'[b].cand = m
                    /\ art'[b].status = "needs_review"
      /\ UNCHANGED art \/ \A b \in Artifacts : art[b].key # d
  <2>1. art \in [Artifacts -> ArtifactRow]
    BY <1>t, TypeParts
  <2>2. CASE UNCHANGED art
    BY <2>1, <2>2
  <2>3. CASE /\ art[a].status = "absent" /\ NewArtifact(a, m, d)
             /\ \A b \in Artifacts : art[b].key # d
    BY <2>1, <2>3, <1>r DEF NewArtifact
  <2> QED  BY <1>2, <2>2, <2>3
<1>5. TypeOK'
  <2>0. [art |-> a, mem |-> m, plain |-> TRUE] \in Creation
    BY DEF Creation
  <2>1. created' \subseteq Creation
    BY <1>t, <1>1, <2>0, TypeParts
  <2>2. gen' \in [Generators -> {Idle} \cup Busy]
    BY <1>t, TypeParts DEF Publish
  <2>3. UNCHANGED <<project, evidence, decided, scanned, redacted>>
    BY DEF Publish
  <2> QED  BY <1>t, <1>3, <1>4, <2>1, <2>2, <2>3 DEF TypeOK, MemoryRow, ArtifactRow,
             Creation, Busy
<1>6. RowsOK'
  <2>1. \A n \in scanned' : mem'[n].status # "absent"
    <3>1. scanned' = scanned /\ scanned \subseteq Memories
      BY <1>t, TypeParts DEF Publish
    <3>2. \A n \in scanned : mem[n].status # "absent"
      BY <1>t DEF RowsOK
    <3> QED  BY <1>3, <3>1, <3>2
  <2>2. /\ \A b \in Artifacts : art'[b] = NoArtifact \/ art'[b].cand \in Memories
        /\ \A n \in Memories : mem'[n].status = "absent" => mem'[n] = NoMemory
        /\ \A b \in Artifacts : art'[b].status = "absent" => art'[b] = NoArtifact
    BY <1>t, <1>3, <1>4, NoRows DEF RowsOK
  <2> QED  BY <2>1, <2>2 DEF RowsOK
<1>7. OneCandidatePerInputs'
  BY <1>t, <1>3, <1>4 DEF OneCandidatePerInputs
<1> QED  BY <1>5, <1>6, <1>7

LEMMA PublishStep ==
  ASSUME IndInv, NEW g \in Generators, Publish(g)
  PROVE  IndInv'
<1>1. TypeOK' /\ RowsOK' /\ OneCandidatePerInputs'
  BY PublishTyped
<1>2. redacted' = redacted
  BY DEF Publish
<1>3. ASSUME redacted = 0
      PROVE  OutcomesAgree' /\ PairsOK' /\ FoundOK' /\ EventsOK' /\ SweepsOK'
  <2>t. /\ TypeOK /\ RowsOK /\ OutcomesAgree /\ PairsOK /\ FoundOK /\ EventsOK
        /\ SweepsOK
    BY <1>3 DEF IndInv
  <2>g. gen[g] \in Busy /\ gen[g].key \in Digests /\ gen[g].key # None
    BY BusyRow, NoRows DEF Publish, Busy
  <2>f. /\ gen'[g] = Idle /\ \A h \in Generators \ {g} : gen'[h] = gen[h]
        /\ decided' = decided /\ scanned' = scanned
    BY <2>t, TypeParts DEF Publish
  <2>1. PICK m \in Memories, a \in Artifacts :
          /\ PublishesMemory(g, m) /\ PublishesArtifact(g, m, a)
          /\ created' = created \cup {[art |-> a, mem |-> m, plain |-> TRUE]}
    BY DEF Publish
  <2>2. \/ /\ UNCHANGED <<mem, art>>
           /\ art[a].status # "absent" /\ art[a].cand = m
        \/ /\ mem[m].status = "absent" /\ NewMemory(m, gen[g].key)
           /\ art[a].status = "absent" /\ NewArtifact(a, m, gen[g].key)
    BY <1>3, <2>1, <2>g, PublishShape
  <2>3. CASE UNCHANGED <<mem, art>> /\ art[a].status # "absent" /\ art[a].cand = m
    <3>1. OutcomesAgree' /\ PairsOK'
      BY <1>2, <2>t, <2>3 DEF OutcomesAgree, Agreed, PairsOK
    <3>2. FoundOK'
      BY <2>t, <2>3, <2>f, NoRows DEF FoundOK
    <3>3. EventsOK'
      BY <2>t, <2>1, <2>3, <2>f DEF EventsOK, Decision
    <3>4. SweepsOK'
      BY <2>t, <2>3, <2>f DEF SweepsOK
    <3> QED  BY <3>1, <3>2, <3>3, <3>4
  <2>4. CASE /\ mem[m].status = "absent" /\ NewMemory(m, gen[g].key)
             /\ art[a].status = "absent" /\ NewArtifact(a, m, gen[g].key)
    <3>1. /\ mem'[m] = [status |-> "candidate", key |-> gen[g].key]
          /\ art'[a] = [status |-> "needs_review", cand |-> m, key |-> gen[g].key,
                        redacted |-> FALSE]
          /\ \A n \in Memories \ {m} : mem'[n] = mem[n]
          /\ \A b \in Artifacts \ {a} : art'[b] = art[b]
      BY <2>t, <2>4, TypeParts DEF NewMemory, NewArtifact
    <3>2. mem[m] = NoMemory /\ art[a] = NoArtifact
      BY <2>t, <2>4 DEF RowsOK
    <3>3. \A b \in Artifacts \ {a} :
            /\ art[b].cand # m
            /\ art[b].status # "absent" => art[b].cand \in Memories \ {m}
      BY <2>t, <3>2, NoRows DEF RowsOK, PairsOK
    <3>4. OutcomesAgree'
      BY <2>t, <3>1, <3>3, <1>2, <1>3, NoRows DEF OutcomesAgree, Agreed
    <3>5. PairsOK'
      <4>1. \A b \in Artifacts : art'[b].status # "absent" =>
              art'[b].key # None /\ ~art'[b].redacted /\ mem'[art'[b].cand].key = art'[b].key
        BY <2>t, <2>g, <3>1, <3>3 DEF PairsOK
      <4>2. \A n \in Memories : mem'[n].status # "absent" =>
              \E b \in Artifacts : art'[b].status # "absent" /\ art'[b].cand = n
        BY <2>t, <3>1, <3>2, NoRows DEF PairsOK
      <4> QED  BY <4>1, <4>2 DEF PairsOK
    <3>6. FoundOK'
      BY <2>t, <2>f, <3>1, <3>2, NoRows DEF FoundOK
    <3>7. EventsOK'
      <4>1. /\ \A e \in created : e.art # a
            /\ \A e \in decided : e.art # a /\ e.art \in Artifacts
            /\ \A e \in created : e.art \in Artifacts
        BY <2>t, <3>2, NoRows, TypeParts DEF EventsOK, Creation, Verdict
      <4>2. \A e \in created' : e.plain /\ art'[e.art].cand = e.mem
        BY <2>t, <2>1, <3>1, <4>1 DEF EventsOK
      <4>3. \A e \in decided' :
              e.plain /\ art'[e.art].cand = e.mem /\ art'[e.art].status = e.verdict
        BY <2>t, <2>f, <3>1, <4>1 DEF EventsOK
      <4>4. \A b \in Artifacts : art'[b].status # "absent" =>
              [art |-> b, mem |-> art'[b].cand, plain |-> TRUE] \in created'
        <5>1. art'[a].cand = m
          BY <3>1
        <5>2. [art |-> a, mem |-> art'[a].cand, plain |-> TRUE] \in created'
          BY <2>1, <5>1
        <5>3. \A b \in Artifacts \ {a} : art'[b].status # "absent" =>
                [art |-> b, mem |-> art'[b].cand, plain |-> TRUE] \in created
          BY <2>t, <3>1 DEF EventsOK
        <5> QED  BY <2>1, <5>2, <5>3
      <4>5. \A b \in Artifacts : art'[b].status \in {"accepted", "rejected"} =>
              Decision(b, art[b].status)' \in decided'
        BY <2>t, <2>f, <3>1 DEF EventsOK, Decision
      <4> QED  BY <4>2, <4>3, <4>4, <4>5 DEF EventsOK
    <3>8. SweepsOK'
      BY <2>t, <2>4, <2>f, <3>1 DEF RowsOK, SweepsOK
    <3> QED  BY <3>4, <3>5, <3>6, <3>7, <3>8
  <2> QED  BY <2>2, <2>3, <2>4
<1> QED  BY <1>1, <1>2, <1>3 DEF IndInv, OutcomesAgree

-----------------------------------------------------------------------------
(* Decisions, and what happens to memories after them.                     *)

\* A review writes one outcome into a pending artifact, its memory and an event.
LEMMA DecisionStep ==
  ASSUME IndInv, NEW a \in Artifacts, Pending(a),
         NEW verdict \in {"accepted", "rejected"},
         NEW status \in {"active", "rejected"},
         status = IF verdict = "accepted" THEN "active" ELSE "rejected",
         project' \in States,
         mem' = [mem EXCEPT ![art[a].cand].status = status],
         art' = [art EXCEPT ![a].status = verdict],
         decided' = decided \cup {Decision(a, verdict)},
         UNCHANGED <<evidence, created, gen, scanned, redacted>>
  PROVE  IndInv'
<1>t. TypeOK /\ RowsOK /\ OneCandidatePerInputs /\ OutcomesAgree
  BY DEF IndInv
<1>0. PICK m \in Memories : m = art[a].cand
  BY <1>t, NoRows DEF Pending, RowsOK
<1>1. /\ mem' \in [Memories -> MemoryRow]
      /\ mem'[m].status = status /\ mem'[m].key = mem[m].key
      /\ \A n \in Memories \ {m} : mem'[n] = mem[n]
      /\ mem[m].status = "candidate"
  BY <1>t, <1>0, TypeParts DEF MemoryRow, Pending
<1>2. /\ art' \in [Artifacts -> ArtifactRow]
      /\ art'[a].status = verdict /\ art'[a].key = art[a].key
      /\ art'[a].cand = m /\ art'[a].redacted = art[a].redacted
      /\ \A b \in Artifacts \ {a} : art'[b] = art[b]
      /\ art[a].status = "needs_review"
  BY <1>t, <1>0, TypeParts DEF ArtifactRow, Pending
<1>3. /\ decided' = decided
           \cup {[art |-> a, mem |-> m, verdict |-> verdict, plain |-> TRUE]}
      /\ decided' \subseteq Verdict
  <2> DEFINE e == [art |-> a, mem |-> m, verdict |-> verdict, plain |-> TRUE]
  <2>1. e \in Verdict
    BY DEF Verdict
  <2>2. Decision(a, verdict) = e
    BY <1>0 DEF Decision
  <2>3. decided \subseteq Verdict
    BY <1>t, TypeParts
  <2> QED  BY <2>1, <2>2, <2>3
<1>4. TypeOK'
  BY <1>t, <1>1, <1>2, <1>3 DEF TypeOK, MemoryRow, ArtifactRow, Verdict
<1>5. RowsOK'
  BY <1>t, <1>1, <1>2, NoRows DEF RowsOK
<1>6. OneCandidatePerInputs'
  BY <1>t, <1>1, <1>2 DEF OneCandidatePerInputs
<1>7. ASSUME redacted = 0
      PROVE  OutcomesAgree' /\ PairsOK' /\ FoundOK' /\ EventsOK' /\ SweepsOK'
  <2>t. PairsOK /\ FoundOK /\ EventsOK /\ SweepsOK
    BY <1>7 DEF IndInv
  <2>1. \A b \in Artifacts \ {a} : art[b].cand # m
    BY <1>t, <1>0, <1>7, NoRows DEF OutcomesAgree
  <2>2. OutcomesAgree'
    <3>1. \A b \in Artifacts : art[b].status # "absent" => art[b].cand \in Memories
      BY <1>t, NoRows DEF RowsOK
    <3>2. Agreed(a)'
      BY <1>1, <1>2 DEF Agreed
    <3>3. \A b \in Artifacts \ {a} : Agreed(b)'
      BY <1>t, <1>1, <1>2, <1>7, <2>1, <3>1 DEF OutcomesAgree, Agreed
    <3>4. \A b, c \in Artifacts :
            b # c /\ art'[b].cand # None => art'[b].cand # art'[c].cand
      BY <1>t, <1>0, <1>2, <1>7 DEF OutcomesAgree
    <3> QED  BY <3>2, <3>3, <3>4 DEF OutcomesAgree
  <2>3. PairsOK'
    <3>1. \A b \in Artifacts : art'[b].status # "absent" =>
            art'[b].key # None /\ ~art'[b].redacted /\ mem'[art'[b].cand].key = art'[b].key
      BY <1>0, <1>1, <1>2, <1>t, <2>t, NoRows DEF PairsOK, RowsOK
    <3>2. \A n \in Memories : mem'[n].status # "absent" =>
            \E b \in Artifacts : art'[b].status # "absent" /\ art'[b].cand = n
      BY <1>0, <1>1, <1>2, <2>t DEF PairsOK
    <3> QED  BY <3>1, <3>2 DEF PairsOK
  <2>4. FoundOK'
    BY <1>1, <1>2, <2>t DEF FoundOK
  <2>5. EventsOK'
    <3>1. \A e \in decided : e.art # a /\ e.art \in Artifacts
      BY <1>t, <1>2, <2>t, TypeParts DEF EventsOK, Verdict
    <3>2. \A e \in created : e.art \in Artifacts
      BY <1>t, TypeParts DEF Creation
    <3>3. \A e \in created' : e.plain /\ art'[e.art].cand = e.mem
      BY <1>0, <1>2, <2>t, <3>2 DEF EventsOK
    <3>4. \A e \in decided' :
            e.plain /\ art'[e.art].cand = e.mem /\ art'[e.art].status = e.verdict
      BY <1>2, <1>3, <2>t, <3>1 DEF EventsOK
    <3>5. \A b \in Artifacts : art'[b].status # "absent" =>
            [art |-> b, mem |-> art'[b].cand, plain |-> TRUE] \in created'
      BY <1>0, <1>2, <2>t DEF EventsOK
    <3>6. \A b \in Artifacts : art'[b].status \in {"accepted", "rejected"} =>
            Decision(b, art[b].status)' \in decided'
      BY <1>2, <1>3, <2>t DEF EventsOK, Decision
    <3> QED  BY <3>3, <3>4, <3>5, <3>6 DEF EventsOK
  <2>6. SweepsOK'
    BY <1>0, <1>2, <2>t DEF SweepsOK
  <2> QED  BY <2>2, <2>3, <2>4, <2>5, <2>6
<1> QED  BY <1>4, <1>5, <1>6, <1>7 DEF IndInv, OutcomesAgree

LEMMA AcceptStep ==
  ASSUME IndInv, NEW a \in Artifacts, NEW text \in States, Accept(a, text)
  PROVE  IndInv'
  BY DecisionStep DEF Accept

LEMMA RejectStep ==
  ASSUME IndInv, NEW a \in Artifacts, Reject(a)
  PROVE  IndInv'
<1>1. project' \in States
  BY TypeParts DEF IndInv, Reject
<1> QED  BY <1>1, DecisionStep DEF Reject

\* A change of a memory that its review has accepted, or that no artifact names.
LEMMA LaterChange ==
  ASSUME IndInv, NEW m \in Memories, mem[m].status # "absent",
         NEW status \in {"active", "private_only", "rejected", "superseded", "stale"},
         mem' = [mem EXCEPT ![m].status = status],
         redacted = 0 =>
           \A a \in Artifacts : art[a].cand = m => art[a].status = "accepted",
         UNCHANGED <<project, evidence, art, created, decided, gen, scanned, redacted>>
  PROVE  IndInv'
<1>t. TypeOK /\ RowsOK /\ OneCandidatePerInputs /\ OutcomesAgree
  BY DEF IndInv
<1>1. /\ mem' \in [Memories -> MemoryRow]
      /\ mem'[m].status = status /\ mem'[m].key = mem[m].key
      /\ \A n \in Memories \ {m} : mem'[n] = mem[n]
  BY <1>t, TypeParts DEF MemoryRow
<1>3. TypeOK'
  BY <1>t, <1>1 DEF TypeOK, MemoryRow
<1>4. RowsOK' /\ OneCandidatePerInputs'
  BY <1>t, <1>1 DEF RowsOK, OneCandidatePerInputs
<1>5. OutcomesAgree'
  <2>1. \A a \in Artifacts : art[a].status # "absent" => art[a].cand \in Memories
    BY <1>t, NoRows DEF RowsOK
  <2>2. ASSUME redacted = 0, NEW a \in Artifacts PROVE Agreed(a)'
    <3>1. CASE art[a].cand = m
      BY <1>1, <2>2, <3>1 DEF Agreed
    <3>2. CASE art[a].cand # m
      BY <1>t, <1>1, <2>1, <2>2, <3>2 DEF OutcomesAgree, Agreed
    <3> QED  BY <3>1, <3>2
  <2> QED  BY <1>t, <2>2 DEF OutcomesAgree
<1>6. redacted = 0 => PairsOK' /\ FoundOK' /\ EventsOK' /\ SweepsOK'
  <2> SUFFICES ASSUME redacted = 0 PROVE PairsOK' /\ FoundOK' /\ EventsOK' /\ SweepsOK'
    OBVIOUS
  <2>t. PairsOK /\ FoundOK /\ EventsOK /\ SweepsOK
    BY DEF IndInv
  <2>1. \A a \in Artifacts : art[a].status # "absent" => art[a].cand \in Memories
    BY <1>t, NoRows DEF RowsOK
  <2>2. PairsOK'
    BY <1>1, <2>t, <2>1 DEF PairsOK
  <2>3. FoundOK'
    BY <1>1, <2>t DEF FoundOK
  <2>4. EventsOK' /\ SweepsOK'
    BY <2>t DEF EventsOK, SweepsOK, Decision
  <2> QED  BY <2>2, <2>3, <2>4
<1> QED  BY <1>3, <1>4, <1>5, <1>6 DEF IndInv

\* Before any redaction a memory that is neither a candidate nor rejected was
\* accepted, and so was one that a sweep has read.
LEMMA InUseIsAccepted ==
  ASSUME IndInv, redacted = 0, NEW m \in Memories, NEW a \in Artifacts, art[a].cand = m,
         mem[m].status \notin {"candidate", "rejected"} \/ m \in scanned
  PROVE  art[a].status = "accepted"
<1>1. /\ art[a] \in ArtifactRow /\ art[a].cand # None /\ RowsOK
      /\ Agreed(a) /\ SweepsOK
  BY TypeParts, NoRows DEF IndInv, OutcomesAgree
<1>2. art[a].status \in {"needs_review", "accepted", "rejected"}
  BY <1>1, NoRows DEF ArtifactRow, RowsOK
<1> QED  BY <1>1, <1>2 DEF Agreed, SweepsOK

LEMMA ChangeStep ==
  ASSUME IndInv, NEW m \in Memories,
         NEW status \in {"active", "private_only", "rejected", "superseded"},
         Change(m, status)
  PROVE  IndInv'
<1>1. mem[m].status \notin {"absent", "candidate", "rejected"}
  BY DEF Change, Decided
<1>2. redacted = 0 => \A a \in Artifacts : art[a].cand = m => art[a].status = "accepted"
  BY <1>1, InUseIsAccepted
<1> QED  BY <1>1, <1>2, LaterChange DEF Change

LEMMA MarkStep ==
  ASSUME IndInv, NEW m \in Memories, Mark(m)
  PROVE  IndInv'
<1>1. m \in scanned /\ mem[m].status # "absent"
  BY DEF Mark, IndInv, RowsOK
<1>2. redacted = 0 => \A a \in Artifacts : art[a].cand = m => art[a].status = "accepted"
  BY <1>1, InUseIsAccepted
<1> QED  BY <1>1, <1>2, LaterChange DEF Mark

LEMMA ScanStep ==
  ASSUME IndInv, NEW m \in Memories, Scan(m)
  PROVE  IndInv'
<1>t. TypeOK /\ RowsOK /\ OneCandidatePerInputs /\ OutcomesAgree
  BY DEF IndInv
<1>1. /\ mem[m].status = "active" /\ scanned' = scanned \cup {m}
      /\ UNCHANGED <<project, evidence, mem, art, created, decided, gen, redacted>>
  BY DEF Scan
<1>2. TypeOK' /\ RowsOK' /\ OneCandidatePerInputs' /\ OutcomesAgree'
  BY <1>t, <1>1 DEF TypeOK, RowsOK, OneCandidatePerInputs, OutcomesAgree, Agreed
<1>3. redacted = 0 => SweepsOK'
  BY <1>1, InUseIsAccepted DEF SweepsOK, IndInv
<1>4. redacted = 0 => PairsOK' /\ FoundOK' /\ EventsOK'
  BY <1>1 DEF IndInv, PairsOK, FoundOK, EventsOK, Decision
<1> QED  BY <1>1, <1>2, <1>3, <1>4 DEF IndInv

\* A redaction ends what is promised "until something is redacted"; what is left
\* is that no two rows share a digest.
LEMMA RedactStep ==
  ASSUME IndInv, NEW m \in Memories, Redact(m)
  PROVE  IndInv'
<1>t. TypeOK /\ RowsOK /\ OneCandidatePerInputs
  BY DEF IndInv
<1> DEFINE Coupled == {a \in Artifacts : art[a].cand = m}
           Scrub(e) == IF e.art \in Coupled \/ e.mem = m
                       THEN [e EXCEPT !.plain = FALSE] ELSE e
<1>1. /\ redacted < Redactions /\ redacted' = redacted + 1
      /\ mem' = [mem EXCEPT ![m] = [status |-> "archived", key |-> None]]
      /\ art' = [a \in Artifacts |-> IF a \in Coupled
                   THEN [art[a] EXCEPT !.key = None, !.redacted = TRUE] ELSE art[a]]
      /\ created' = {Scrub(e) : e \in created}
      /\ decided' = {Scrub(e) : e \in decided}
      /\ UNCHANGED <<project, evidence, gen, scanned>>
  BY DEF Redact
<1>2. redacted' \in 1..Redactions
  <2>1. redacted \in 0..Redactions
    BY <1>t DEF TypeOK
  <2>2. redacted < Redactions /\ redacted' = redacted + 1
    BY <1>1
  <2> QED  BY <2>1, <2>2, RedactionBound
<1>3. /\ mem' \in [Memories -> MemoryRow]
      /\ mem'[m].status = "archived" /\ mem'[m].key = None
      /\ \A n \in Memories \ {m} : mem'[n] = mem[n]
  <2>1. [status |-> "archived", key |-> None] \in MemoryRow
    BY DEF MemoryRow
  <2> QED  BY <1>t, <1>1, <2>1, TypeParts
<1>4. /\ art' \in [Artifacts -> ArtifactRow]
      /\ \A a \in Artifacts :
           \/ art'[a] = art[a]
           \/ /\ art'[a].key = None /\ art'[a].status = art[a].status
              /\ art'[a].cand = m
  BY <1>t, <1>1, TypeParts DEF ArtifactRow
<1>5. created' \subseteq Creation /\ decided' \subseteq Verdict
  <2>1. \A e \in Creation : Scrub(e) \in Creation
    BY DEF Creation
  <2>2. \A e \in Verdict : Scrub(e) \in Verdict
    BY DEF Verdict
  <2> HIDE DEF Scrub
  <2> QED  BY <1>t, <1>1, <2>1, <2>2, TypeParts
<1> HIDE DEF Coupled, Scrub
<1>6. TypeOK'
  <2>1. redacted' \in 0..Redactions
    BY <1>2
  <2> QED  BY <1>t, <1>1, <1>3, <1>4, <1>5, <2>1
           DEF TypeOK, MemoryRow, ArtifactRow, Creation, Verdict
<1>7. RowsOK'
  <2>1. \A a \in Artifacts : art'[a] = NoArtifact \/ art'[a].cand \in Memories
    BY <1>t, <1>4 DEF RowsOK
  <2>2. \A a \in Artifacts : art[a].cand = m => art[a].status # "absent"
    BY <1>t, NoRows DEF RowsOK
  <2>3. \A a \in Artifacts : art'[a] = art[a] \/ art[a].cand = m
    BY <1>1 DEF Coupled
  <2>4. \A a \in Artifacts : art'[a].status = "absent" => art'[a] = NoArtifact
    BY <1>t, <1>4, <2>2, <2>3 DEF RowsOK
  <2>5. \A n \in scanned' : mem'[n].status # "absent"
    <3>1. scanned' = scanned /\ scanned \subseteq Memories
      BY <1>t, <1>1, TypeParts
    <3> QED  BY <1>t, <1>3, <3>1 DEF RowsOK
  <2>6. \A n \in Memories : mem'[n].status = "absent" => mem'[n] = NoMemory
    BY <1>t, <1>3 DEF RowsOK
  <2> QED  BY <2>1, <2>4, <2>5, <2>6 DEF RowsOK
<1>8. OneCandidatePerInputs'
  BY <1>t, <1>3, <1>4 DEF OneCandidatePerInputs
<1>9. redacted' # 0
  BY <1>2
<1> QED  BY <1>6, <1>7, <1>8, <1>9 DEF IndInv, OutcomesAgree

-----------------------------------------------------------------------------
(* The theorems.                                                           *)

LEMMA InvariantStep == IndInv /\ [Next]_vars => IndInv'
<1> SUFFICES ASSUME IndInv, [Next]_vars PROVE IndInv'
  OBVIOUS
<1>1. CASE UNCHANGED vars
  <2>1. /\ project' \in States /\ evidence' \in States
        /\ gen' \in [Generators -> {Idle} \cup Busy]
    BY <1>1, TypeParts DEF vars, IndInv
  <2>2. redacted = 0 => FoundOK'
    BY <1>1 DEF vars, IndInv, FoundOK
  <2> QED  BY <1>1, <2>1, <2>2, LookStep DEF vars
<1>2. CASE Next
  BY <1>2, ObserveStep, ReadStep, RememberStep, StoreStep, PublishStep, DropStep,
     AcceptStep, RejectStep, ChangeStep, ScanStep, MarkStep, RedactStep DEF Next
<1> QED  BY <1>1, <1>2

\* Candidates, artifacts, events and generators fit together, for any number of
\* each, and any inputs.
THEOREM UpdateInvariant == Spec => []IndInv
  BY InitIsInductive, InvariantStep, PTL DEF Spec

\* Equal inputs leave one memory and one artifact, redactions or not.
THEOREM CandidatesAreUnique == Spec => []OneCandidatePerInputs
<1>1. IndInv => OneCandidatePerInputs
  BY DEF IndInv
<1> QED  BY <1>1, UpdateInvariant, PTL

\* Until a redaction a listed candidate can be decided, an accepted memory has left
\* the candidates for good, and a rejected one never comes into use.
THEOREM OutcomesAlwaysAgree == Spec => []OutcomesAgree
<1>1. IndInv => OutcomesAgree
  BY DEF IndInv
<1> QED  BY <1>1, UpdateInvariant, PTL

\* The events of a decided candidate are those its validation wants.
LEMMA EventsProve ==
  ASSUME IndInv, redacted = 0, NEW a \in Artifacts,
         art[a].status \in {"accepted", "rejected"}
  PROVE  Proved(a)
<1>t. TypeOK /\ RowsOK /\ OutcomesAgree /\ PairsOK /\ EventsOK
  BY DEF IndInv
<1> DEFINE cand == art[a].cand
           Births == {e \in created : e.art = a \/ e.mem = cand}
           Decisions == {e \in decided : e.art = a \/ e.mem = cand}
<1>1. cand \in Memories /\ cand # None /\ ~art[a].redacted
  BY <1>t, NoRows DEF RowsOK, PairsOK
<1>2. \A b \in Artifacts : art[b].cand = cand => b = a
  BY <1>t, <1>1 DEF OutcomesAgree
<1>3. \A e \in Births : e.art = a /\ e.mem = cand /\ e.plain
  BY <1>t, <1>2, TypeParts DEF EventsOK, Creation
<1>4. [art |-> a, mem |-> cand, plain |-> TRUE] \in Births
  BY <1>t DEF EventsOK
<1>5. \A e \in Decisions : e = Decision(a, art[a].status)
  <2> SUFFICES ASSUME NEW e \in Decisions PROVE e = Decision(a, art[a].status)
    OBVIOUS
  <2>1. e \in Verdict /\ e \in decided
    BY <1>t, TypeParts
  <2>2. e.art = a
    BY <1>t, <1>2, <2>1 DEF EventsOK, Verdict
  <2>3. e.plain = TRUE /\ e.mem = cand /\ e.verdict = art[a].status
    BY <1>t, <2>1, <2>2 DEF EventsOK, Verdict
  <2> QED  BY <2>1, <2>2, <2>3 DEF Decision, Verdict
<1>6. Decision(a, art[a].status) \in Decisions
  BY <1>t DEF EventsOK, Decision
<1>7. {e.art : e \in Births} = {a}
  BY <1>3, <1>4
<1>8. \A e \in Births : e.mem = cand /\ e.plain = ~art[a].redacted
  BY <1>1, <1>3, <1>t, TypeParts DEF Creation, ArtifactRow
<1>9. \E e \in Decisions : Decisions = {e} /\ e.verdict = art[a].status
                           /\ e.plain = ~art[a].redacted
  <2>1. Decisions = {Decision(a, art[a].status)}
    BY <1>5, <1>6
  <2>2. /\ Decision(a, art[a].status).verdict = art[a].status
        /\ Decision(a, art[a].status).plain = TRUE
    BY DEF Decision
  <2>3. art[a].redacted = FALSE
    BY <1>t, <1>1, TypeParts DEF ArtifactRow
  <2> HIDE DEF Decisions
  <2> QED  BY <1>6, <2>1, <2>2, <2>3
<1> QED  BY <1>7, <1>8, <1>9 DEF Proved

\* The stored evidence proves every decision until a redaction.
THEOREM EvidenceAlwaysProves == Spec => []EvidenceProves
<1>1. IndInv => EvidenceProves
  BY EventsProve DEF EvidenceProves
<1> QED  BY <1>1, UpdateInvariant, PTL

-----------------------------------------------------------------------------
(* The refinement of ReviewBook.                                           *)

LEMMA OneOfSome ==
  ASSUME NEW S, S # {}
  PROVE  OneOf(S) \in S
  BY DEF OneOf

\* What is noted and filed under a digest is the row that holds it.
LEMMA HoldersAreNoted ==
  ASSUME OneCandidatePerInputs, NEW d \in Digests
  PROVE  /\ Noted[d] = OneOf(WithMemKey(d)) /\ Filed[d] = OneOf(WithArtKey(d))
         /\ \A m \in Memories : Noted[d] = m <=> mem[m].key = d
         /\ \A a \in Artifacts : Filed[d] = a <=> art[a].key = d
         /\ Noted[d] = None <=> \A m \in Memories : mem[m].key # d
         /\ Filed[d] = None <=> \A a \in Artifacts : art[a].key # d
<1>1. Noted[d] = OneOf(WithMemKey(d)) /\ Filed[d] = OneOf(WithArtKey(d))
  BY DEF Noted, Filed
<1>2. /\ \A m, n \in WithMemKey(d) : m = n
      /\ \A a, b \in WithArtKey(d) : a = b
  BY NoRows DEF OneCandidatePerInputs, WithMemKey, WithArtKey
<1>3. /\ WithMemKey(d) # {} => Noted[d] \in WithMemKey(d)
      /\ WithArtKey(d) # {} => Filed[d] \in WithArtKey(d)
  BY <1>1, OneOfSome
<1>4. /\ WithMemKey(d) = {} => Noted[d] = None
      /\ WithArtKey(d) = {} => Filed[d] = None
  BY <1>1 DEF OneOf
<1>5. /\ WithMemKey(d) = {m \in Memories : mem[m].key = d}
      /\ WithArtKey(d) = {a \in Artifacts : art[a].key = d}
  BY DEF WithMemKey, WithArtKey
<1>6. /\ \A m \in Memories : Noted[d] = m <=> mem[m].key = d
      /\ Noted[d] = None <=> \A m \in Memories : mem[m].key # d
  BY <1>2, <1>3, <1>4, <1>5, NoRows
<1>7. /\ \A a \in Artifacts : Filed[d] = a <=> art[a].key = d
      /\ Filed[d] = None <=> \A a \in Artifacts : art[a].key # d
  BY <1>2, <1>3, <1>4, <1>5, NoRows
<1> QED  BY <1>1, <1>6, <1>7

LEMMA BookInit == Init => Book!Init
<1> SUFFICES ASSUME Init PROVE Book!Init
  OBVIOUS
<1>1. /\ mem = [m \in Memories |-> NoMemory] /\ art = [a \in Artifacts |-> NoArtifact]
      /\ project \in States
  BY DEF Init
<1>2. /\ Written = {} /\ WithStatus("needs_review") = {}
      /\ WithStatus("accepted") = {} /\ WithStatus("rejected") = {}
  BY <1>1, NoRows DEF Written, WithStatus
<1>3. \A d \in Digests : WithMemKey(d) = {} /\ WithArtKey(d) = {}
  BY <1>1, NoRows DEF WithMemKey, WithArtKey
<1>4. /\ Noted = [d \in Digests |-> None] /\ Filed = [d \in Digests |-> None]
  BY <1>3 DEF Noted, Filed, OneOf
<1> QED  BY <1>1, <1>2, <1>4 DEF Book!Init

\* Only keys and statuses of rows, and the project's state, show in the book.
LEMMA BookKept ==
  ASSUME UNCHANGED <<project, mem, art>>
  PROVE  UNCHANGED Book!vars
  BY DEF Noted, Filed, Written, WithStatus, WithMemKey, WithArtKey,
         Book!vars, Book!decisions

LEMMA MemoriesKept ==
  ASSUME \A m \in Memories : mem'[m].key = mem[m].key
  PROVE  Noted' = Noted
<1>1. \A d \in Digests : WithMemKey(d)' = WithMemKey(d)
  BY DEF WithMemKey
<1> QED  BY <1>1 DEF Noted

LEMMA ArtifactsKept ==
  ASSUME \A a \in Artifacts : art'[a].key = art[a].key
  PROVE  Filed' = Filed
<1>1. \A d \in Digests : WithArtKey(d)' = WithArtKey(d)
  BY DEF WithArtKey
<1> QED  BY <1>1 DEF Filed

LEMMA BookSuggests ==
  ASSUME IndInv, NEW g \in Generators, Publish(g)
  PROVE  \E d \in Digests : Book!Suggest(d)
<1>t. TypeOK /\ RowsOK /\ OneCandidatePerInputs /\ OneCandidatePerInputs'
  BY PublishTyped DEF IndInv
<1>d. PICK d \in Digests : d = gen[g].key
  BY BusyRow DEF Publish, Busy
<1>1. PICK m \in Memories, a \in Artifacts :
        /\ \/ UNCHANGED mem
           \/ /\ mem[m].status = "absent" /\ NewMemory(m, d)
              /\ \A n \in Memories : mem[n].key # d
        /\ \/ UNCHANGED art
           \/ /\ art[a].status = "absent" /\ NewArtifact(a, m, d)
              /\ \A b \in Artifacts : art[b].key # d
  BY <1>d, PublishAdds DEF Publish
<1>2. project' = project
  BY DEF Publish
<1>3. Book!Note(d) \/ UNCHANGED <<Written, Noted>>
  <2>1. CASE UNCHANGED mem
    BY <2>1 DEF Written, Noted, WithMemKey
  <2>2. CASE /\ mem[m].status = "absent" /\ NewMemory(m, d)
             /\ \A n \in Memories : mem[n].key # d
    <3>1. /\ mem'[m].key = d /\ mem'[m].status = "candidate"
          /\ \A n \in Memories \ {m} : mem'[n] = mem[n]
      BY <1>t, <2>2, TypeParts DEF NewMemory
    <3>2. m \in Memories \ Written /\ Written' = Written \cup {m}
      BY <2>2, <3>1 DEF Written
    <3>3. Noted[d] = None /\ Noted'[d] = m
      <4>1. Noted[d] = None
        BY <1>t, <1>d, <2>2, HoldersAreNoted
      <4>2. WithMemKey(d)' = {m}
        BY <2>2, <3>1 DEF WithMemKey
      <4> QED  BY <1>d, <4>1, <4>2 DEF Noted, OneOf
    <3>4. \A c \in Digests \ {d} : Noted'[c] = Noted[c]
      <4>1. mem[m].key = None
        BY <1>t, <2>2, NoRows DEF RowsOK
      <4>2. \A c \in Digests \ {d} : WithMemKey(c)' = WithMemKey(c)
        BY <3>1, <4>1, NoRows DEF WithMemKey
      <4> QED  BY <4>2 DEF Noted
    <3>5. Noted' = [Noted EXCEPT ![d] = m]
      BY <3>3, <3>4 DEF Noted
    <3> QED  BY <3>2, <3>3, <3>5 DEF Book!Note
  <2> QED  BY <1>1, <2>1, <2>2
<1>4. /\ Book!File(d) \/ UNCHANGED <<WithStatus("needs_review"), Filed>>
      /\ UNCHANGED <<WithStatus("accepted"), WithStatus("rejected")>>
  <2>1. CASE UNCHANGED art
    BY <2>1 DEF WithStatus, Filed, WithArtKey
  <2>2. CASE /\ art[a].status = "absent" /\ NewArtifact(a, m, d)
             /\ \A b \in Artifacts : art[b].key # d
    <3>1. /\ art'[a].key = d /\ art'[a].status = "needs_review"
          /\ \A b \in Artifacts \ {a} : art'[b] = art[b]
      BY <1>t, <2>2, TypeParts DEF NewArtifact
    <3>2. /\ a \in Artifacts \ Book!Listed
          /\ WithStatus("needs_review")' = WithStatus("needs_review") \cup {a}
          /\ UNCHANGED <<WithStatus("accepted"), WithStatus("rejected")>>
      BY <2>2, <3>1 DEF WithStatus, Book!Listed
    <3>3. Filed[d] = None /\ Filed'[d] = a
      <4>1. Filed[d] = None
        BY <1>t, <1>d, <2>2, HoldersAreNoted
      <4>2. WithArtKey(d)' = {a}
        BY <2>2, <3>1 DEF WithArtKey
      <4> QED  BY <1>d, <4>1, <4>2 DEF Filed, OneOf
    <3>4. \A c \in Digests \ {d} : Filed'[c] = Filed[c]
      <4>1. art[a].key = None
        BY <1>t, <2>2, NoRows DEF RowsOK
      <4>2. \A c \in Digests \ {d} : WithArtKey(c)' = WithArtKey(c)
        BY <3>1, <4>1, NoRows DEF WithArtKey
      <4> QED  BY <4>2 DEF Filed
    <3>5. Filed' = [Filed EXCEPT ![d] = a]
      BY <3>3, <3>4 DEF Filed
    <3> QED  BY <3>2, <3>3, <3>5 DEF Book!File
  <2> QED  BY <1>1, <2>1, <2>2
<1> QED  BY <1>d, <1>2, <1>3, <1>4 DEF Book!Suggest, Book!decisions

\* The two decisions: one open artifact gets its verdict, and no key changes.
LEMMA BookDecides ==
  ASSUME IndInv, NEW a \in Artifacts, NEW status, NEW verdict,
         verdict \in {"accepted", "rejected"}, Pending(a),
         mem' = [mem EXCEPT ![art[a].cand].status = status], status # "absent",
         art' = [art EXCEPT ![a].status = verdict]
  PROVE  /\ a \in WithStatus("needs_review")
         /\ WithStatus("needs_review")' = WithStatus("needs_review") \ {a}
         /\ WithStatus(verdict)' = WithStatus(verdict) \cup {a}
         /\ \A s \in {"accepted", "rejected"} \ {verdict} :
              WithStatus(s)' = WithStatus(s)
         /\ UNCHANGED <<Written, Noted, Filed>>
<1>t. TypeOK
  BY DEF IndInv
<1>1. art[a].status = "needs_review" /\ mem[art[a].cand].status = "candidate"
  BY DEF Pending
<1>2. /\ art'[a].status = verdict /\ \A b \in Artifacts : art'[b].key = art[b].key
      /\ \A b \in Artifacts \ {a} : art'[b] = art[b]
  BY <1>t, TypeParts DEF ArtifactRow
<1>3. \A m \in Memories : /\ mem'[m].key = mem[m].key
                          /\ mem'[m].status # "absent" <=> mem[m].status # "absent"
  BY <1>t, <1>1, TypeParts DEF MemoryRow
<1>4. UNCHANGED <<Written, Noted, Filed>>
  BY <1>2, <1>3, MemoriesKept, ArtifactsKept DEF Written
<1> QED  BY <1>1, <1>2, <1>4 DEF WithStatus

\* The later life of a memory is not in the book.
LEMMA BookSilent ==
  ASSUME IndInv, NEW m \in Memories, mem[m].status # "absent",
         NEW status \in {"active", "private_only", "rejected", "superseded", "stale"},
         mem' = [mem EXCEPT ![m].status = status], UNCHANGED <<project, art>>
  PROVE  UNCHANGED Book!vars
<1>1. TypeOK
  BY DEF IndInv
<1>2. \A n \in Memories : /\ mem'[n].key = mem[n].key
                          /\ mem'[n].status # "absent" <=> mem[n].status # "absent"
  BY <1>1, TypeParts DEF MemoryRow
<1>3. UNCHANGED <<Written, Noted>>
  BY <1>2, MemoriesKept DEF Written
<1>4. Filed' = Filed /\ \A s \in {"needs_review", "accepted", "rejected"} :
                         WithStatus(s)' = WithStatus(s)
  BY DEF Filed, WithStatus, WithArtKey
<1> QED  BY <1>3, <1>4 DEF Book!vars, Book!decisions

LEMMA BookIgnoresLaterLife ==
  ASSUME IndInv, NEW m \in Memories,
         \/ \E status \in {"active", "private_only", "rejected", "superseded"} :
              Change(m, status)
         \/ Scan(m) \/ Mark(m)
  PROVE  UNCHANGED Book!vars
<1>1. ASSUME NEW status \in {"active", "private_only", "rejected", "superseded"},
             Change(m, status)
      PROVE  UNCHANGED Book!vars
  BY <1>1, BookSilent DEF Change, Decided
<1>2. CASE Scan(m)
  BY <1>2, BookKept DEF Scan
<1>3. CASE Mark(m)
  BY <1>3, BookSilent DEF Mark, IndInv, RowsOK
<1> QED  BY <1>1, <1>2, <1>3

LEMMA BookForgets ==
  ASSUME IndInv, NEW m \in Memories, Redact(m)
  PROVE  \E P \in SUBSET Artifacts : Book!Forget(m, P)
<1> DEFINE P == {a \in Artifacts : art[a].cand = m}
<1>t. TypeOK /\ OneCandidatePerInputs /\ OneCandidatePerInputs'
  BY RedactStep DEF IndInv
<1>1. /\ mem[m].status # "absent"
      /\ \A a \in P : art[a].status \in {"accepted", "rejected"}
      /\ mem' = [mem EXCEPT ![m] = [status |-> "archived", key |-> None]]
      /\ art' = [a \in Artifacts |-> IF a \in P
                   THEN [art[a] EXCEPT !.key = None, !.redacted = TRUE] ELSE art[a]]
      /\ project' = project
  BY DEF Redact
<1>2. P \subseteq Artifacts
  OBVIOUS
<1> HIDE DEF P
<1>3. /\ mem'[m].key = None /\ mem'[m].status = "archived"
      /\ \A n \in Memories \ {m} : mem'[n] = mem[n]
  BY <1>t, <1>1, TypeParts
<1>4. /\ \A a \in Artifacts : art'[a].status = art[a].status
      /\ \A a \in P : art'[a].key = None
      /\ \A a \in Artifacts \ P : art'[a] = art[a]
  BY <1>t, <1>1, <1>2, TypeParts DEF ArtifactRow
<1>5. m \in Written /\ Written' = Written
  BY <1>1, <1>3 DEF Written
<1>6. /\ P \subseteq WithStatus("accepted") \cup WithStatus("rejected")
      /\ \A s \in {"needs_review", "accepted", "rejected"} :
           WithStatus(s)' = WithStatus(s)
  BY <1>1, <1>2, <1>4 DEF WithStatus
<1>7. Noted' = [d \in Digests |-> IF Noted[d] = m THEN None ELSE Noted[d]]
  <2> SUFFICES ASSUME NEW d \in Digests
               PROVE  Noted'[d] = IF Noted[d] = m THEN None ELSE Noted[d]
    BY DEF Noted
  <2>1. CASE mem[m].key = d
    <3>1. Noted[d] = m /\ \A n \in Memories \ {m} : mem[n].key # d
      BY <1>t, <2>1, HoldersAreNoted, NoRows DEF OneCandidatePerInputs
    <3>2. WithMemKey(d)' = {}
      BY <1>3, <3>1, NoRows DEF WithMemKey
    <3> QED  BY <3>1, <3>2 DEF Noted, OneOf
  <2>2. CASE mem[m].key # d
    <3>1. Noted[d] # m
      BY <1>t, <2>2, HoldersAreNoted
    <3>2. WithMemKey(d)' = WithMemKey(d)
      BY <1>3, <2>2, NoRows DEF WithMemKey
    <3> QED  BY <3>1, <3>2 DEF Noted
  <2> QED  BY <2>1, <2>2
<1>8. Filed' = [d \in Digests |-> IF Filed[d] \in P THEN None ELSE Filed[d]]
  <2> SUFFICES ASSUME NEW d \in Digests
               PROVE  Filed'[d] = IF Filed[d] \in P THEN None ELSE Filed[d]
    BY DEF Filed
  <2>1. CASE \E a \in P : art[a].key = d
    <3>1. PICK a \in P : art[a].key = d
      BY <2>1
    <3>2. Filed[d] = a /\ \A b \in Artifacts \ {a} : art[b].key # d
      BY <1>t, <1>2, <3>1, HoldersAreNoted, NoRows DEF OneCandidatePerInputs
    <3>3. WithArtKey(d)' = {}
      BY <1>2, <1>4, <3>1, <3>2, NoRows DEF WithArtKey
    <3> QED  BY <3>1, <3>2, <3>3 DEF Filed, OneOf
  <2>2. CASE \A a \in P : art[a].key # d
    <3>1. Filed[d] \notin P
      BY <1>t, <1>2, <2>2, HoldersAreNoted
    <3>2. WithArtKey(d)' = WithArtKey(d)
      BY <1>2, <1>4, <2>2, NoRows DEF WithArtKey
    <3> QED  BY <3>1, <3>2 DEF Filed
  <2> QED  BY <2>1, <2>2
<1>9. Book!Forget(m, P)
  BY <1>1, <1>5, <1>6, <1>7, <1>8 DEF Book!Forget, Book!decisions
<1> QED  BY <1>2, <1>9

LEMMA BookStep == IndInv /\ [Next]_vars => [Book!Next]_(Book!vars)
<1> SUFFICES ASSUME IndInv, [Next]_vars PROVE Book!Next \/ UNCHANGED Book!vars
  OBVIOUS
<1>1. CASE UNCHANGED <<project, mem, art>>
  BY <1>1, BookKept
<1>2. ASSUME NEW g \in Generators, Publish(g)
      PROVE  Book!Next
  BY <1>2, BookSuggests DEF Book!Next
<1>3. ASSUME NEW a \in Artifacts, NEW text \in States, Accept(a, text)
      PROVE  Book!Next
  <2>1. /\ Pending(a) /\ project' = text
        /\ mem' = [mem EXCEPT ![art[a].cand].status = "active"]
        /\ art' = [art EXCEPT ![a].status = "accepted"]
    BY <1>3 DEF Accept
  <2>2. Book!Accept(a, text)
    BY <2>1, BookDecides DEF Book!Accept
  <2> QED  BY <2>2 DEF Book!Next
<1>4. ASSUME NEW a \in Artifacts, Reject(a)
      PROVE  Book!Next
  <2>1. /\ Pending(a) /\ project' = project
        /\ mem' = [mem EXCEPT ![art[a].cand].status = "rejected"]
        /\ art' = [art EXCEPT ![a].status = "rejected"]
    BY <1>4 DEF Reject
  <2>2. Book!Reject(a)
    BY <2>1, BookDecides DEF Book!Reject
  <2> QED  BY <2>2 DEF Book!Next
<1>5. ASSUME NEW m \in Memories, Redact(m)
      PROVE  Book!Next
  BY <1>5, BookForgets DEF Book!Next
<1>6. CASE Next
  <2>1. CASE \E e \in States : Observe(e)
    BY <2>1, <1>1 DEF Observe
  <2>2. CASE \E g \in Generators : Read(g) \/ Remember(g) \/ Store(g) \/ Drop(g)
    BY <2>2, <1>1 DEF Read, Remember, Store, Drop
  <2> QED  BY <1>2, <1>3, <1>4, <1>5, <1>6, <2>1, <2>2, BookIgnoresLaterLife DEF Next
<1> QED  BY <1>1, <1>6 DEF vars

\* Whatever generators, reviews and redactions overlap, for any number of each:
\* every behaviour is one of ReviewBook.
THEOREM UpdatesImplementReviewBook == Spec => ImplementsReviewBook
  BY BookInit, BookStep, UpdateInvariant, PTL
  DEF Spec, ImplementsReviewBook, Book!Spec
=============================================================================

------------------------- MODULE GraphEvidenceProofs -------------------------
(***************************************************************************)
(* What holds of the knowledge graph for every set of memories, of names   *)
(* and of callers, whatever extractors answer and however long.            *)
(***************************************************************************)
EXTENDS GraphEvidence, FiniteSetTheorems, SequenceTheorems, WellFoundedInduction, TLAPS

-----------------------------------------------------------------------------
(***************************************************************************)
(* The invariant.                                                          *)
(***************************************************************************)
RelationId == Scopes \X Names \X Names
FactId == Scopes \X Texts \X SUBSET Evidence
RelationType == [id : RelationId, ends : SUBSET Entities, evidence : SUBSET Evidence]
FactType == [id : FactId, evidence : SUBSET Evidence, entities : SUBSET Entities,
             causes : SUBSET FactId]
ObservationType == [id : Scopes \X Statements, facts : SUBSET FactId,
                    memories : SUBSET Sources,
                    freshness : {"current", "retired", "invalidated"}]
GraphType == [mentions : SUBSET [entity : Entities, evidence : Evidence],
              aliases : SUBSET [entity : Entities, evidence : Evidence],
              entities : SUBSET Entities, relations : SUBSET RelationType,
              facts : SUBSET FactType, observations : SUBSET ObservationType]
MemoryType == [Sources -> 0 .. MaxVersion]

\* Finitely many records, of different ids.
Indexed(records) ==
    IsFiniteSet(records) /\ \A p, q \in records : p.id = q.id => p = q

\* The evidence that is of the memories as they are.
Current(m, evidence) == {e \in evidence : m[e[1]] = e[2]}

\* Few pieces of evidence.
Few(evidence) == IsFiniteSet(evidence) /\ Cardinality(evidence) <= MAX_GRAPH_EVIDENCE

MentionsInv(m, g) ==
    \A x \in g.mentions : /\ ScopeOf[x.evidence[1]] = x.entity[1]
                          /\ m[x.evidence[1]] = x.evidence[2]

RelationsInv(m, g) ==
    /\ Indexed(g.relations)
    /\ \A r \in g.relations : Few(r.evidence) /\ r.evidence = Current(m, r.evidence)

\* What an id says of its memories was so once.
IdInv(m, id) ==
    /\ Few(id[3])
    /\ \A e \in id[3] : m[e[1]] = 0 \/ e[2] <= m[e[1]]

\* A fact rests on all the evidence it was found with that is still current.
FactsInv(m, g) ==
    /\ Indexed(g.facts)
    /\ \A f \in g.facts : IdInv(m, f.id) /\ f.evidence = Current(m, f.id[3])

\* An observation rests on facts, and names their memories.
Rests(g, o) ==
    /\ o.facts \subseteq Ids(g.facts) /\ o.facts # {}
    /\ o.memories = Memories(Proof({f \in g.facts : f.id \in o.facts}))
ObservationsInv(g) ==
    /\ Indexed(g.observations)
    /\ \A o \in g.observations : Rests(g, o)

GraphInv(m, g) ==
    /\ g \in GraphType
    /\ MentionsInv(m, g)
    /\ RelationsInv(m, g)
    /\ FactsInv(m, g)
    /\ ObservationsInv(g)

EvidenceInv ==
    /\ memory \in MemoryType
    /\ expired \subseteq Sources /\ erased \subseteq Evidence /\ steps \in 0 .. MaxSteps
    /\ \A e \in erased : memory[e[1]] = 0 \/ e[2] < memory[e[1]]
    /\ GraphInv(memory, graph)
    /\ validate_state(graph)

-----------------------------------------------------------------------------
(***************************************************************************)
(* Folds.  FoldLeft goes through the places of a list from the first to    *)
(* the last; "it" is what it has after the places s.                       *)
(***************************************************************************)

\* There is a least among numbers.
LEMMA Least ==
    ASSUME NEW T, T \subseteq Nat, T # {}
    PROVE  \E k \in T : \A l \in T : k <= l
  <1>1. \E k \in T : \A l \in T : ~(<<l, k>> \in OpToRel(<, Nat))
    <2>1. IsWellFoundedOn(OpToRel(<, Nat), Nat)
      BY NatLessThanWellFounded
    <2> HIDE DEF OpToRel
    <2> QED
      BY <2>1, WFMin
  <1>2. \A k, l \in Nat : l < k => <<l, k>> \in OpToRel(<, Nat)
    BY DEF OpToRel
  <1>3. PICK k \in T : \A l \in T : ~(<<l, k>> \in OpToRel(<, Nat))
    BY <1>1
  <1>4. \A l \in T : ~(l < k)
    BY <1>2, <1>3
  <1> QED
    BY <1>4

\* The last of some places.
LEMMA LastPlace ==
    ASSUME NEW n \in Nat, NEW s \in SUBSET (1 .. n), s # {}
    PROVE  Max(s) \in s /\ \A k \in s : k <= Max(s)
  <1> DEFINE T == {n - k : k \in s}
  <1>0. \A k \in s : k \in Nat /\ n - k \in Nat
    OBVIOUS
  <1>1. T \subseteq Nat /\ T # {}
    BY <1>0
  <1>2. PICK t \in T : \A u \in T : t <= u
    <2> HIDE DEF T
    <2> QED
      BY <1>1, Least
  <1>3. PICK k \in s : t = n - k
    BY <1>2
  <1>4. \A l \in s : k >= l
    <2> TAKE l \in s
    <2>1. n - l \in T
      OBVIOUS
    <2>2. t <= n - l
      BY <1>2, <2>1
    <2> QED
      BY <1>0, <1>3, <2>2
  <1> QED
    BY <1>4 DEF Max

\* What every step keeps is kept by all of them.
LEMMA FoldKeeps ==
    ASSUME NEW n \in Nat, NEW S, NEW it,
           it[{}] \in S,
           \A s \in SUBSET (1 .. n) : s # {} /\ it[s \ {Max(s)}] \in S => it[s] \in S
    PROVE  it[1 .. n] \in S
  <1> DEFINE T == {k \in 0 .. n : it[1 .. k] \notin S}
  <1>1. SUFFICES ASSUME T # {} PROVE FALSE
    OBVIOUS
  <1>2. PICK k \in T : \A l \in T : k <= l
    <2>1. T \subseteq Nat
      OBVIOUS
    <2> HIDE DEF T
    <2> QED
      BY <1>1, <2>1, Least
  <1>3. k \in 1 .. n
    <2>1. k = 0 => 1 .. k = {}
      OBVIOUS
    <2> QED
      BY <1>2, <2>1
  <1>4. k - 1 \in 0 .. n /\ it[1 .. (k - 1)] \in S
    BY <1>2, <1>3
  <1>5. 1 .. k \in SUBSET (1 .. n) /\ 1 .. k # {}
    BY <1>3
  <1>6. Max(1 .. k) = k
    <2>1. k \in 1 .. k /\ Max(1 .. k) \in 1 .. k /\ k <= Max(1 .. k)
      <3> DEFINE s == 1 .. k
      <3>1. s \in SUBSET (1 .. n) /\ s # {} /\ k \in s
        BY <1>3, <1>5
      <3> HIDE DEF s
      <3>2. Max(s) \in s /\ \A l \in s : l <= Max(s)
        BY <3>1, LastPlace
      <3>3. Max(s) \in s /\ k \in s /\ k <= Max(s)
        BY <3>1, <3>2
      <3> QED
        BY <3>3 DEF s
    <2> QED
      BY <2>1
  <1>7. (1 .. k) \ {k} = 1 .. (k - 1)
    BY <1>3
  <1> QED
    BY <1>2, <1>4, <1>5, <1>6, <1>7

\* A fold of steps from a set into itself is well defined.
WellDefined(n, S, b, step) ==
    \E it \in [SUBSET (1 .. n) -> S] :
        \A s \in SUBSET (1 .. n) :
            it[s] = IF s = {} THEN b ELSE step[Max(s)][it[s \ {Max(s)}]]
LEMMA FoldExists ==
    ASSUME NEW n \in Nat, NEW S, NEW b \in S, NEW step \in [1 .. n -> [S -> S]]
    PROVE  WellDefined(n, S, b, step)
  <1> DEFINE Folds(k, it) ==
               \A s \in SUBSET (1 .. k) :
                  it[s] = IF s = {} THEN b ELSE step[Max(s)][it[s \ {Max(s)}]]
             Has(k) == \E it \in [SUBSET (1 .. k) -> S] : Folds(k, it)
             T == {k \in 0 .. n : ~Has(k)}
  <1>1. SUFFICES ASSUME T # {} PROVE FALSE
    <2>1. n \in 0 .. n
      OBVIOUS
    <2> QED
      BY <1>1, <2>1 DEF WellDefined
  <1>2. PICK k \in T : \A l \in T : k <= l
    <2>1. T \subseteq Nat
      OBVIOUS
    <2> HIDE DEF T
    <2> QED
      BY <1>1, <2>1, Least
  <1>3. CASE k = 0
    <2> DEFINE it == [s \in SUBSET (1 .. 0) |-> b]
    <2>1. SUBSET (1 .. 0) = {{}}
      OBVIOUS
    <2>2. it \in [SUBSET (1 .. 0) -> S] /\ Folds(0, it)
      BY <2>1
    <2> QED
      BY <1>2, <1>3, <2>2
  <1>4. CASE k # 0
    <2>1. k - 1 \in 0 .. n /\ k \in 1 .. n
      BY <1>2, <1>4
    <2>2. Has(k - 1)
      <3>1. k - 1 \notin T
        <4> HIDE DEF T
        <4> QED
          BY <1>2, <2>1
      <3> QED
        BY <2>1, <3>1
    <2>3. PICK old \in [SUBSET (1 .. (k - 1)) -> S] : Folds(k - 1, old)
      BY <2>2
    <2> DEFINE it == [s \in SUBSET (1 .. k) |->
                        IF k \in s THEN step[k][old[s \ {k}]] ELSE old[s]]
    <2>4. \A s \in SUBSET (1 .. k) :
            /\ k \in s => s \ {k} \in SUBSET (1 .. (k - 1)) /\ Max(s) = k /\ s # {}
            /\ k \notin s => s \in SUBSET (1 .. (k - 1))
      <3> TAKE s \in SUBSET (1 .. k)
      <3>1. k \in s => Max(s) = k
        <4> SUFFICES ASSUME k \in s PROVE Max(s) = k
          OBVIOUS
        <4>0. k \in Nat /\ s # {} /\ k \in s
          BY <2>1
        <4>1. Max(s) \in s /\ \A l \in s : l <= Max(s)
          BY <4>0, LastPlace
        <4>2. Max(s) \in 1 .. k /\ k <= Max(s)
          BY <4>0, <4>1
        <4> QED
          BY <4>0, <4>2
      <3> QED
        BY <2>1, <3>1
    <2>5. it \in [SUBSET (1 .. k) -> S]
      BY <2>1, <2>4
    <2>6. Folds(k, it)
      <3> SUFFICES ASSUME NEW s \in SUBSET (1 .. k)
                   PROVE  it[s] = IF s = {} THEN b ELSE step[Max(s)][it[s \ {Max(s)}]]
        OBVIOUS
      <3>1. CASE k \in s
        <4>1. k \notin s \ {k} /\ s \ {k} \in SUBSET (1 .. k)
          OBVIOUS
        <4> QED
          BY <2>4, <3>1, <4>1
      <3>2. CASE k \notin s
        <4>1. s \in SUBSET (1 .. (k - 1)) /\ it[s] = old[s]
          BY <2>4, <3>2
        <4>2. k \notin s \ {Max(s)} /\ s \ {Max(s)} \in SUBSET (1 .. k)
          BY <3>2
        <4> QED
          BY <2>3, <4>1, <4>2
      <3> QED
        BY <3>1, <3>2
    <2> QED
      BY <1>2, <2>5, <2>6
  <1> QED
    BY <1>3, <1>4

-----------------------------------------------------------------------------
(***************************************************************************)
(* Records in sets, and sorted lists cut to a length.                      *)
(***************************************************************************)

\* The ids of finitely many records are as many as the records, if no two
\* records have the same.
LEMMA IdsAreCounted ==
    ASSUME NEW records, Indexed(records)
    PROVE  Cardinality(Ids(records)) = Cardinality(records)
  <1> DEFINE h == [r \in records |-> r.id]
  <1>1. h \in Surjection(records, Ids(records))
    BY DEF Surjection, Ids
  <1>2. h \in Injection(records, Ids(records))
    BY <1>1 DEF Surjection, Injection, IsInjective, Indexed
  <1>3. h \in Bijection(records, Ids(records))
    BY <1>1, <1>2 DEF Bijection
  <1>4. ExistsBijection(records, Ids(records))
    BY <1>3 DEF ExistsBijection
  <1> QED
    BY <1>4, FS_Bijection DEF Indexed

\* Records that take the place of others, one each at most and of the same id.
LEMMA IndexedImage ==
    ASSUME NEW records, Indexed(records), NEW changed,
           \A q \in changed : \E r \in records : r.id = q.id,
           \A p, q \in changed : p.id = q.id => p = q
    PROVE  Indexed(changed)
  <1> DEFINE of(q) == CHOOSE r \in records : r.id = q.id
             h == [q \in changed |-> of(q)]
  <1>1. \A q \in changed : of(q) \in records /\ of(q).id = q.id
    OBVIOUS
  <1>2. h \in Injection(changed, records)
    BY <1>1 DEF Injection, IsInjective
  <1> QED
    BY <1>2, FS_Injection DEF Indexed

LEMMA IndexedPut ==
    ASSUME NEW records, Indexed(records), NEW r
    PROVE  Indexed(Put(records, r)) /\ Ids(Put(records, r)) = Ids(records) \cup {r.id}
  <1>1. IsFiniteSet({q \in records : q.id # r.id})
    BY FS_Subset DEF Indexed
  <1>2. IsFiniteSet({q \in records : q.id # r.id} \cup {r})
    BY <1>1, FS_AddElement
  <1> QED
    BY <1>2 DEF Indexed, Put, Ids

LEMMA IndexedSubset ==
    ASSUME NEW records, Indexed(records), NEW some \in SUBSET records
    PROVE  Indexed(some)
  BY FS_Subset DEF Indexed

LEMMA WithId ==
    ASSUME NEW records, NEW id \in Ids(records)
    PROVE  With(records, id) \in records /\ With(records, id).id = id
  BY DEF With, Ids

\* What is there at the end of the order has no more than n before it, and
\* everything else that is kept is before it.
LEMMA FirstBounded ==
    ASSUME NEW n \in Nat, NEW pairs \in SUBSET (Nat \X Nat), IsFiniteSet(pairs)
    PROVE  /\ First(n, pairs) \subseteq pairs
           /\ IsFiniteSet(First(n, pairs))
           /\ Cardinality(First(n, pairs)) <= n
           /\ Cardinality(pairs) <= n => First(n, pairs) = pairs
  <1> DEFINE before(p) == {q \in pairs : Before(q, p)}
             count == [p \in pairs |-> Cardinality(before(p))]
             kept == First(n, pairs)
  <1>1. \A p \in pairs : /\ IsFiniteSet(before(p)) /\ count[p] \in Nat
                         /\ p \notin before(p)
                         /\ IsFiniteSet(before(p) \cup {p})
                         /\ Cardinality(before(p) \cup {p}) = count[p] + 1
    <2> TAKE p \in pairs
    <2>1. p \notin before(p)
      BY DEF Before
    <2>2. IsFiniteSet(before(p))
      BY FS_Subset
    <2> HIDE DEF before
    <2>3. Cardinality(before(p)) \in Nat
      BY <2>2, FS_CardinalityType
    <2>4. IsFiniteSet(before(p) \cup {p}) /\ Cardinality(before(p) \cup {p}) = Cardinality(before(p)) + 1
      BY <2>1, <2>2, FS_AddElement
    <2> QED
      BY <2>1, <2>2, <2>3, <2>4
  <1>2. kept \subseteq pairs /\ IsFiniteSet(kept) /\ \A p \in kept : count[p] < n
    BY FS_Subset DEF First
  <1>3. Cardinality(kept) <= n
    <2>1. CASE kept = {}
      BY <2>1, FS_EmptySet
    <2>2. CASE kept # {}
      <3> DEFINE left == {n - count[p] : p \in kept}
      <3>0. \A p \in kept : count[p] \in Nat /\ count[p] < n /\ n - count[p] \in Nat
        <4> HIDE DEF before, count, kept
        <4> TAKE p \in kept
        <4>1. count[p] \in Nat /\ count[p] < n
          BY <1>1, <1>2
        <4> QED
          BY <4>1
      <3>1. left \subseteq Nat /\ left # {}
        <4> HIDE DEF before, count, kept
        <4> QED
          BY <2>2, <3>0
      <3>2. PICK l \in left : \A k \in left : l <= k
        <4> HIDE DEF left
        <4> QED
          BY <3>1, Least
      <3>3. PICK p \in kept : l = n - count[p]
        BY <3>2
      <3>4. \A q \in kept : count[q] <= count[p]
        <4> TAKE q \in kept
        <4> HIDE DEF before, count, kept
        <4>1. n - count[q] \in left
          OBVIOUS
        <4>2. n - count[p] <= n - count[q]
          <5> HIDE DEF left
          <5> QED
            BY <3>2, <3>3, <4>1
        <4>3. count[p] \in Nat /\ count[q] \in Nat
          BY <3>0
        <4> QED
          BY <4>2, <4>3
      <3>5. kept \subseteq before(p) \cup {p}
        <4> SUFFICES ASSUME NEW q \in kept, q # p PROVE Before(q, p)
          BY <1>2
        <4>1. SUFFICES ASSUME Before(p, q) PROVE FALSE
          BY <1>2 DEF Before
        <4>2. before(p) \cup {p} \subseteq before(q)
          BY <1>2, <4>1 DEF Before
        <4>3. count[p] + 1 <= count[q]
          <5> HIDE DEF before, count, kept
          <5>0. p \in pairs /\ q \in pairs
            BY <1>2
          <5>1. Cardinality(before(p) \cup {p}) <= Cardinality(before(q))
            BY <1>1, <4>2, <5>0, FS_Subset
          <5>2. Cardinality(before(p) \cup {p}) = count[p] + 1
            BY <1>1, <5>0
          <5>3. Cardinality(before(q)) = count[q]
            BY <5>0 DEF count
          <5> QED
            BY <5>1, <5>2, <5>3
        <4> QED
          <5> HIDE DEF count, kept, before
          <5>1. count[p] \in Nat /\ count[q] \in Nat /\ count[q] <= count[p]
            BY <3>0, <3>4
          <5> QED
            BY <4>3, <5>1
      <3> HIDE DEF before, kept, count
      <3>6. Cardinality(kept) <= Cardinality(before(p) \cup {p})
        BY <1>1, <1>2, <3>5, FS_Subset
      <3>7. Cardinality(kept) \in Nat
        BY <1>2, FS_CardinalityType
      <3> QED
        BY <1>1, <1>2, <3>6, <3>7
    <2> QED
      BY <2>1, <2>2
  <1>4. ASSUME Cardinality(pairs) <= n PROVE kept = pairs
    <2> SUFFICES ASSUME NEW p \in pairs PROVE count[p] < n
      BY DEF First
    <2>1. before(p) \cup {p} \subseteq pairs
      OBVIOUS
    <2> HIDE DEF before, count
    <2>2. Cardinality(before(p) \cup {p}) <= Cardinality(pairs)
      BY <2>1, FS_Subset
    <2>3. Cardinality(pairs) \in Nat
      BY FS_CardinalityType
    <2> QED
      BY <1>1, <1>4, <2>2, <2>3
  <1> QED
    BY <1>2, <1>3, <1>4

-----------------------------------------------------------------------------
(***************************************************************************)
(* One candidate of an extraction at a time.                               *)
(***************************************************************************)

\* What an extraction cites was there when it was committed.
Readable(x) == x \in Extractions /\ \A s \in x.sources : memory[s] > 0

\* Evidence that is accepted is current, little, and of one scope.
LEMMA ValidEvidence ==
    ASSUME memory \in MemoryType, NEW x, Readable(x),
           NEW from \in SUBSET Sources, validate_evidence(x, from)
    PROVE  /\ EvidenceOf(from) \in SUBSET Evidence /\ EvidenceOf(from) # {}
           /\ Few(EvidenceOf(from))
           /\ Current(memory, EvidenceOf(from)) = EvidenceOf(from)
           /\ evidence_scope(from) \in Scopes
           /\ \A e \in EvidenceOf(from) : /\ ScopeOf[e[1]] = evidence_scope(from)
                                          /\ memory[e[1]] = e[2]
  <1>1. from \subseteq x.sources /\ from # {} /\ Cardinality(from) <= MAX_GRAPH_EVIDENCE
    BY DEF validate_evidence
  <1>2. \A s \in from : s \in Sources /\ memory[s] \in 1 .. MaxVersion
    BY <1>1, EvidenceConstants DEF Readable, MemoryType
  <1>3. EvidenceOf(from) \in SUBSET Evidence
    BY <1>2 DEF EvidenceOf, Evidence
  <1>4. IsFiniteSet(from)
    BY <1>1, ExtractionsTyped, FS_Subset DEF Readable
  <1>5. Few(EvidenceOf(from))
    <2> DEFINE h == [s \in from |-> <<s, memory[s]>>]
    <2>1. h \in Surjection(from, EvidenceOf(from))
      BY DEF Surjection, EvidenceOf
    <2>2. IsFiniteSet(EvidenceOf(from)) /\ Cardinality(EvidenceOf(from)) <= Cardinality(from)
      BY <1>4, <2>1, FS_Surjection
    <2>3. Cardinality(from) \in Nat /\ Cardinality(EvidenceOf(from)) \in Nat
      BY <1>4, <2>2, FS_CardinalityType
    <2> QED
      BY <1>1, <2>2, <2>3, EvidenceConstants DEF Few
  <1>6. Current(memory, EvidenceOf(from)) = EvidenceOf(from)
    BY DEF Current, EvidenceOf
  <1>7. evidence_scope(from) \in Scopes
    BY <1>1, <1>2, EvidenceConstants DEF evidence_scope
  <1>8. \A e \in EvidenceOf(from) : ScopeOf[e[1]] = evidence_scope(from) /\ memory[e[1]] = e[2]
    <2> DEFINE one == CHOOSE s \in from : TRUE
    <2>1. one \in from /\ evidence_scope(from) = ScopeOf[one]
      BY <1>1 DEF evidence_scope
    <2>2. \A s \in from : ScopeOf[s] = ScopeOf[one]
      BY <2>1 DEF validate_evidence
    <2> QED
      BY <2>1, <2>2 DEF EvidenceOf
  <1> QED
    BY <1>1, <1>3, <1>5, <1>6, <1>7, <1>8 DEF EvidenceOf

\* Few pieces of evidence stay few when they are sorted and cut.
LEMMA DedupFew ==
    ASSUME NEW evidence \in SUBSET Evidence, IsFiniteSet(evidence)
    PROVE  /\ dedup_evidence(evidence) \subseteq evidence
           /\ Few(dedup_evidence(evidence))
           /\ Few(evidence) => dedup_evidence(evidence) = evidence
  <1>1. evidence \in SUBSET (Nat \X Nat)
    <2>1. Sources \subseteq Nat /\ 1 .. MaxVersion \subseteq Nat
      BY EvidenceConstants
    <2> QED
      BY <2>1 DEF Evidence
  <1>2. MAX_GRAPH_EVIDENCE \in Nat
    BY EvidenceConstants
  <1> QED
    BY <1>1, <1>2, FirstBounded DEF dedup_evidence, Few

\* The entities of an extraction.
LEMMA EntityStep ==
    ASSUME memory \in MemoryType, NEW x, Readable(x),
           NEW g, GraphInv(memory, g),
           NEW c \in [name : Names, from : SUBSET Sources]
    PROVE  /\ GraphInv(memory, build_entity(g, x, c))
           /\ build_entity(g, x, c).observations = g.observations
  <1>1. CASE ~validate_evidence(x, c.from)
    BY <1>1 DEF build_entity
  <1>2. CASE validate_evidence(x, c.from)
    <2> DEFINE e == Named(c.from, c.name)
               ev == EvidenceOf(c.from)
               new == [g EXCEPT !.entities = @ \cup {e},
                                !.mentions = @ \cup {[entity |-> e, evidence |-> v] : v \in ev},
                                !.aliases = @ \cup {[entity |-> e, evidence |-> v] : v \in ev}]
    <2>1. build_entity(g, x, c) = new
      BY <1>2 DEF build_entity
    <2>2. /\ ev \in SUBSET Evidence
          /\ evidence_scope(c.from) \in Scopes
          /\ \A v \in ev : ScopeOf[v[1]] = evidence_scope(c.from) /\ memory[v[1]] = v[2]
      BY <1>2, ValidEvidence
    <2>3. e \in Entities /\ e[1] = evidence_scope(c.from)
      BY <2>2 DEF Named, Entities
    <2> HIDE DEF e, ev
    <2>4. g \in GraphType
      BY DEF GraphInv
    <2>5. /\ new.facts = g.facts /\ new.relations = g.relations /\ new.observations = g.observations
          /\ new.entities = g.entities \cup {e}
          /\ new.mentions = g.mentions \cup {[entity |-> e, evidence |-> v] : v \in ev}
      BY <2>4 DEF GraphType
    <2>6. new \in GraphType
      <3>1. g.entities \cup {e} \in SUBSET Entities
        BY <2>3, <2>4 DEF GraphType
      <3>2. /\ g.mentions \cup {[entity |-> e, evidence |-> v] : v \in ev}
                 \in SUBSET [entity : Entities, evidence : Evidence]
            /\ g.aliases \cup {[entity |-> e, evidence |-> v] : v \in ev}
                 \in SUBSET [entity : Entities, evidence : Evidence]
        BY <2>2, <2>3, <2>4 DEF GraphType
      <3> QED
        BY <2>4, <3>1, <3>2 DEF GraphType
    <2> HIDE DEF new
    <2>7. MentionsInv(memory, new)
      BY <2>2, <2>3, <2>5 DEF GraphInv, MentionsInv
    <2>8. RelationsInv(memory, new) /\ FactsInv(memory, new) /\ ObservationsInv(new)
      BY <2>5 DEF GraphInv, RelationsInv, FactsInv, ObservationsInv, Rests
    <2> QED
      BY <2>1, <2>5, <2>6, <2>7, <2>8 DEF GraphInv
  <1> QED
    BY <1>1, <1>2

\* The relations of an extraction.
LEMMA RelationStep ==
    ASSUME memory \in MemoryType, NEW x, Readable(x),
           NEW g, GraphInv(memory, g),
           NEW c \in [subject : Names, object : Names, from : SUBSET Sources]
    PROVE  /\ GraphInv(memory, build_relation(g, x, c))
           /\ build_relation(g, x, c).observations = g.observations
  <1> DEFINE id == <<evidence_scope(c.from), c.subject, c.object>>
             old == IF id \in Ids(g.relations) THEN With(g.relations, id).evidence ELSE {}
             ev == EvidenceOf(c.from)
             r == [id |-> id, ends |-> resolve_mention_entity(g, c.from, {c.subject, c.object}),
                   evidence |-> dedup_evidence(old \cup ev)]
             new == [g EXCEPT !.relations = Put(@, r)]
  <1>1. CASE build_relation(g, x, c) = g
    BY <1>1
  <1>2. CASE validate_evidence(x, c.from) /\ build_relation(g, x, c) = new
    <2>1. /\ ev \in SUBSET Evidence /\ Few(ev) /\ Current(memory, ev) = ev
          /\ evidence_scope(c.from) \in Scopes
      BY <1>2, ValidEvidence
    <2>2. g \in GraphType /\ RelationsInv(memory, g)
      BY DEF GraphInv
    <2>3. old \in SUBSET Evidence /\ IsFiniteSet(old) /\ Current(memory, old) = old
      <3>1. CASE id \in Ids(g.relations)
        <4>1. With(g.relations, id) \in g.relations
          BY <3>1, WithId
        <4> QED
          BY <2>2, <3>1, <4>1 DEF RelationsInv, Few, GraphType, RelationType
      <3>2. CASE id \notin Ids(g.relations)
        BY <3>2, FS_EmptySet DEF Current
      <3> QED
        BY <3>1, <3>2
    <2>4. id \in RelationId
      BY <2>1 DEF RelationId
    <2>5. r.ends \in SUBSET Entities
      BY <2>2 DEF resolve_mention_entity, GraphType
    <2> HIDE DEF old, ev
    <2>6. IsFiniteSet(old \cup ev)
      BY <2>1, <2>3, FS_Union DEF Few
    <2>7. r.evidence \in SUBSET Evidence /\ Few(r.evidence) /\ r.evidence = Current(memory, r.evidence)
      <3>1. \A e \in old \cup ev : memory[e[1]] = e[2]
        BY <2>1, <2>3 DEF Current
      <3>2. r.evidence \subseteq old \cup ev /\ Few(r.evidence)
        BY <2>1, <2>3, <2>6, DedupFew
      <3> HIDE DEF r
      <3> QED
        BY <2>1, <2>3, <3>1, <3>2 DEF Current
    <2>8. r \in RelationType
      BY <2>4, <2>5, <2>7 DEF RelationType
    <2> HIDE DEF r
    <2>9. Put(g.relations, r) \in SUBSET RelationType
      BY <2>2, <2>8 DEF Put, GraphType
    <2>10. /\ new \in GraphType /\ new.relations = Put(g.relations, r)
           /\ new.facts = g.facts /\ new.mentions = g.mentions /\ new.observations = g.observations
      BY <2>2, <2>9 DEF GraphType
    <2> HIDE DEF new
    <2>11. RelationsInv(memory, new)
      BY <2>2, <2>7, <2>10, IndexedPut DEF RelationsInv, Put
    <2>12. MentionsInv(memory, new) /\ FactsInv(memory, new) /\ ObservationsInv(new)
      BY <2>10 DEF GraphInv, MentionsInv, FactsInv, ObservationsInv, Rests
    <2> QED
      BY <1>2, <2>10, <2>11, <2>12 DEF GraphInv
  <1>3. build_relation(g, x, c) = g \/ (validate_evidence(x, c.from) /\ build_relation(g, x, c) = new)
    BY DEF build_relation
  <1> QED
    BY <1>1, <1>2, <1>3

\* The facts accepted so far are facts of the graph, with the evidence they
\* have there.
AcceptedInv(m, g, accepted) ==
    /\ accepted \in UNION {[places -> FactType] : places \in SUBSET Nat}
    /\ \A k \in DOMAIN accepted :
          /\ accepted[k].id \in Ids(g.facts)
          /\ accepted[k].evidence = Current(m, accepted[k].id[3])

\* The facts of an extraction.  A fact that is there already has the evidence
\* it is found with again, so that what rests on it rests on the same memories.
LEMMA FactStep ==
    ASSUME memory \in MemoryType, NEW x, Readable(x),
           NEW done, done = [graph |-> done.graph, accepted |-> done.accepted],
           GraphInv(memory, done.graph), AcceptedInv(memory, done.graph, done.accepted),
           NEW i \in 1 .. Len(x.facts)
    PROVE  \E h, more : /\ build_fact(done, x, i) = [graph |-> h, accepted |-> more]
                        /\ GraphInv(memory, h) /\ AcceptedInv(memory, h, more)
                        /\ h.observations = done.graph.observations
  <1> DEFINE g == done.graph
             accepted == done.accepted
             c == x.facts[i]
             ev == EvidenceOf(c.from)
             scope == evidence_scope(c.from)
             id == <<scope, c.text, ev>>
             old == IF id \in Ids(g.facts) THEN With(g.facts, id)
                    ELSE [evidence |-> {}, entities |-> {}, causes |-> {}]
             causes == old.causes \cup {accepted[k].id : k \in c.causes}
             entities == old.entities \cup resolve_mention_entity(g, c.from, c.about)
             evidence == dedup_evidence(old.evidence \cup ev)
             fact == [id |-> id, evidence |-> evidence, entities |-> entities, causes |-> causes]
             h == [g EXCEPT !.facts = Put(@, fact)]
             more == [k \in {i} \cup DOMAIN accepted |-> IF k = i THEN fact ELSE accepted[k]]
  <1>3. build_fact(done, x, i) = done
        \/ (validate_evidence(x, c.from) /\ c.causes \subseteq DOMAIN accepted
            /\ build_fact(done, x, i) = [graph |-> h, accepted |-> more])
    BY DEF build_fact
  <1>4. done = [graph |-> g, accepted |-> accepted]
        /\ GraphInv(memory, g) /\ AcceptedInv(memory, g, accepted)
    OBVIOUS
  <1> HIDE DEF g, accepted
  <1>0. c \in [text : Texts, from : SUBSET Sources, about : SUBSET Names, causes : SUBSET Nat]
        /\ i \in Nat
    <2>1. x.facts \in Seq([text : Texts, from : SUBSET Sources,
                           about : SUBSET Names, causes : SUBSET Nat])
      BY ExtractionsTyped DEF Readable
    <2>2. Len(x.facts) \in Nat /\ i \in Nat /\ i \in 1 .. Len(x.facts)
      BY <2>1
    <2> HIDE DEF c
    <2>3. x.facts[i] \in [text : Texts, from : SUBSET Sources, about : SUBSET Names,
                          causes : SUBSET Nat]
      BY <2>1, <2>2, ElementOfSeq
    <2> QED
      BY <2>2, <2>3 DEF c
  <1>1. CASE build_fact(done, x, i) = done
    BY <1>1, <1>4 DEF g, accepted
  <1>2. CASE validate_evidence(x, c.from) /\ c.causes \subseteq DOMAIN accepted
             /\ build_fact(done, x, i) = [graph |-> h, accepted |-> more]
    <2>1. /\ ev \in SUBSET Evidence /\ Few(ev) /\ Current(memory, ev) = ev /\ scope \in Scopes
          /\ \A e \in ev : memory[e[1]] = e[2]
      BY <1>0, <1>2, ValidEvidence
    <2>2. /\ g \in GraphType /\ FactsInv(memory, g)
          /\ accepted \in UNION {[places -> FactType] : places \in SUBSET Nat}
      BY <1>4 DEF GraphInv, AcceptedInv
    <2>3. id \in FactId /\ id[3] = ev
      BY <1>0, <2>1 DEF FactId
    <2> HIDE DEF ev, scope
    <2>4. /\ old.evidence \subseteq ev
          /\ old.entities \in SUBSET Entities /\ old.causes \in SUBSET FactId
      <3>1. CASE id \in Ids(g.facts)
        <4>1. old \in g.facts /\ old.id = id
          BY <3>1, WithId
        <4>2. old \in FactType
          BY <2>2, <4>1 DEF GraphType
        <4>3. old.evidence = Current(memory, old.id[3])
          BY <2>2, <4>1 DEF FactsInv
        <4> HIDE DEF old
        <4> QED
          BY <2>3, <4>1, <4>2, <4>3 DEF FactType, Current
      <3>2. CASE id \notin Ids(g.facts)
        BY <3>2
      <3> QED
        BY <3>1, <3>2
    <2> HIDE DEF old
    <2>5. evidence = ev
      <3>1. old.evidence \cup ev = ev
        BY <2>4
      <3> QED
        BY <2>1, <3>1, DedupFew DEF Few
    <2>6. entities \in SUBSET Entities
      BY <2>2, <2>4 DEF resolve_mention_entity, GraphType
    <2>7. causes \in SUBSET FactId
      <3>1. \A k \in c.causes : accepted[k] \in FactType
        BY <1>2, <2>2
      <3> QED
        BY <2>4, <3>1 DEF FactType
    <2> HIDE DEF id, evidence, entities, causes
    <2>8. /\ fact \in FactType /\ fact.id = id /\ fact.evidence = ev
          /\ fact.evidence = Current(memory, fact.id[3])
      BY <2>1, <2>3, <2>5, <2>6, <2>7 DEF FactType
    <2>9. IdInv(memory, fact.id)
      <3>1. \A e \in ev : memory[e[1]] = e[2] /\ e[2] \in Nat
        <4>1. 1 .. MaxVersion \subseteq Nat
          BY EvidenceConstants
        <4> QED
          BY <2>1, <4>1 DEF Evidence
      <3> QED
        BY <2>1, <2>3, <2>8, <3>1 DEF IdInv
    <2> HIDE DEF fact
    <2>10. Put(g.facts, fact) \in SUBSET FactType
      BY <2>2, <2>8 DEF Put, GraphType
    <2>11. /\ h \in GraphType /\ h.facts = Put(g.facts, fact)
           /\ h.relations = g.relations /\ h.mentions = g.mentions
           /\ h.observations = g.observations
      BY <2>2, <2>10 DEF GraphType
    <2> HIDE DEF h
    <2>12. Indexed(h.facts) /\ Ids(h.facts) = Ids(g.facts) \cup {id}
      BY <2>2, <2>8, <2>11, IndexedPut DEF FactsInv
    <2>13. FactsInv(memory, h)
      BY <2>2, <2>8, <2>9, <2>11, <2>12 DEF FactsInv, Put
    <2>14. ObservationsInv(h)
      <3> SUFFICES ASSUME NEW o \in g.observations PROVE Rests(h, o)
        BY <1>4, <2>11 DEF GraphInv, ObservationsInv
      <3>1. Rests(g, o)
        BY <1>4 DEF GraphInv, ObservationsInv
      <3>2. Proof({f \in h.facts : f.id \in o.facts}) = Proof({f \in g.facts : f.id \in o.facts})
        <4>1. \A f \in h.facts : f.id \in o.facts =>
                 \E q \in g.facts : q.id = f.id /\ q.evidence = f.evidence
          <5> SUFFICES ASSUME NEW f \in h.facts, f.id \in o.facts
                       PROVE  \E q \in g.facts : q.id = f.id /\ q.evidence = f.evidence
            OBVIOUS
          <5>1. PICK q \in g.facts : q.id = f.id
            BY <3>1 DEF Rests, Ids
          <5>2. q.evidence = Current(memory, q.id[3]) /\ f.evidence = Current(memory, f.id[3])
            BY <2>2, <2>13 DEF FactsInv
          <5> QED
            BY <5>1, <5>2
        <4>2. \A q \in g.facts : q.id \in o.facts =>
                 \E f \in h.facts : q.id = f.id /\ q.evidence = f.evidence
          <5> SUFFICES ASSUME NEW q \in g.facts
                       PROVE  \E f \in h.facts : q.id = f.id /\ q.evidence = f.evidence
            OBVIOUS
          <5>0. q.id \in Ids(g.facts)
            BY DEF Ids
          <5>3. q.id \in Ids(h.facts)
            BY <2>12, <5>0
          <5>1. PICK f \in h.facts : q.id = f.id
            BY <5>3 DEF Ids
          <5>2. q.evidence = Current(memory, q.id[3]) /\ f.evidence = Current(memory, f.id[3])
            BY <2>2, <2>13 DEF FactsInv
          <5> QED
            BY <5>1, <5>2
        <4> QED
          BY <4>1, <4>2 DEF Proof
      <3> QED
        BY <2>12, <3>1, <3>2 DEF Rests
    <2>15. GraphInv(memory, h)
      BY <1>4, <2>11, <2>13, <2>14 DEF GraphInv, MentionsInv, RelationsInv
    <2>16. AcceptedInv(memory, h, more)
      <3>1. DOMAIN more = {i} \cup DOMAIN accepted
        OBVIOUS
      <3>2. \A k \in DOMAIN more : more[k] = IF k = i THEN fact ELSE accepted[k]
        OBVIOUS
      <3>4. more \in [{i} \cup DOMAIN accepted -> FactType]
        <4>1. \A k \in DOMAIN accepted : accepted[k] \in FactType
          BY <2>2
        <4> QED
          BY <2>8, <4>1
      <3> HIDE DEF more
      <3>5. {i} \cup DOMAIN accepted \in SUBSET Nat
        BY <1>0, <2>2
      <3>6. \A k \in DOMAIN more : /\ more[k].id \in Ids(h.facts)
                                   /\ more[k].evidence = Current(memory, more[k].id[3])
        <4> TAKE k \in DOMAIN more
        <4>1. CASE k = i
          BY <2>8, <2>12, <3>2, <4>1
        <4>2. CASE k # i
          BY <1>4, <2>12, <3>1, <3>2, <4>2 DEF AcceptedInv
        <4> QED
          BY <4>1, <4>2
      <3> QED
        BY <3>4, <3>5, <3>6 DEF AcceptedInv
    <2> QED
      BY <1>2, <2>11, <2>15, <2>16 DEF g
  <1> QED
    BY <1>1, <1>2, <1>3

\* No observation that counts now did not before, and none is gone.
Judged(g, h) ==
    /\ Ids(g.observations) \subseteq Ids(h.observations)
    /\ \A o \in g.observations, p \in h.observations :
          o.id = p.id /\ p.freshness = "current" => o.freshness = "current"

\* The facts that are accepted prove what the facts of the graph with their ids
\* prove.
LEMMA AcceptedProof ==
    ASSUME NEW g, FactsInv(memory, g), NEW facts,
           \A f \in facts : f.id \in Ids(g.facts) /\ f.evidence = Current(memory, f.id[3])
    PROVE  /\ Ids(facts) \subseteq Ids(g.facts)
           /\ Proof({f \in g.facts : f.id \in Ids(facts)}) = Proof(facts)
  <1>1. \A q \in g.facts, f \in facts : q.id = f.id => q.evidence = f.evidence
    BY DEF FactsInv
  <1>2. \A f \in facts : \E q \in g.facts : q.id = f.id
    BY DEF Ids
  <1>3. Proof({f \in g.facts : f.id \in Ids(facts)}) \subseteq Proof(facts)
    BY <1>1 DEF Proof, Ids
  <1>4. Proof(facts) \subseteq Proof({f \in g.facts : f.id \in Ids(facts)})
    <2> SUFFICES ASSUME NEW f \in facts
                 PROVE  f.evidence \subseteq Proof({q \in g.facts : q.id \in Ids(facts)})
      BY DEF Proof
    <2>1. PICK q \in g.facts : q.id = f.id
      BY <1>2
    <2>2. q \in {r \in g.facts : r.id \in Ids(facts)} /\ q.evidence = f.evidence
      BY <1>1, <2>1 DEF Ids
    <2> QED
      BY <2>2 DEF Proof
  <1>5. Ids(facts) \subseteq Ids(g.facts)
    BY DEF Ids
  <1> QED
    BY <1>3, <1>4, <1>5

\* The observations of an extraction.
LEMMA ObservationStep ==
    ASSUME memory \in MemoryType,
           NEW g, GraphInv(memory, g), NEW accepted, AcceptedInv(memory, g, accepted),
           NEW c \in [statement : Statements, facts : SUBSET Nat]
    PROVE  /\ GraphInv(memory, build_observation(g, accepted, c))
           /\ build_observation(g, accepted, c).facts = g.facts
           /\ Judged(g, build_observation(g, accepted, c))
  <1> DEFINE facts == {accepted[k] : k \in c.facts}
             scope == accepted[CHOOSE k \in c.facts : TRUE].id[1]
             id == <<scope, c.statement>>
             superseded(o) == o.id[1] = scope /\ o.facts = Ids(facts) /\ o.freshness = "current"
             new == [id |-> id, facts |-> Ids(facts), memories |-> Memories(Proof(facts)),
                     freshness |-> "current"]
             grown == [g EXCEPT !.observations = Put(@, extended(With(@, id), facts))]
             added == [g EXCEPT !.observations =
                         {IF superseded(o) THEN [o EXCEPT !.freshness = "retired"] ELSE o : o \in @}
                             \cup {new}]
  <1>1. \/ build_observation(g, accepted, c) = g
        \/ /\ c.facts # {} /\ c.facts \subseteq DOMAIN accepted
           /\ \/ id \in Ids(g.observations) /\ build_observation(g, accepted, c) = grown
              \/ id \notin Ids(g.observations) /\ build_observation(g, accepted, c) = added
    BY DEF build_observation
  <1>2. g \in GraphType /\ FactsInv(memory, g) /\ ObservationsInv(g)
    BY DEF GraphInv
  <1>3. ASSUME NEW h, NEW observations \in SUBSET ObservationType,
               h = [g EXCEPT !.observations = observations],
               Indexed(observations), \A o \in observations : Rests(g, o)
        PROVE  GraphInv(memory, h) /\ h.facts = g.facts /\ h.observations = observations
    <2>1. /\ h.facts = g.facts /\ h.relations = g.relations /\ h.mentions = g.mentions
          /\ h.observations = observations /\ h \in GraphType
      BY <1>2, <1>3 DEF GraphType
    <2>2. ObservationsInv(h)
      BY <1>3, <2>1 DEF ObservationsInv, Rests
    <2> QED
      BY <2>1, <2>2 DEF GraphInv, MentionsInv, RelationsInv, FactsInv
  <1>4. CASE build_observation(g, accepted, c) = g
    BY <1>2, <1>4 DEF Judged, ObservationsInv, Indexed
  <1>5. ASSUME c.facts # {}, c.facts \subseteq DOMAIN accepted
        PROVE  /\ facts \subseteq FactType /\ Ids(facts) \in SUBSET FactId
               /\ Ids(facts) \subseteq Ids(g.facts)
               /\ Memories(Proof(facts)) \in SUBSET Sources
               /\ Proof({f \in g.facts : f.id \in Ids(facts)}) = Proof(facts)
               /\ scope \in Scopes
    <2>1. \A k \in DOMAIN accepted : /\ accepted[k] \in FactType
                                     /\ accepted[k].id \in Ids(g.facts)
                                     /\ accepted[k].evidence = Current(memory, accepted[k].id[3])
      BY DEF AcceptedInv
    <2>2. facts \subseteq FactType
      BY <1>5, <2>1
    <2>3. \A f \in facts : f.id \in Ids(g.facts) /\ f.evidence = Current(memory, f.id[3])
      BY <1>5, <2>1
    <2>4. scope \in Scopes
      <3>1. accepted[CHOOSE k \in c.facts : TRUE] \in FactType
        BY <1>5, <2>1
      <3> QED
        BY <3>1 DEF FactType, FactId
    <2> HIDE DEF facts, scope
    <2>5. Ids(facts) \in SUBSET FactId
      BY <2>2 DEF Ids, FactType
    <2>6. Memories(Proof(facts)) \in SUBSET Sources
      BY <2>2 DEF Memories, Proof, FactType, Evidence
    <2> QED
      BY <1>2, <2>2, <2>3, <2>4, <2>5, <2>6, AcceptedProof
  <1>6. CASE /\ c.facts # {} /\ c.facts \subseteq DOMAIN accepted
             /\ id \in Ids(g.observations) /\ build_observation(g, accepted, c) = grown
    <2> DEFINE old == With(g.observations, id)
               more == extended(old, facts)
    <2>1. /\ Ids(facts) \in SUBSET FactId /\ Ids(facts) \subseteq Ids(g.facts)
          /\ Memories(Proof(facts)) \in SUBSET Sources
          /\ Proof({f \in g.facts : f.id \in Ids(facts)}) = Proof(facts)
      BY <1>5, <1>6
    <2>2. old \in g.observations /\ old.id = id
      BY <1>6, WithId
    <2>3. old \in ObservationType /\ Rests(g, old)
      BY <1>2, <2>2 DEF GraphType, ObservationsInv
    <2> HIDE DEF facts, id
    <2>4. /\ more \in ObservationType /\ more.id = id
          /\ more.facts = old.facts \cup Ids(facts)
          /\ more.memories = old.memories \cup Memories(Proof(facts))
          /\ more.freshness = "current" => old.freshness = "current"
      <3> HIDE DEF old
      <3> QED
        BY <2>1, <2>2, <2>3 DEF extended, ObservationType
    <2> HIDE DEF old, more
    <2>5. Rests(g, more)
      <3>1. Memories(Proof({f \in g.facts : f.id \in more.facts}))
              = Memories(Proof({f \in g.facts : f.id \in old.facts}))
                  \cup Memories(Proof({f \in g.facts : f.id \in Ids(facts)}))
        BY <2>4 DEF Memories, Proof
      <3> QED
        BY <2>1, <2>3, <2>4, <3>1 DEF Rests
    <2>6. Put(g.observations, more) \in SUBSET ObservationType
      BY <1>2, <2>4 DEF Put, GraphType
    <2>7. Indexed(Put(g.observations, more))
          /\ Ids(Put(g.observations, more)) = Ids(g.observations) \cup {id}
      BY <1>2, <2>4, IndexedPut DEF ObservationsInv
    <2>8. \A o \in Put(g.observations, more) : Rests(g, o)
      BY <1>2, <2>5 DEF Put, ObservationsInv
    <2>9. grown = [g EXCEPT !.observations = Put(g.observations, more)]
      BY DEF more, old
    <2> HIDE DEF grown
    <2>10. GraphInv(memory, grown) /\ grown.facts = g.facts
           /\ grown.observations = Put(g.observations, more)
      BY <1>3, <2>6, <2>7, <2>8, <2>9
    <2>11. Judged(g, grown)
      <3>1. \A o \in g.observations, p \in Put(g.observations, more) :
               o.id = p.id /\ p.freshness = "current" => o.freshness = "current"
        BY <1>2, <2>2, <2>4 DEF Put, ObservationsInv, Indexed
      <3> QED
        BY <2>7, <2>10, <3>1 DEF Judged
    <2> QED
      BY <1>6, <2>10, <2>11
  <1>7. CASE /\ c.facts # {} /\ c.facts \subseteq DOMAIN accepted
             /\ id \notin Ids(g.observations) /\ build_observation(g, accepted, c) = added
    <2> DEFINE retired(o) == IF superseded(o) THEN [o EXCEPT !.freshness = "retired"] ELSE o
               kept == {retired(o) : o \in g.observations}
    <2>1. /\ Ids(facts) \in SUBSET FactId /\ Ids(facts) \subseteq Ids(g.facts)
          /\ Memories(Proof(facts)) \in SUBSET Sources
          /\ Proof({f \in g.facts : f.id \in Ids(facts)}) = Proof(facts)
          /\ scope \in Scopes
      BY <1>5, <1>7
    <2>2. new \in ObservationType /\ Rests(g, new) /\ new.id = id /\ id \notin Ids(g.observations)
      <3>1. PICK k \in c.facts : accepted[k] \in facts
        BY <1>7
      <3> HIDE DEF facts, scope
      <3>2. Ids(facts) # {}
        BY <3>1 DEF Ids
      <3> QED
        BY <1>7, <2>1, <3>2 DEF ObservationType, Rests
    <2>3. added = [g EXCEPT !.observations = kept \cup {new}]
      OBVIOUS
    <2>4. \A o \in g.observations :
             /\ retired(o) \in ObservationType /\ retired(o).id = o.id
             /\ Rests(g, retired(o))
             /\ retired(o).freshness = "current" => retired(o) = o
      <3> TAKE o \in g.observations
      <3>1. o \in ObservationType /\ Rests(g, o)
        BY <1>2 DEF GraphType, ObservationsInv
      <3> HIDE DEF superseded
      <3>2. /\ [o EXCEPT !.freshness = "retired"] \in ObservationType
            /\ [o EXCEPT !.freshness = "retired"].id = o.id
            /\ [o EXCEPT !.freshness = "retired"].facts = o.facts
            /\ [o EXCEPT !.freshness = "retired"].memories = o.memories
            /\ [o EXCEPT !.freshness = "retired"].freshness = "retired"
        BY <3>1 DEF ObservationType
      <3> QED
        BY <3>1, <3>2 DEF Rests
    <2> HIDE DEF retired, new, id, facts, scope, superseded
    <2>5. Indexed(kept) /\ Ids(kept) = Ids(g.observations)
      <3>1. \A p, q \in kept : p.id = q.id => p = q
        BY <1>2, <2>4 DEF ObservationsInv, Indexed
      <3>2. \A q \in kept : \E o \in g.observations : o.id = q.id
        BY <2>4
      <3>3. Ids(kept) = Ids(g.observations)
        BY <2>4 DEF Ids
      <3> HIDE DEF kept
      <3> QED
        BY <1>2, <3>1, <3>2, <3>3, IndexedImage DEF ObservationsInv
    <2>6. kept \cup {new} = Put(kept, new)
      BY <2>2, <2>5 DEF Put, Ids
    <2>7. Indexed(kept \cup {new}) /\ Ids(kept \cup {new}) = Ids(g.observations) \cup {id}
      <3> HIDE DEF kept
      <3>1. Indexed(Put(kept, new)) /\ Ids(Put(kept, new)) = Ids(kept) \cup {new.id}
        BY <2>5, IndexedPut
      <3> QED
        BY <2>2, <2>5, <2>6, <3>1
    <2>8. kept \cup {new} \in SUBSET ObservationType /\ \A o \in kept \cup {new} : Rests(g, o)
      BY <2>2, <2>4
    <2>9. \A o \in g.observations, p \in kept \cup {new} :
             o.id = p.id /\ p.freshness = "current" => o.freshness = "current"
      <3>1. \A o \in g.observations : o.id # new.id
        BY <2>2 DEF Ids
      <3> QED
        BY <1>2, <2>4, <3>1 DEF ObservationsInv, Indexed
    <2> HIDE DEF kept, added
    <2>10. GraphInv(memory, added) /\ added.facts = g.facts
           /\ added.observations = kept \cup {new}
      BY <1>3, <2>3, <2>7, <2>8
    <2>11. Judged(g, added)
      BY <2>7, <2>9, <2>10 DEF Judged
    <2> QED
      BY <1>7, <2>10, <2>11
  <1> QED
    BY <1>1, <1>4, <1>6, <1>7

-----------------------------------------------------------------------------
(***************************************************************************)
(* The whole of an extraction.                                             *)
(***************************************************************************)

\* A fold of FoldLeft is FoldKeeps's "it".
LEMMA EntitiesKept ==
    ASSUME memory \in MemoryType, NEW x, Readable(x), NEW g, GraphInv(memory, g)
    PROVE  LET h == FoldLeft(LAMBDA h, c : build_entity(h, x, c), g, x.entities) IN
           GraphInv(memory, h) /\ h.observations = g.observations
  <1> DEFINE S == {h \in GraphType : GraphInv(memory, h) /\ h.observations = g.observations}
             seq == x.entities
             n == Len(seq)
             step == [i \in 1 .. n |-> [h \in S |-> build_entity(h, x, seq[i])]]
             Is(it) == it = [s \in SUBSET DOMAIN seq |->
                               IF s = {} THEN g ELSE build_entity(it[s \ {Max(s)}], x, seq[Max(s)])]
             the == CHOOSE it : Is(it)
  <1>1. n \in Nat /\ DOMAIN seq = 1 .. n
        /\ seq \in Seq([name : Names, from : SUBSET Sources])
    <2>1. seq \in Seq([name : Names, from : SUBSET Sources])
      BY ExtractionsTyped DEF Readable
    <2> QED
      BY <2>1
  <1>2. FoldLeft(LAMBDA h, c : build_entity(h, x, c), g, seq) = the[DOMAIN seq]
    BY DEF FoldLeft, MapThenFoldSet
  <1>3. \A i \in 1 .. n : \A h \in S : build_entity(h, x, seq[i]) \in S
    <2> TAKE i \in 1 .. n
    <2> TAKE h \in S
    <2>1. seq[i] \in [name : Names, from : SUBSET Sources]
      BY <1>1, ElementOfSeq
    <2> QED
      BY <2>1, EntityStep DEF GraphInv
  <1>4. g \in S
    BY DEF GraphInv
  <1> HIDE DEF S, seq, n
  <1>5. step \in [1 .. n -> [S -> S]]
    BY <1>3
  <1> HIDE DEF step
  <1>6. PICK it \in [SUBSET (1 .. n) -> S] :
           \A s \in SUBSET (1 .. n) :
              it[s] = IF s = {} THEN g ELSE step[Max(s)][it[s \ {Max(s)}]]
    <2> HIDE DEF Is, the
    <2>1. n \in Nat
      BY <1>1
    <2>2. WellDefined(n, S, g, step)
      BY <1>4, <1>5, <2>1, FoldExists
    <2> QED
      BY <2>2 DEF WellDefined
  <1>7. Is(it)
    <2>1. \A s \in SUBSET (1 .. n) :
             it[s] = IF s = {} THEN g ELSE build_entity(it[s \ {Max(s)}], x, seq[Max(s)])
      <3> SUFFICES ASSUME NEW s \in SUBSET (1 .. n), s # {}
                   PROVE  it[s] = build_entity(it[s \ {Max(s)}], x, seq[Max(s)])
        BY <1>6
      <3>1. Max(s) \in 1 .. n
        BY <1>1, LastPlace
      <3>2. it[s \ {Max(s)}] \in S
        BY <1>6
      <3> QED
        BY <1>6, <3>1, <3>2 DEF step
    <2> QED
      BY <1>1, <1>6, <2>1
  <1>8. Is(the)
    <2> HIDE DEF Is
    <2> QED
      BY <1>7
  <1>9. the[1 .. n] \in S
    <2>1. \A s \in SUBSET (1 .. n) :
             the[s] = IF s = {} THEN g ELSE build_entity(the[s \ {Max(s)}], x, seq[Max(s)])
      <3> HIDE DEF the
      <3> QED
        BY <1>1, <1>8
    <2> HIDE DEF the
    <2>2. the[{}] \in S
      BY <1>4, <2>1
    <2>3. \A s \in SUBSET (1 .. n) : s # {} /\ the[s \ {Max(s)}] \in S => the[s] \in S
      <3> TAKE s \in SUBSET (1 .. n)
      <3> SUFFICES ASSUME s # {}, the[s \ {Max(s)}] \in S PROVE the[s] \in S
        OBVIOUS
      <3>1. Max(s) \in 1 .. n
        BY <1>1, LastPlace
      <3> QED
        BY <1>3, <2>1, <3>1
    <2> QED
      BY <1>1, <2>2, <2>3, FoldKeeps
  <1> QED
    BY <1>1, <1>2, <1>9 DEF S, seq

LEMMA RelationsKept ==
    ASSUME memory \in MemoryType, NEW x, Readable(x), NEW g, GraphInv(memory, g)
    PROVE  LET h == FoldLeft(LAMBDA h, c : build_relation(h, x, c), g, x.relations) IN
           GraphInv(memory, h) /\ h.observations = g.observations
  <1> DEFINE S == {h \in GraphType : GraphInv(memory, h) /\ h.observations = g.observations}
             seq == x.relations
             n == Len(seq)
             step == [i \in 1 .. n |-> [h \in S |-> build_relation(h, x, seq[i])]]
             Is(it) == it = [s \in SUBSET DOMAIN seq |->
                               IF s = {} THEN g ELSE build_relation(it[s \ {Max(s)}], x, seq[Max(s)])]
             the == CHOOSE it : Is(it)
  <1>1. n \in Nat /\ DOMAIN seq = 1 .. n
        /\ seq \in Seq([subject : Names, object : Names, from : SUBSET Sources])
    <2>1. seq \in Seq([subject : Names, object : Names, from : SUBSET Sources])
      BY ExtractionsTyped DEF Readable
    <2> QED
      BY <2>1
  <1>2. FoldLeft(LAMBDA h, c : build_relation(h, x, c), g, seq) = the[DOMAIN seq]
    BY DEF FoldLeft, MapThenFoldSet
  <1>3. \A i \in 1 .. n : \A h \in S : build_relation(h, x, seq[i]) \in S
    <2> TAKE i \in 1 .. n
    <2> TAKE h \in S
    <2>1. seq[i] \in [subject : Names, object : Names, from : SUBSET Sources]
      BY <1>1, ElementOfSeq
    <2> QED
      BY <2>1, RelationStep DEF GraphInv
  <1>4. g \in S
    BY DEF GraphInv
  <1> HIDE DEF S, seq, n
  <1>5. step \in [1 .. n -> [S -> S]]
    BY <1>3
  <1> HIDE DEF step
  <1>6. PICK it \in [SUBSET (1 .. n) -> S] :
           \A s \in SUBSET (1 .. n) :
              it[s] = IF s = {} THEN g ELSE step[Max(s)][it[s \ {Max(s)}]]
    <2> HIDE DEF Is, the
    <2>1. n \in Nat
      BY <1>1
    <2>2. WellDefined(n, S, g, step)
      BY <1>4, <1>5, <2>1, FoldExists
    <2> QED
      BY <2>2 DEF WellDefined
  <1>7. Is(it)
    <2>1. \A s \in SUBSET (1 .. n) :
             it[s] = IF s = {} THEN g ELSE build_relation(it[s \ {Max(s)}], x, seq[Max(s)])
      <3> SUFFICES ASSUME NEW s \in SUBSET (1 .. n), s # {}
                   PROVE  it[s] = build_relation(it[s \ {Max(s)}], x, seq[Max(s)])
        BY <1>6
      <3>1. Max(s) \in 1 .. n
        BY <1>1, LastPlace
      <3>2. it[s \ {Max(s)}] \in S
        BY <1>6
      <3> QED
        BY <1>6, <3>1, <3>2 DEF step
    <2> QED
      BY <1>1, <1>6, <2>1
  <1>8. Is(the)
    <2> HIDE DEF Is
    <2> QED
      BY <1>7
  <1>9. the[1 .. n] \in S
    <2>1. \A s \in SUBSET (1 .. n) :
             the[s] = IF s = {} THEN g ELSE build_relation(the[s \ {Max(s)}], x, seq[Max(s)])
      <3> HIDE DEF the
      <3> QED
        BY <1>1, <1>8
    <2> HIDE DEF the
    <2>2. the[{}] \in S
      BY <1>4, <2>1
    <2>3. \A s \in SUBSET (1 .. n) : s # {} /\ the[s \ {Max(s)}] \in S => the[s] \in S
      <3> TAKE s \in SUBSET (1 .. n)
      <3> SUFFICES ASSUME s # {}, the[s \ {Max(s)}] \in S PROVE the[s] \in S
        OBVIOUS
      <3>1. Max(s) \in 1 .. n
        BY <1>1, LastPlace
      <3> QED
        BY <1>3, <2>1, <3>1
    <2> QED
      BY <1>1, <2>2, <2>3, FoldKeeps
  <1> QED
    BY <1>1, <1>2, <1>9 DEF S, seq

LEMMA FactsKept ==
    ASSUME memory \in MemoryType, NEW x, Readable(x), NEW g, GraphInv(memory, g)
    PROVE  LET d == FoldLeft(LAMBDA d, i : build_fact(d, x, i), [graph |-> g, accepted |-> <<>>],
                             [i \in 1 .. Len(x.facts) |-> i]) IN
           /\ GraphInv(memory, d.graph) /\ AcceptedInv(memory, d.graph, d.accepted)
           /\ d.graph.observations = g.observations
  <1> DEFINE Type == [graph : GraphType,
                      accepted : UNION {[places -> FactType] : places \in SUBSET Nat}]
             S == {d \in Type : /\ GraphInv(memory, d.graph)
                                /\ AcceptedInv(memory, d.graph, d.accepted)
                                /\ d.graph.observations = g.observations}
             seq == [i \in 1 .. Len(x.facts) |-> i]
             n == Len(x.facts)
             base == [graph |-> g, accepted |-> <<>>]
             step == [i \in 1 .. n |-> [d \in S |-> build_fact(d, x, seq[i])]]
             Is(it) == it = [s \in SUBSET DOMAIN seq |->
                               IF s = {} THEN base ELSE build_fact(it[s \ {Max(s)}], x, seq[Max(s)])]
             the == CHOOSE it : Is(it)
  <1>1. n \in Nat /\ DOMAIN seq = 1 .. n /\ \A i \in 1 .. n : seq[i] = i
    <2>1. x.facts \in Seq([text : Texts, from : SUBSET Sources,
                           about : SUBSET Names, causes : SUBSET Nat])
      BY ExtractionsTyped DEF Readable
    <2> QED
      BY <2>1
  <1>2. FoldLeft(LAMBDA d, i : build_fact(d, x, i), base, seq) = the[DOMAIN seq]
    BY DEF FoldLeft, MapThenFoldSet
  <1>3. \A i \in 1 .. n : \A d \in S : build_fact(d, x, seq[i]) \in S
    <2> TAKE i \in 1 .. n
    <2> TAKE d \in S
    <2>1. d = [graph |-> d.graph, accepted |-> d.accepted]
          /\ GraphInv(memory, d.graph) /\ AcceptedInv(memory, d.graph, d.accepted)
          /\ d.graph.observations = g.observations
      OBVIOUS
    <2>2. PICK h, more : /\ build_fact(d, x, i) = [graph |-> h, accepted |-> more]
                         /\ GraphInv(memory, h) /\ AcceptedInv(memory, h, more)
                         /\ h.observations = d.graph.observations
      <3> HIDE DEF S
      <3> QED
        BY <2>1, FactStep
    <2>3. h \in GraphType /\ more \in UNION {[places -> FactType] : places \in SUBSET Nat}
      BY <2>2 DEF GraphInv, AcceptedInv
    <2>4. [graph |-> h, accepted |-> more] \in S
      BY <2>1, <2>2, <2>3
    <2> HIDE DEF S
    <2> QED
      BY <1>1, <2>2, <2>4
  <1>4. base \in S
    <2>1. <<>> \in [{} -> FactType]
      OBVIOUS
    <2>2. AcceptedInv(memory, g, <<>>)
      BY <2>1 DEF AcceptedInv
    <2> QED
      BY <2>2 DEF GraphInv, AcceptedInv
  <1> HIDE DEF base
  <1> HIDE DEF S, seq, n
  <1>5. step \in [1 .. n -> [S -> S]]
    BY <1>3
  <1> HIDE DEF step
  <1>6. PICK it \in [SUBSET (1 .. n) -> S] :
           \A s \in SUBSET (1 .. n) :
              it[s] = IF s = {} THEN base ELSE step[Max(s)][it[s \ {Max(s)}]]
    <2> HIDE DEF Is, the
    <2>1. n \in Nat
      BY <1>1
    <2>2. WellDefined(n, S, base, step)
      BY <1>4, <1>5, <2>1, FoldExists
    <2> QED
      BY <2>2 DEF WellDefined
  <1>7. Is(it)
    <2>1. \A s \in SUBSET (1 .. n) :
             it[s] = IF s = {} THEN base ELSE build_fact(it[s \ {Max(s)}], x, seq[Max(s)])
      <3> SUFFICES ASSUME NEW s \in SUBSET (1 .. n), s # {}
                   PROVE  it[s] = build_fact(it[s \ {Max(s)}], x, seq[Max(s)])
        BY <1>6
      <3>1. Max(s) \in 1 .. n
        BY <1>1, LastPlace
      <3>2. it[s \ {Max(s)}] \in S
        BY <1>6
      <3> QED
        BY <1>6, <3>1, <3>2 DEF step
    <2> QED
      BY <1>1, <1>6, <2>1
  <1>8. Is(the)
    <2> HIDE DEF Is
    <2> QED
      BY <1>7
  <1>9. the[1 .. n] \in S
    <2>1. \A s \in SUBSET (1 .. n) :
             the[s] = IF s = {} THEN base ELSE build_fact(the[s \ {Max(s)}], x, seq[Max(s)])
      <3> HIDE DEF the
      <3> QED
        BY <1>1, <1>8
    <2> HIDE DEF the
    <2>2. the[{}] \in S
      BY <1>4, <2>1
    <2>3. \A s \in SUBSET (1 .. n) : s # {} /\ the[s \ {Max(s)}] \in S => the[s] \in S
      <3> TAKE s \in SUBSET (1 .. n)
      <3> SUFFICES ASSUME s # {}, the[s \ {Max(s)}] \in S PROVE the[s] \in S
        OBVIOUS
      <3>1. Max(s) \in 1 .. n
        BY <1>1, LastPlace
      <3> QED
        BY <1>3, <2>1, <3>1
    <2> QED
      BY <1>1, <2>2, <2>3, FoldKeeps
  <1> QED
    BY <1>1, <1>2, <1>9 DEF S, seq, base, n

LEMMA JudgedTwice ==
    ASSUME NEW g, NEW h, NEW k, Judged(g, h), Judged(h, k)
    PROVE  Judged(g, k)
  <1>1. Ids(g.observations) \subseteq Ids(k.observations)
    BY DEF Judged
  <1>2. ASSUME NEW o \in g.observations, NEW p \in k.observations,
               o.id = p.id, p.freshness = "current"
        PROVE  o.freshness = "current"
    <2>1. o.id \in Ids(h.observations)
      BY DEF Judged, Ids
    <2>2. PICK q \in h.observations : q.id = o.id
      BY <2>1 DEF Ids
    <2> QED
      BY <1>2, <2>2 DEF Judged
  <1> QED
    BY <1>1, <1>2 DEF Judged

\* What is observed of the facts that were accepted.
Observed(g, x, accepted) ==
    FoldLeft(LAMBDA h, c : build_observation(h, accepted, c), g, x.observations)

LEMMA ObservationsKept ==
    ASSUME memory \in MemoryType, NEW x, Readable(x), NEW g, GraphInv(memory, g),
           NEW accepted, AcceptedInv(memory, g, accepted)
    PROVE  GraphInv(memory, Observed(g, x, accepted)) /\ Judged(g, Observed(g, x, accepted))
  <1> DEFINE S == {h \in GraphType : GraphInv(memory, h) /\ h.facts = g.facts /\ Judged(g, h)}
             seq == x.observations
             n == Len(seq)
             step == [i \in 1 .. n |-> [h \in S |-> build_observation(h, accepted, seq[i])]]
             Is(it) == it = [s \in SUBSET DOMAIN seq |->
                               IF s = {} THEN g ELSE build_observation(it[s \ {Max(s)}], accepted, seq[Max(s)])]
             the == CHOOSE it : Is(it)
  <1>1. n \in Nat /\ DOMAIN seq = 1 .. n
        /\ seq \in Seq([statement : Statements, facts : SUBSET Nat])
    <2>1. seq \in Seq([statement : Statements, facts : SUBSET Nat])
      BY ExtractionsTyped DEF Readable
    <2> QED
      BY <2>1
  <1>2. Observed(g, x, accepted) = the[DOMAIN seq]
    BY DEF Observed, FoldLeft, MapThenFoldSet
  <1>3. \A i \in 1 .. n : \A h \in S : build_observation(h, accepted, seq[i]) \in S
    <2> TAKE i \in 1 .. n
    <2> TAKE h \in S
    <2>1. seq[i] \in [statement : Statements, facts : SUBSET Nat]
      BY <1>1, ElementOfSeq
    <2>2. AcceptedInv(memory, h, accepted)
      BY DEF AcceptedInv
    <2>3. LET k == build_observation(h, accepted, seq[i]) IN
          GraphInv(memory, k) /\ k.facts = g.facts /\ Judged(h, k)
      BY <2>1, <2>2, ObservationStep
    <2> QED
      BY <2>3, JudgedTwice DEF GraphInv
  <1>4. g \in S
    BY DEF GraphInv, ObservationsInv, Indexed, Judged
  <1> HIDE DEF S, seq, n
  <1>5. step \in [1 .. n -> [S -> S]]
    BY <1>3
  <1> HIDE DEF step
  <1>6. PICK it \in [SUBSET (1 .. n) -> S] :
           \A s \in SUBSET (1 .. n) :
              it[s] = IF s = {} THEN g ELSE step[Max(s)][it[s \ {Max(s)}]]
    <2> HIDE DEF Is, the
    <2>1. n \in Nat
      BY <1>1
    <2>2. WellDefined(n, S, g, step)
      BY <1>4, <1>5, <2>1, FoldExists
    <2> QED
      BY <2>2 DEF WellDefined
  <1>7. Is(it)
    <2>1. \A s \in SUBSET (1 .. n) :
             it[s] = IF s = {} THEN g ELSE build_observation(it[s \ {Max(s)}], accepted, seq[Max(s)])
      <3> SUFFICES ASSUME NEW s \in SUBSET (1 .. n), s # {}
                   PROVE  it[s] = build_observation(it[s \ {Max(s)}], accepted, seq[Max(s)])
        BY <1>6
      <3>1. Max(s) \in 1 .. n
        BY <1>1, LastPlace
      <3>2. it[s \ {Max(s)}] \in S
        BY <1>6
      <3> QED
        BY <1>6, <3>1, <3>2 DEF step
    <2> QED
      BY <1>1, <1>6, <2>1
  <1>8. Is(the)
    <2> HIDE DEF Is
    <2> QED
      BY <1>7
  <1>9. the[1 .. n] \in S
    <2>1. \A s \in SUBSET (1 .. n) :
             the[s] = IF s = {} THEN g ELSE build_observation(the[s \ {Max(s)}], accepted, seq[Max(s)])
      <3> HIDE DEF the
      <3> QED
        BY <1>1, <1>8
    <2> HIDE DEF the
    <2>2. the[{}] \in S
      BY <1>4, <2>1
    <2>3. \A s \in SUBSET (1 .. n) : s # {} /\ the[s \ {Max(s)}] \in S => the[s] \in S
      <3> TAKE s \in SUBSET (1 .. n)
      <3> SUFFICES ASSUME s # {}, the[s \ {Max(s)}] \in S PROVE the[s] \in S
        OBVIOUS
      <3>1. Max(s) \in 1 .. n
        BY <1>1, LastPlace
      <3> QED
        BY <1>3, <2>1, <3>1
    <2> QED
      BY <1>1, <2>2, <2>3, FoldKeeps
  <1> QED
    BY <1>1, <1>2, <1>9 DEF S, seq

\* An extraction keeps the invariant, and what does not count any more.
LEMMA UpsertKeeps ==
    ASSUME memory \in MemoryType, NEW x, Readable(x), NEW g, GraphInv(memory, g)
    PROVE  GraphInv(memory, apply_upsert(g, x)) /\ Judged(g, apply_upsert(g, x))
  <1> DEFINE entities == FoldLeft(LAMBDA h, c : build_entity(h, x, c), g, x.entities)
             relations == FoldLeft(LAMBDA h, c : build_relation(h, x, c), entities, x.relations)
             facts == FoldLeft(LAMBDA d, i : build_fact(d, x, i),
                               [graph |-> relations, accepted |-> <<>>],
                               [i \in 1 .. Len(x.facts) |-> i])
             found == facts.graph
             accepted == facts.accepted
             all == Observed(found, x, accepted)
  <1>1. apply_upsert(g, x) = all
    BY Zenon DEF apply_upsert, Observed
  <1>2. GraphInv(memory, entities) /\ entities.observations = g.observations
    BY EntitiesKept
  <1> HIDE DEF entities
  <1>3. GraphInv(memory, relations) /\ relations.observations = g.observations
    BY <1>2, RelationsKept
  <1> HIDE DEF relations
  <1>4. /\ GraphInv(memory, facts.graph) /\ AcceptedInv(memory, facts.graph, facts.accepted)
        /\ facts.graph.observations = g.observations
    BY <1>3, FactsKept
  <1>5. /\ GraphInv(memory, found) /\ AcceptedInv(memory, found, accepted)
        /\ found.observations = g.observations
    BY <1>4
  <1> HIDE DEF facts, found, accepted
  <1>6. GraphInv(memory, all) /\ Judged(found, all)
    BY <1>5, ObservationsKept
  <1> HIDE DEF all
  <1> QED
    BY <1>1, <1>5, <1>6 DEF Judged

-----------------------------------------------------------------------------
(***************************************************************************)
(* Erasing, and what a user says of an observation.                        *)
(***************************************************************************)

\* An erasure leaves what is judged of observations as it is; it drops those that
\* rest on the memory alone.
Forgets(g, h, s) ==
    \A o \in g.observations :
        \/ \E p \in h.observations : p.id = o.id /\ p.freshness = o.freshness
        \/ o.id \notin Ids(h.observations) /\ o.memories = {s}

\* Later versions, or none, of a memory: what is known of an older version
\* stays so.
LEMMA EraseKeeps ==
    ASSUME memory \in MemoryType, NEW g, GraphInv(memory, g),
           \A f \in g.facts : f.evidence # {},
           NEW s \in Sources, memory[s] > 0,
           NEW now \in MemoryType, now[s] = 0 \/ now[s] > memory[s],
           \A t \in Sources : t # s => now[t] = memory[t]
    PROVE  /\ GraphInv(now, erase_sources(g, {s}))
           /\ Forgets(g, erase_sources(g, {s}), s)
  <1> DEFINE ids == {s}
             spared(r) == [r EXCEPT !.evidence = Spared(@, ids)]
             left == {f \in {spared(f) : f \in g.facts} : f.evidence # {}}
             clean(f) == [f EXCEPT !.entities = @ \cap g.entities, !.causes = @ \cap Ids(left)]
             facts == {clean(f) : f \in left}
             proofs(o) == {f \in facts : f.id \in o.facts}
             cut(o) == [o EXCEPT !.facts = @ \cap Ids(facts), !.memories = Memories(Proof(proofs(o)))]
             observations == {cut(o) : o \in g.observations}
             mentions == {m \in g.mentions : m.evidence[1] \notin ids}
             mentioned == {m.entity : m \in mentions}
             relations == {spared(r) : r \in g.relations}
             aliases == {a \in g.aliases : a.entity \in mentioned}
             new == [mentions |-> mentions, aliases |-> aliases,
                     entities |-> g.entities \cap mentioned,
                     relations |-> {r \in relations : r.evidence # {} /\ r.ends \subseteq mentioned},
                     facts |-> facts,
                     observations |-> {o \in observations : o.facts # {}}]
  <1>1. erase_sources(g, {s}) = new
    BY DEF erase_sources
  <1>2. /\ g \in GraphType /\ MentionsInv(memory, g) /\ RelationsInv(memory, g)
        /\ FactsInv(memory, g) /\ ObservationsInv(g)
    BY DEF GraphInv
  <1>3. \A t \in Sources : memory[t] \in Nat /\ now[t] \in Nat
    BY EvidenceConstants DEF MemoryType
  <1>4. \A e \in Evidence : e[1] \in Sources /\ e[2] \in Nat \ {0}
    BY EvidenceConstants DEF Evidence
  <1>5. MentionsInv(now, new)
    <2> SUFFICES ASSUME NEW m \in mentions
                 PROVE  ScopeOf[m.evidence[1]] = m.entity[1] /\ now[m.evidence[1]] = m.evidence[2]
      BY DEF MentionsInv
    <2>1. m.evidence[1] \in Sources /\ m.evidence[1] # s
      BY <1>2, <1>4 DEF GraphType
    <2> QED
      BY <1>2, <2>1 DEF MentionsInv
  <1>6. relations \in SUBSET RelationType /\ Indexed(relations)
        /\ \A r \in relations : Few(r.evidence) /\ r.evidence = Current(now, r.evidence)
    <2>1. \A r \in g.relations : /\ spared(r) \in RelationType /\ spared(r).id = r.id
                                 /\ spared(r).evidence = Spared(r.evidence, ids)
      BY <1>2 DEF GraphType, RelationType, Spared
    <2> HIDE DEF spared
    <2>2. \A r \in g.relations : Few(spared(r).evidence)
      <3> TAKE r \in g.relations
      <3>1. Few(r.evidence) /\ spared(r).evidence \in SUBSET r.evidence
        BY <1>2, <2>1 DEF RelationsInv, Spared
      <3>2. /\ IsFiniteSet(spared(r).evidence)
            /\ Cardinality(spared(r).evidence) <= Cardinality(r.evidence)
        BY <3>1, FS_Subset DEF Few
      <3>3. Cardinality(spared(r).evidence) \in Nat /\ Cardinality(r.evidence) \in Nat
        BY <3>1, <3>2, FS_CardinalityType DEF Few
      <3> QED
        BY <3>1, <3>2, <3>3, EvidenceConstants DEF Few
    <2>3. \A r \in g.relations : spared(r).evidence = Current(now, spared(r).evidence)
      <3> TAKE r \in g.relations
      <3>1. r.evidence = Current(memory, r.evidence) /\ r.evidence \in SUBSET Evidence
        BY <1>2 DEF RelationsInv, GraphType, RelationType
      <3>2. \A e \in Spared(r.evidence, ids) : now[e[1]] = e[2]
        BY <1>4, <3>1 DEF Spared, Current
      <3> QED
        BY <2>1, <3>2 DEF Current
    <2>4. Indexed(relations)
      <3>1. \A q \in relations : \E r \in g.relations : r.id = q.id
        BY <2>1
      <3>2. \A p, q \in relations : p.id = q.id => p = q
        BY <1>2, <2>1 DEF RelationsInv, Indexed
      <3> HIDE DEF relations
      <3> QED
        BY <1>2, <3>1, <3>2, IndexedImage DEF RelationsInv
    <2> QED
      BY <2>1, <2>2, <2>3, <2>4
  <1>7. RelationsInv(now, new)
    <2>1. new.relations \in SUBSET relations
      OBVIOUS
    <2> HIDE DEF relations, new
    <2> QED
      BY <1>6, <2>1, IndexedSubset DEF RelationsInv
  <1>8. \A f \in left : \E q \in g.facts :
           /\ f \in FactType /\ q \in FactType /\ f.id = q.id
           /\ f.evidence = Spared(q.evidence, ids) /\ f.evidence = Current(now, f.id[3])
           /\ f = spared(q)
    <2> SUFFICES ASSUME NEW q \in g.facts
                 PROVE  /\ spared(q) \in FactType /\ q \in FactType /\ spared(q).id = q.id
                        /\ spared(q).evidence = Spared(q.evidence, ids)
                        /\ spared(q).evidence = Current(now, spared(q).id[3])
      OBVIOUS
    <2>1. q \in FactType /\ IdInv(memory, q.id) /\ q.evidence = Current(memory, q.id[3])
      BY <1>2 DEF GraphType, FactsInv
    <2>2. /\ spared(q) \in FactType /\ spared(q).id = q.id
          /\ spared(q).evidence = Spared(q.evidence, ids)
      BY <2>1 DEF FactType, Spared
    <2> HIDE DEF spared
    <2>3. q.id[3] \in SUBSET Evidence
      BY <2>1 DEF FactType, FactId
    <2>4. ASSUME NEW e \in q.id[3]
          PROVE  memory[e[1]] = e[2] /\ e[1] # s <=> now[e[1]] = e[2]
      <3>1. e[1] \in Sources /\ e[2] \in Nat \ {0} /\ (memory[e[1]] = 0 \/ e[2] <= memory[e[1]])
        BY <1>4, <2>1, <2>3 DEF IdInv
      <3>2. CASE e[1] = s
        BY <1>3, <3>1, <3>2
      <3>3. CASE e[1] # s
        BY <3>1, <3>3
      <3> QED
        BY <3>2, <3>3
    <2>5. Spared(q.evidence, ids) = Current(now, q.id[3])
      BY <2>1, <2>4 DEF Spared, Current
    <2> QED
      BY <2>1, <2>2, <2>5
  <1>9. facts \in SUBSET FactType /\ Indexed(facts)
        /\ \A f \in facts : IdInv(now, f.id) /\ f.evidence = Current(now, f.id[3])
    <2>1. \A f \in left : /\ clean(f) \in FactType /\ clean(f).id = f.id
                          /\ clean(f).evidence = f.evidence
      <3> TAKE f \in left
      <3>1. f \in FactType
        BY <1>8
      <3> HIDE DEF left
      <3>2. f.entities \cap g.entities \in SUBSET Entities /\ f.causes \cap Ids(left) \in SUBSET FactId
        BY <3>1 DEF FactType
      <3> QED
        BY <3>1, <3>2 DEF FactType
    <2> HIDE DEF clean
    <2>2. \A f \in left : IdInv(now, f.id)
      <3> TAKE f \in left
      <3>1. PICK q \in g.facts : q.id = f.id /\ q \in FactType
        BY <1>8
      <3>2. q.id[3] \in SUBSET Evidence /\ IdInv(memory, q.id)
        BY <1>2, <3>1 DEF FactsInv, FactType, FactId
      <3>3. ASSUME NEW e \in q.id[3] PROVE now[e[1]] = 0 \/ e[2] <= now[e[1]]
        <4>1. e[1] \in Sources /\ e[2] \in Nat \ {0} /\ (memory[e[1]] = 0 \/ e[2] <= memory[e[1]])
          BY <1>4, <3>2 DEF IdInv
        <4> QED
          BY <1>3, <4>1
      <3> QED
        BY <3>1, <3>2, <3>3 DEF IdInv
    <2>3. Indexed(left)
      <3>1. \A q \in left : \E r \in g.facts : r.id = q.id
        BY <1>8
      <3>2. \A p, q \in left : p.id = q.id => p = q
        <4> HIDE DEF left, spared
        <4> QED
          BY <1>2, <1>8 DEF FactsInv, Indexed
      <3> HIDE DEF left
      <3> QED
        BY <1>2, <3>1, <3>2, IndexedImage DEF FactsInv
    <2>4. Indexed(facts)
      <3> HIDE DEF left
      <3>1. \A q \in facts : \E r \in left : r.id = q.id
        BY <2>1
      <3>2. \A p, q \in facts : p.id = q.id => p = q
        BY <2>1, <2>3 DEF Indexed
      <3> HIDE DEF facts
      <3> QED
        BY <2>3, <3>1, <3>2, IndexedImage
    <2>5. \A f \in left : f.evidence = Current(now, f.id[3])
      BY <1>8
    <2> HIDE DEF left
    <2> QED
      BY <2>1, <2>2, <2>4, <2>5
  <1>10. new.facts = facts /\ new.observations = {o \in observations : o.facts # {}}
    OBVIOUS
  <1>11. FactsInv(now, new)
    BY <1>9, <1>10 DEF FactsInv
  <1>17. Ids(facts) = Ids(left)
    <2>1. \A f \in left : clean(f).id = f.id
      <3> TAKE f \in left
      <3>1. f \in FactType
        BY <1>8
      <3> HIDE DEF left
      <3> QED
        BY <3>1 DEF FactType
    <2> HIDE DEF left, clean
    <2> QED
      BY <2>1 DEF Ids
  <1> HIDE DEF facts
  <1>12. \A o \in g.observations :
            /\ cut(o) \in ObservationType /\ cut(o).id = o.id /\ cut(o).freshness = o.freshness
            /\ cut(o).facts = o.facts \cap Ids(facts)
            /\ cut(o).memories = Memories(Proof(proofs(o)))
    <2> TAKE o \in g.observations
    <2>1. o \in ObservationType
      BY <1>2 DEF GraphType
    <2>2. Memories(Proof(proofs(o))) \in SUBSET Sources
      BY <1>9 DEF Memories, Proof, FactType, Evidence
    <2> HIDE DEF proofs
    <2>3. o.facts \cap Ids(facts) \in SUBSET FactId
      BY <2>1 DEF ObservationType
    <2> QED
      BY <2>1, <2>2, <2>3 DEF ObservationType
  <1>13. observations \in SUBSET ObservationType /\ Indexed(observations)
         /\ \A o \in observations : o.facts # {} => Rests(new, o)
    <2> HIDE DEF cut
    <2>1. \A o \in g.observations : cut(o).facts # {} => Rests(new, cut(o))
      <3> TAKE o \in g.observations
      <3>1. {f \in facts : f.id \in cut(o).facts} = proofs(o)
        BY <1>12 DEF Ids
      <3> HIDE DEF proofs, new
      <3> QED
        BY <1>10, <1>12, <3>1 DEF Rests
    <2>2. Indexed(observations)
      <3>1. \A q \in observations : \E r \in g.observations : r.id = q.id
        BY <1>12
      <3>2. \A p, q \in observations : p.id = q.id => p = q
        <4> HIDE DEF proofs
        <4> QED
          BY <1>2, <1>12 DEF ObservationsInv, Indexed
      <3> HIDE DEF observations
      <3> QED
        BY <1>2, <3>1, <3>2, IndexedImage DEF ObservationsInv
    <2> HIDE DEF proofs, new
    <2> QED
      BY <1>12, <2>1, <2>2
  <1>14. ObservationsInv(new)
    <2>1. new.observations \in SUBSET observations /\ \A o \in new.observations : o.facts # {}
      BY <1>10
    <2> HIDE DEF observations, new
    <2> QED
      BY <1>13, <2>1, IndexedSubset DEF ObservationsInv
  <1>15. new \in GraphType
    <2>1. mentions \in SUBSET [entity : Entities, evidence : Evidence]
          /\ aliases \in SUBSET [entity : Entities, evidence : Evidence]
          /\ g.entities \cap mentioned \in SUBSET Entities
      BY <1>2 DEF GraphType
    <2> HIDE DEF mentions, mentioned, aliases, relations, observations
    <2> QED
      BY <1>6, <1>9, <1>13, <2>1 DEF GraphType
  <1>16. Forgets(g, new, s)
    <2> SUFFICES ASSUME NEW o \in g.observations
                 PROVE  \/ \E p \in new.observations : p.id = o.id /\ p.freshness = o.freshness
                        \/ o.id \notin Ids(new.observations) /\ o.memories = {s}
      BY DEF Forgets
    <2>1. CASE cut(o).facts # {}
      <3> HIDE DEF cut, proofs
      <3>1. cut(o) \in new.observations
        BY <1>10, <2>1
      <3> QED
        BY <1>12, <3>1
    <2>2. CASE cut(o).facts = {}
      <3>1. o.id \notin Ids(new.observations)
        <4> HIDE DEF cut, proofs
        <4> QED
          BY <1>2, <1>10, <1>12, <2>2 DEF ObservationsInv, Indexed, Ids
      <3>2. \A f \in g.facts : f.id \in o.facts => \A e \in f.evidence : e[1] = s
        <4> SUFFICES ASSUME NEW f \in g.facts, f.id \in o.facts,
                            NEW e \in f.evidence, e[1] # s
                     PROVE  FALSE
          OBVIOUS
        <4>1. f \in FactType
          BY <1>2 DEF GraphType
        <4>2. spared(f).evidence = Spared(f.evidence, ids) /\ spared(f).id = f.id
          BY <4>1 DEF FactType
        <4>3. e \in Spared(f.evidence, ids)
          BY DEF Spared
        <4>4. f.id \in Ids(left)
          <5> HIDE DEF spared
          <5> QED
            BY <4>2, <4>3 DEF Ids
        <4>5. Ids(facts) = Ids(left)
          BY <1>17
        <4> HIDE DEF left, cut, proofs
        <4> QED
          BY <1>12, <2>2, <4>4, <4>5
      <3>3. Rests(g, o)
        BY <1>2 DEF ObservationsInv
      <3>4. PICK f \in g.facts : f.id \in o.facts
        BY <3>3 DEF Rests, Ids
      <3>5. PICK e \in f.evidence : e[1] = s
        BY <3>2, <3>4
      <3>6. Memories(Proof({q \in g.facts : q.id \in o.facts})) = {s}
        BY <3>2, <3>4, <3>5 DEF Memories, Proof
      <3> QED
        BY <3>1, <3>3, <3>6 DEF Rests
    <2> QED
      BY <2>1, <2>2
  <1> HIDE DEF new
  <1> QED
    BY <1>1, <1>5, <1>7, <1>11, <1>14, <1>15, <1>16 DEF GraphInv

-----------------------------------------------------------------------------
(***************************************************************************)
(* The steps of the system.                                                *)
(***************************************************************************)

\* An extraction is of memories that are there.
LEMMA UpsertStep ==
    ASSUME EvidenceInv, NEW caller \in Callers, NEW x \in Extractions,
           graph_upsert_candidates(caller, x)
    PROVE  EvidenceInv' /\ Judged(graph, graph')
  <1>1. Readable(x) /\ graph' = apply_upsert(graph, x) /\ validate_state(graph')
        /\ UNCHANGED <<memory, expired, erased>> /\ steps' \in 0 .. MaxSteps
    <2>1. \A s \in x.sources : memory[s] > 0
      BY DEF graph_upsert_candidates, validate_graph_bindings, graph_source_snapshot
    <2>2. validate_state(graph')
      BY DEF graph_upsert_candidates, upsert_learning, commit_state
    <2>3. steps' \in 0 .. MaxSteps
      BY EvidenceConstants DEF graph_upsert_candidates, Step, EvidenceInv
    <2> QED
      BY <2>1, <2>2, <2>3
         DEF graph_upsert_candidates, upsert_learning, commit_state, Readable
  <1>2. GraphInv(memory, graph') /\ Judged(graph, graph')
    BY <1>1, UpsertKeeps DEF EvidenceInv
  <1>3. GraphInv(memory', graph')
    BY <1>1, <1>2
  <1>4. validate_state(graph)'
    BY <1>1 DEF validate_state
  <1> QED
    BY <1>1, <1>2, <1>3, <1>4 DEF EvidenceInv

\* What both the change and the removal of a memory do to the graph.
LEMMA EraseStep ==
    ASSUME EvidenceInv, NEW s \in Sources, erase_graph_sources(s),
           memory' \in MemoryType, memory'[s] = 0 \/ memory'[s] > memory[s],
           \A t \in Sources : t # s => memory'[t] = memory[t],
           expired' \subseteq Sources, steps' \in 0 .. MaxSteps
    PROVE  EvidenceInv' /\ Forgets(graph, graph', s) /\ memory'[s] # memory[s]
  <1>1. /\ memory[s] > 0 /\ validate_state(graph') /\ graph' = erase_sources(graph, {s})
        /\ erased' = erased \cup {<<s, memory[s]>>}
    BY DEF erase_graph_sources, commit_state
  <1>2. GraphInv(memory', graph') /\ Forgets(graph, graph', s)
    <2>1. memory \in MemoryType /\ GraphInv(memory, graph) /\ \A f \in graph.facts : f.evidence # {}
      BY DEF EvidenceInv, validate_state
    <2> DEFINE now == memory'
    <2>2. now \in MemoryType /\ (now[s] = 0 \/ now[s] > memory[s])
          /\ \A t \in Sources : t # s => now[t] = memory[t]
      OBVIOUS
    <2> HIDE DEF now
    <2>3. GraphInv(now, erase_sources(graph, {s})) /\ Forgets(graph, erase_sources(graph, {s}), s)
      BY <1>1, <2>1, <2>2, EraseKeeps
    <2> QED
      BY <1>1, <2>3 DEF now
  <1>3. \A t \in Sources : memory[t] \in 0 .. MaxVersion /\ memory'[t] \in 0 .. MaxVersion
    BY DEF EvidenceInv, MemoryType
  <1>4. erased' \subseteq Evidence
    BY <1>1, <1>3, EvidenceConstants DEF EvidenceInv, Evidence
  <1>5. \A e \in erased' : memory'[e[1]] = 0 \/ e[2] < memory'[e[1]]
    <2> TAKE e \in erased'
    <2>1. CASE e = <<s, memory[s]>>
      BY <1>3, <2>1, EvidenceConstants
    <2>2. CASE e \in erased
      <3>1. e[1] \in Sources /\ e[2] \in Nat /\ (memory[e[1]] = 0 \/ e[2] < memory[e[1]])
        BY <2>2, EvidenceConstants DEF EvidenceInv, Evidence
      <3>2. CASE e[1] = s
        BY <1>1, <1>3, <3>1, <3>2, EvidenceConstants
      <3>3. CASE e[1] # s
        BY <3>1, <3>3
      <3> QED
        BY <3>2, <3>3
    <2> QED
      BY <1>1, <2>1, <2>2
  <1>6. validate_state(graph)'
    BY <1>1 DEF validate_state
  <1>7. memory'[s] # memory[s]
    BY <1>1, <1>3
  <1> QED
    BY <1>2, <1>4, <1>5, <1>6, <1>7 DEF EvidenceInv

LEMMA UpdateStep ==
    ASSUME EvidenceInv, NEW s \in Sources, update(s)
    PROVE  EvidenceInv' /\ Forgets(graph, graph', s) /\ memory'[s] # memory[s]
  <1>1. memory \in [Sources -> 0 .. MaxVersion] /\ MaxVersion \in Nat
    BY EvidenceConstants DEF EvidenceInv, MemoryType
  <1>2. memory[s] \in 0 .. MaxVersion /\ memory[s] < MaxVersion
        /\ memory' = [memory EXCEPT ![s] = @ + 1]
    BY <1>1 DEF update
  <1>3. memory[s] + 1 \in 0 .. MaxVersion /\ memory[s] + 1 > memory[s]
    BY <1>1, <1>2
  <1>4. memory' \in MemoryType /\ memory'[s] > memory[s]
        /\ \A t \in Sources : t # s => memory'[t] = memory[t]
    BY <1>1, <1>2, <1>3 DEF MemoryType
  <1>5. expired' \subseteq Sources
    BY DEF update, EvidenceInv
  <1>6. steps' \in 0 .. MaxSteps /\ erase_graph_sources(s)
    BY EvidenceConstants DEF update, Step, EvidenceInv
  <1> QED
    BY <1>4, <1>5, <1>6, EraseStep

LEMMA DeleteStep ==
    ASSUME EvidenceInv, NEW caller \in Callers, NEW s \in Sources, delete(caller, s)
    PROVE  EvidenceInv' /\ Forgets(graph, graph', s) /\ memory'[s] # memory[s]
  <1>1. memory \in [Sources -> 0 .. MaxVersion] /\ MaxVersion \in Nat
        /\ memory' = [memory EXCEPT ![s] = 0]
    BY EvidenceConstants DEF EvidenceInv, MemoryType, delete
  <1>2. memory' \in MemoryType /\ memory'[s] = 0
        /\ \A t \in Sources : t # s => memory'[t] = memory[t]
    BY <1>1 DEF MemoryType
  <1>3. expired' \subseteq Sources
    BY DEF delete, EvidenceInv
  <1>4. steps' \in 0 .. MaxSteps /\ erase_graph_sources(s)
    BY EvidenceConstants DEF delete, Step, EvidenceInv
  <1> QED
    BY <1>2, <1>3, <1>4, EraseStep

LEMMA ExpireStep ==
    ASSUME EvidenceInv, NEW s \in Sources, Expire(s)
    PROVE  EvidenceInv' /\ graph' = graph
  <1>1. UNCHANGED <<graph, memory, erased>> /\ expired' \subseteq Sources
    BY DEF Expire, EvidenceInv
  <1>2. steps' \in 0 .. MaxSteps
    BY EvidenceConstants DEF Expire, Step, EvidenceInv
  <1>3. validate_state(graph)'
    BY <1>1 DEF EvidenceInv, validate_state
  <1> QED
    BY <1>1, <1>2, <1>3 DEF EvidenceInv

\* Only the observation that was acted on is another, by its freshness alone.
LEMMA ActionStep ==
    ASSUME EvidenceInv, NEW caller \in Callers, NEW o \in graph.observations,
           NEW action \in {"invalidate", "restore"},
           graph_observation_action(caller, o, action)
    PROVE  /\ EvidenceInv'
           /\ graph'.observations = Put(graph.observations,
                 [o EXCEPT !.freshness = IF action = "restore" THEN "current" ELSE "invalidated"])
  <1> DEFINE p == [o EXCEPT !.freshness = IF action = "restore" THEN "current" ELSE "invalidated"]
             now == Put(graph.observations, p)
  <1>1. /\ graph' = [graph EXCEPT !.observations = now] /\ validate_state(graph')
        /\ UNCHANGED <<memory, expired, erased>>
    BY DEF graph_observation_action, act_on_observation, commit_state
  <1>2. steps' \in 0 .. MaxSteps
    BY EvidenceConstants DEF graph_observation_action, Step, EvidenceInv
  <1>3. graph \in GraphType /\ ObservationsInv(graph)
    BY DEF EvidenceInv, GraphInv
  <1>4. o \in ObservationType /\ Rests(graph, o)
    BY <1>3 DEF GraphType, ObservationsInv
  <1>5. p \in ObservationType /\ p.id = o.id /\ Rests(graph, p)
    <2>1. /\ p \in ObservationType /\ p.id = o.id /\ p.facts = o.facts /\ p.memories = o.memories
      BY <1>4 DEF ObservationType
    <2> HIDE DEF p
    <2> QED
      BY <1>4, <2>1 DEF Rests
  <1> HIDE DEF p
  <1>6. Indexed(now)
    BY <1>3, IndexedPut DEF ObservationsInv
  <1>7. now \in SUBSET ObservationType /\ \A q \in now : Rests(graph, q)
    BY <1>3, <1>5 DEF Put, ObservationsInv, GraphType
  <1> HIDE DEF now
  <1>8. /\ graph'.facts = graph.facts /\ graph'.relations = graph.relations
        /\ graph'.mentions = graph.mentions /\ graph'.observations = now
        /\ graph' \in GraphType
    BY <1>1, <1>3, <1>7 DEF GraphType
  <1>9. ObservationsInv(graph')
    BY <1>6, <1>7, <1>8 DEF ObservationsInv, Rests
  <1>10. GraphInv(memory, graph')
    BY <1>8, <1>9 DEF EvidenceInv, GraphInv, MentionsInv, RelationsInv, FactsInv
  <1>11. GraphInv(memory', graph') /\ validate_state(graph)'
    BY <1>1, <1>10 DEF validate_state
  <1> QED
    BY <1>1, <1>2, <1>8, <1>11 DEF EvidenceInv, now, p

LEMMA EvidenceInit ==
    ASSUME Init
    PROVE  EvidenceInv
  <1>1. memory \in MemoryType /\ expired \subseteq Sources /\ erased \subseteq Evidence
        /\ steps \in 0 .. MaxSteps /\ erased = {} /\ graph = EmptyGraph
    BY EvidenceConstants DEF Init, MemoryType
  <1>2. IsFiniteSet({})
    BY FS_EmptySet
  <1>3. GraphInv(memory, EmptyGraph)
    BY <1>2 DEF GraphInv, GraphType, EmptyGraph, MentionsInv, RelationsInv, FactsInv,
                ObservationsInv, Indexed
  <1>4. validate_state(EmptyGraph)
    BY DEF validate_state, EmptyGraph
  <1> QED
    BY <1>1, <1>3, <1>4 DEF EvidenceInv

LEMMA EvidenceNext ==
    ASSUME EvidenceInv, [Next]_vars
    PROVE  EvidenceInv'
  <1>1. CASE UNCHANGED vars
    <2>1. validate_state(graph)'
      BY <1>1 DEF EvidenceInv, vars, validate_state
    <2> QED
      BY <1>1, <2>1 DEF EvidenceInv, vars
  <1>2. ASSUME NEW caller \in Callers, NEW x \in Extractions, graph_upsert_candidates(caller, x)
        PROVE  EvidenceInv'
    BY <1>2, UpsertStep
  <1>3. ASSUME NEW s \in Sources, update(s) PROVE EvidenceInv'
    BY <1>3, UpdateStep
  <1>4. ASSUME NEW s \in Sources, Expire(s) PROVE EvidenceInv'
    BY <1>4, ExpireStep
  <1>5. ASSUME NEW s \in Sources, NEW caller \in Callers, delete(caller, s) PROVE EvidenceInv'
    BY <1>5, DeleteStep
  <1>6. ASSUME NEW caller \in Callers, NEW o \in graph.observations,
               NEW action \in {"invalidate", "restore"},
               graph_observation_action(caller, o, action)
        PROVE  EvidenceInv'
    BY <1>6, ActionStep
  <1> QED
    BY <1>1, <1>2, <1>3, <1>4, <1>5, <1>6 DEF Next

\* The graph follows the memories: it is at every time what EvidenceInv says.
THEOREM GraphFollows == Spec => []EvidenceInv
  <1>1. Init => EvidenceInv
    BY EvidenceInit
  <1>2. EvidenceInv /\ [Next]_vars => EvidenceInv'
    BY EvidenceNext
  <1> QED
    BY <1>1, <1>2, PTL DEF Spec

\* Every state of the graph is one that can be saved, of records that are told
\* apart by their ids, each resting on no more evidence than is kept.
THEOREM GraphIsTyped == Spec => []TypeOK
  <1>1. EvidenceInv => TypeOK
    <2> SUFFICES ASSUME EvidenceInv PROVE TypeOK
      OBVIOUS
    <2>1. graph \in GraphType /\ MentionsInv(memory, graph) /\ RelationsInv(memory, graph)
          /\ FactsInv(memory, graph) /\ ObservationsInv(graph)
      BY DEF EvidenceInv, GraphInv
    <2>2. \A records \in {graph.relations, graph.facts, graph.observations} :
             Cardinality(Ids(records)) = Cardinality(records)
      BY <2>1, IdsAreCounted DEF RelationsInv, FactsInv, ObservationsInv
    <2>3. \A r \in graph.relations :
             r.evidence \subseteq Evidence /\ Cardinality(r.evidence) <= MAX_GRAPH_EVIDENCE
      BY <2>1 DEF GraphType, RelationType, RelationsInv, Few
    <2>4. \A f \in graph.facts :
             f.evidence \subseteq Evidence /\ Cardinality(f.evidence) <= MAX_GRAPH_EVIDENCE
      <3> TAKE f \in graph.facts
      <3>1. f.evidence \subseteq Evidence /\ Few(f.id[3]) /\ f.evidence \in SUBSET f.id[3]
        BY <2>1 DEF GraphType, FactType, FactsInv, IdInv, Current
      <3>2. /\ IsFiniteSet(f.evidence) /\ Cardinality(f.evidence) <= Cardinality(f.id[3])
        BY <3>1, FS_Subset DEF Few
      <3>3. Cardinality(f.evidence) \in Nat /\ Cardinality(f.id[3]) \in Nat
        BY <3>1, <3>2, FS_CardinalityType DEF Few
      <3> QED
        BY <3>1, <3>2, <3>3, EvidenceConstants DEF Few
    <2>5. \A o \in graph.observations : o.freshness \in {"current", "retired", "invalidated"}
      BY <2>1 DEF GraphType, ObservationType
    <2>6. /\ graph.entities \subseteq Entities
          /\ graph.mentions \subseteq [entity : Entities, evidence : Evidence]
          /\ \A m \in graph.mentions : ScopeOf[m.evidence[1]] = m.entity[1]
      BY <2>1 DEF GraphType, MentionsInv
    <2> QED
      BY <2>2, <2>3, <2>4, <2>5, <2>6 DEF EvidenceInv, TypeOK, MemoryType
  <1> QED
    BY <1>1, GraphFollows, PTL

\* No mention, relation, fact, observation or triple is left of a version whose
\* change or removal was acknowledged, nor does an extraction bring it back.
THEOREM ErasedLeavesNoTrace == Spec => []NoTraceOfErased
  <1>1. EvidenceInv => NoTraceOfErased
    <2> SUFFICES ASSUME EvidenceInv PROVE NoTraceOfErased
      OBVIOUS
    <2>1. graph \in GraphType /\ MentionsInv(memory, graph) /\ RelationsInv(memory, graph)
          /\ FactsInv(memory, graph) /\ ObservationsInv(graph)
      BY DEF EvidenceInv, GraphInv
    <2>2. \A e \in Evidence : e[1] \in Sources /\ e[2] \in Nat \ {0}
      BY EvidenceConstants DEF Evidence
    <2>3. \A e \in erased : memory[e[1]] # e[2]
      <3> TAKE e \in erased
      <3>1. e[1] \in Sources /\ e[2] \in Nat \ {0} /\ (memory[e[1]] = 0 \/ e[2] < memory[e[1]])
        BY <2>2 DEF EvidenceInv
      <3> QED
        BY <3>1
    <2>4. \A r \in graph.relations \cup graph.facts : \A e \in r.evidence :
             e \in Evidence /\ memory[e[1]] = e[2]
      BY <2>1 DEF RelationsInv, FactsInv, Current, GraphType, RelationType, FactType
    <2>5. ASSUME NEW e \in erased
          PROVE  /\ \A m \in graph.mentions : m.evidence # e
                 /\ \A r \in graph.relations \cup graph.facts : e \notin r.evidence
      BY <2>1, <2>3, <2>4 DEF MentionsInv
    <2>6. ASSUME NEW s \in Sources, NEW id \in Ids(graph.facts), memory[s] = 0,
                 <<"fact", id, "evidenceSource", s>> \in build_rdf_projection(graph)
          PROVE  FALSE
      <3>1. \E f \in graph.facts : s \in Memories(f.evidence)
        <4> DEFINE t == <<"fact", id, "evidenceSource", s>>
        <4>1. /\ \A e : t # <<"entity", e>>
              /\ \A r, e : t # <<"relation", r, e>>
              /\ \A q, e : t # <<"fact", q, "about", e>>
              /\ \A q, c : t # <<"fact", q, "causedBy", c>>
              /\ \A o, q : t # <<"observation", o, "supportedBy", q>>
          OBVIOUS
        <4>2. \A q, u : t = <<"fact", q, "evidenceSource", u>> => u = s
          OBVIOUS
        <4>4. t \in build_rdf_projection(graph)
          BY <2>6
        <4> HIDE DEF t
        <4>3. t \in UNION {{<<"fact", f.id, "evidenceSource", u>> : u \in Memories(f.evidence)} :
                               f \in graph.facts}
          BY <4>1, <4>4 DEF build_rdf_projection
        <4> QED
          BY <4>2, <4>3
      <3>2. PICK f \in graph.facts : \E e \in f.evidence : e[1] = s
        BY <3>1 DEF Memories
      <3> QED
        BY <2>2, <2>4, <2>6, <3>2
    <2> QED
      BY <2>1, <2>5, <2>6 DEF NoTraceOfErased, ObservationsInv, Rests
  <1> QED
    BY <1>1, GraphFollows, PTL

\* What a user has taken back stays so until a caller who sees a proof restores
\* it: no extraction and no change of a memory makes it count again, except that
\* it is forgotten with the one memory it rested on.
THEOREM JudgementIsKept == Spec => JudgementHolds
  <1> DEFINE Stays(o) == \E p \in graph'.observations : p.id = o.id /\ p.freshness # "current"
             Restored(o) ==
                /\ [o EXCEPT !.freshness = "current"] \in graph'.observations
                /\ \E caller \in Callers : o.id[1] \in SeesScope[caller]
                                           /\ observation_provenance(graph, caller, o) # {}
             Forgotten(o) ==
                /\ o.id \notin Ids(graph'.observations)
                /\ \E s \in Sources : o.memories = {s} /\ memory'[s] # memory[s]
             Kept == \A o \in {o \in graph.observations : o.freshness # "current"} :
                        \/ Stays(o)
                        \/ Restored(o)
                        \/ Forgotten(o)
  <1>1. EvidenceInv /\ [Next]_vars => [Kept]_vars
    <2> SUFFICES ASSUME EvidenceInv, Next,
                        NEW o \in graph.observations, o.freshness # "current"
                 PROVE  Stays(o) \/ Restored(o) \/ Forgotten(o)
      BY DEF vars
    <2>1. \A p \in graph.observations : o.id = p.id => o = p
      BY DEF EvidenceInv, GraphInv, ObservationsInv, Indexed
    <2>2. ASSUME NEW caller \in Callers, NEW x \in Extractions, graph_upsert_candidates(caller, x)
          PROVE  Stays(o)
      BY <2>2, UpsertStep DEF Judged, Ids
    <2>3. ASSUME NEW s \in Sources, Forgets(graph, graph', s), memory'[s] # memory[s]
          PROVE  Stays(o) \/ Forgotten(o)
      BY <2>3 DEF Forgets
    <2>4. ASSUME NEW s \in Sources, Expire(s) PROVE Stays(o)
      BY <2>4, ExpireStep
    <2>5. ASSUME NEW caller \in Callers, NEW q \in graph.observations,
                 NEW action \in {"invalidate", "restore"},
                 graph_observation_action(caller, q, action)
          PROVE  Stays(o) \/ Restored(o)
      <3> DEFINE now == [q EXCEPT !.freshness = IF action = "restore" THEN "current"
                                                ELSE "invalidated"]
      <3>1. graph'.observations = Put(graph.observations, now)
        BY <2>5, ActionStep
      <3>2. q \in ObservationType
        BY DEF EvidenceInv, GraphInv, GraphType
      <3>3. now.id = q.id /\ now.freshness = IF action = "restore" THEN "current" ELSE "invalidated"
        BY <3>2 DEF ObservationType
      <3>4. CASE q # o
        <4>1. q.id # o.id
          BY <2>1, <3>4
        <4> HIDE DEF now
        <4> QED
          BY <3>1, <3>3, <4>1 DEF Put
      <3>5. CASE q = o /\ action = "invalidate"
        <4> HIDE DEF now
        <4> QED
          BY <3>1, <3>3, <3>5 DEF Put
      <3>6. CASE q = o /\ action = "restore"
        <4>1. now = [o EXCEPT !.freshness = "current"]
          BY <3>6
        <4>2. o.id[1] \in SeesScope[caller] /\ observation_provenance(graph, caller, o) # {}
          BY <2>5, <3>6 DEF graph_observation_action
        <4> HIDE DEF now
        <4> QED
          BY <3>1, <4>1, <4>2 DEF Put
      <3> QED
        BY <3>4, <3>5, <3>6
    <2> HIDE DEF Stays, Restored, Forgotten
    <2> QED
      BY <2>2, <2>3, <2>4, <2>5, UpdateStep, DeleteStep DEF Next
  <1> QED
    BY <1>1, GraphFollows, PTL DEF Spec, JudgementHolds

-----------------------------------------------------------------------------
(***************************************************************************)
(* The reads.                                                              *)
(***************************************************************************)

\* An entity is eligible when a mention of it is current.
LEMMA EligibleIsCurrent ==
    ASSUME EvidenceInv, NEW caller \in Callers
    PROVE  /\ EligibleEntities(graph, caller)
                = {m.entity : m \in {m \in graph.mentions : graph_evidence_current(caller, m.evidence)}}
           /\ EligibleEntities(graph, caller)
                = {e \in graph.entities : graph_entity_current(graph, caller, e)}
           /\ \A e : e \in EligibleEntities(graph, caller) <=> graph_entity_current(graph, caller, e)
  <1>1. \A m \in graph.mentions : ScopeOf[m.evidence[1]] = m.entity[1] /\ m.entity \in graph.entities
    BY DEF EvidenceInv, GraphInv, MentionsInv, validate_state
  <1> QED
    BY <1>1 DEF EligibleEntities, graph_entity_current

\* What is current is proved.
LEMMA CurrentIsProven ==
    ASSUME NEW caller, NEW g
    PROVE  /\ \A evidence : AnyCurrent(caller, evidence) => active_provenance(caller, evidence) # {}
           /\ \A e : graph_entity_current(g, caller, e) => entity_provenance(g, caller, e) # {}
           /\ \A o : (\E f \in g.facts : f.id \in o.facts /\ AnyCurrent(caller, f.evidence))
                        => observation_provenance(g, caller, o) # {}
  <1>1. \A evidence : AnyCurrent(caller, evidence) => active_provenance(caller, evidence) # {}
    BY DEF AnyCurrent, active_provenance, Memories
  <1>2. ASSUME NEW e, graph_entity_current(g, caller, e)
        PROVE  entity_provenance(g, caller, e) # {}
    <2>1. AnyCurrent(caller, {m.evidence : m \in {m \in g.mentions : m.entity = e}})
      BY <1>2 DEF graph_entity_current, AnyCurrent
    <2> QED
      BY <1>1, <2>1 DEF entity_provenance
  <1>3. ASSUME NEW o, NEW f \in g.facts, f.id \in o.facts, AnyCurrent(caller, f.evidence)
        PROVE  observation_provenance(g, caller, o) # {}
    <2>1. AnyCurrent(caller, Proof({q \in g.facts : q.id \in o.facts}))
      BY <1>3 DEF AnyCurrent, Proof
    <2> QED
      BY <1>1, <2>1 DEF observation_provenance
  <1> QED
    BY <1>1, <1>2, <1>3

\* The three readings of the graph are one.
THEOREM ReadingsAgree == Spec => []ReadsAgree
  <1>1. EvidenceInv => ReadsAgree
    <2> SUFFICES ASSUME EvidenceInv, NEW caller \in Callers
                 PROVE  LET exported == graph_export(graph, caller)
                            everything == [part \in DOMAIN exported |-> {i[1] : i \in exported[part]}] IN
                        /\ everything = graph_status(graph, caller)
                        /\ everything = [entities |-> EligibleEntities(graph, caller),
                                         relations |-> Ids(EligibleRelations(graph, caller)),
                                         facts |-> Ids(EligibleFacts(graph, caller)),
                                         observations |-> Ids(EligibleObservations(graph, caller))]
                        /\ \A part \in DOMAIN exported : \A i \in exported[part] : i[2] # {}
      BY DEF ReadsAgree
    <2> DEFINE entities == {e \in graph.entities : graph_entity_current(graph, caller, e)}
               relations == {r \in graph.relations :
                                /\ \A e \in r.ends : graph_entity_current(graph, caller, e)
                                /\ AnyCurrent(caller, r.evidence)}
               facts == {f \in graph.facts : AnyCurrent(caller, f.evidence)}
               observations == {o \in graph.observations : o.freshness = "current" /\ o.facts # {}
                                  /\ \E f \in graph.facts : f.id \in o.facts /\ AnyCurrent(caller, f.evidence)}
               E == {<<e, entity_provenance(graph, caller, e)>> : e \in entities}
               R == {<<r.id, active_provenance(caller, r.evidence)>> : r \in relations}
               F == {<<f.id, active_provenance(caller, f.evidence)>> : f \in facts}
               O == {<<o.id, observation_provenance(graph, caller, o)>> : o \in observations}
               exported == [entities |-> E, relations |-> R, facts |-> F, observations |-> O]
    <2>1. graph_export(graph, caller) = exported
      BY Zenon DEF graph_export
    <2>2. /\ {i[1] : i \in E} = entities /\ {i[1] : i \in R} = Ids(relations)
          /\ {i[1] : i \in F} = Ids(facts) /\ {i[1] : i \in O} = Ids(observations)
      <3> HIDE DEF entities, relations, facts, observations
      <3>1. {i[1] : i \in E} = entities
        <4>1. ASSUME NEW i \in E PROVE i[1] \in entities
          <5>1. PICK e \in entities : i = <<e, entity_provenance(graph, caller, e)>>
            OBVIOUS
          <5> QED
            BY <5>1
        <4>2. ASSUME NEW e \in entities PROVE \E i \in E : i[1] = e
          <5>1. <<e, entity_provenance(graph, caller, e)>> \in E /\ <<e, entity_provenance(graph, caller, e)>>[1] = e
            OBVIOUS
          <5> HIDE DEF E
          <5> QED
            BY <5>1
        <4> HIDE DEF E
        <4> QED
          BY <4>1, <4>2
      <3>2. {i[1] : i \in R} = Ids(relations)
        <4>1. ASSUME NEW i \in R PROVE i[1] \in Ids(relations)
          <5>1. PICK r \in relations : i = <<r.id, active_provenance(caller, r.evidence)>>
            OBVIOUS
          <5> QED
            BY <5>1 DEF Ids
        <4>2. ASSUME NEW r \in relations PROVE \E i \in R : i[1] = r.id
          <5>1. <<r.id, active_provenance(caller, r.evidence)>> \in R /\ <<r.id, active_provenance(caller, r.evidence)>>[1] = r.id
            OBVIOUS
          <5> HIDE DEF R
          <5> QED
            BY <5>1
        <4> HIDE DEF R
        <4> QED
          BY <4>1, <4>2 DEF Ids
      <3>3. {i[1] : i \in F} = Ids(facts)
        <4>1. ASSUME NEW i \in F PROVE i[1] \in Ids(facts)
          <5>1. PICK f \in facts : i = <<f.id, active_provenance(caller, f.evidence)>>
            OBVIOUS
          <5> QED
            BY <5>1 DEF Ids
        <4>2. ASSUME NEW f \in facts PROVE \E i \in F : i[1] = f.id
          <5>1. <<f.id, active_provenance(caller, f.evidence)>> \in F /\ <<f.id, active_provenance(caller, f.evidence)>>[1] = f.id
            OBVIOUS
          <5> HIDE DEF F
          <5> QED
            BY <5>1
        <4> HIDE DEF F
        <4> QED
          BY <4>1, <4>2 DEF Ids
      <3>4. {i[1] : i \in O} = Ids(observations)
        <4>1. ASSUME NEW i \in O PROVE i[1] \in Ids(observations)
          <5>1. PICK o \in observations : i = <<o.id, observation_provenance(graph, caller, o)>>
            OBVIOUS
          <5> QED
            BY <5>1 DEF Ids
        <4>2. ASSUME NEW o \in observations PROVE \E i \in O : i[1] = o.id
          <5>1. <<o.id, observation_provenance(graph, caller, o)>> \in O /\ <<o.id, observation_provenance(graph, caller, o)>>[1] = o.id
            OBVIOUS
          <5> HIDE DEF O
          <5> QED
            BY <5>1
        <4> HIDE DEF O
        <4> QED
          BY <4>1, <4>2 DEF Ids
      <3> HIDE DEF E, R, F, O
      <3> QED
        BY <3>1, <3>2, <3>3, <3>4
    <2>3. entities = EligibleEntities(graph, caller)
      BY EligibleIsCurrent
    <2>4. relations = EligibleRelations(graph, caller)
      BY EligibleIsCurrent DEF EligibleRelations
    <2>5. facts = EligibleFacts(graph, caller)
      BY DEF EligibleFacts
    <2>6. observations = EligibleObservations(graph, caller)
      BY DEF EligibleObservations, EligibleFacts, Ids
    <2>7. graph_status(graph, caller)
            = [entities |-> entities, relations |-> Ids(relations), facts |-> Ids(facts),
               observations |-> Ids(observations)]
      <3>1. entities = {m.entity : m \in {m \in graph.mentions : graph_evidence_current(caller, m.evidence)}}
        BY EligibleIsCurrent
      <3> HIDE DEF entities
      <3> QED
        BY <3>1, Zenon DEF graph_status
    <2>8. /\ \A i \in E : i[2] # {}
          /\ \A i \in R : i[2] # {}
          /\ \A i \in F : i[2] # {}
          /\ \A i \in O : i[2] # {}
      <3>1. \A e \in entities : entity_provenance(graph, caller, e) # {}
        BY CurrentIsProven
      <3>2. \A r \in relations \cup facts : active_provenance(caller, r.evidence) # {}
        BY CurrentIsProven
      <3>3. \A o \in observations : observation_provenance(graph, caller, o) # {}
        BY CurrentIsProven
      <3> HIDE DEF entities, relations, facts, observations
      <3>4. (\A i \in E : i[2] # {}) /\ (\A i \in O : i[2] # {})
        BY <3>1, <3>3
      <3>5. (\A i \in R : i[2] # {}) /\ (\A i \in F : i[2] # {})
        BY <3>2
      <3> HIDE DEF E, R, F, O
      <3> QED
        BY <3>4, <3>5
    <2> HIDE DEF E, R, F, O, entities, relations, facts, observations
    <2>9. DOMAIN exported = {"entities", "relations", "facts", "observations"}
          /\ exported["entities"] = E /\ exported["relations"] = R
          /\ exported["facts"] = F /\ exported["observations"] = O
      OBVIOUS
    <2>10. [part \in DOMAIN exported |-> {i[1] : i \in exported[part]}]
             = [entities |-> entities, relations |-> Ids(relations), facts |-> Ids(facts),
                observations |-> Ids(observations)]
      <3> DEFINE firsts == [part \in DOMAIN exported |-> {i[1] : i \in exported[part]}]
      <3> HIDE DEF exported
      <3>1. DOMAIN firsts = {"entities", "relations", "facts", "observations"}
            /\ firsts = [part \in DOMAIN firsts |-> firsts[part]]
        BY <2>9
      <3>2. /\ firsts["entities"] = entities /\ firsts["relations"] = Ids(relations)
            /\ firsts["facts"] = Ids(facts) /\ firsts["observations"] = Ids(observations)
        BY <2>2, <2>9
      <3> HIDE DEF firsts
      <3>3. firsts = [entities |-> entities, relations |-> Ids(relations), facts |-> Ids(facts),
                      observations |-> Ids(observations)]
        BY <3>1, <3>2
      <3> QED
        BY <3>3 DEF firsts
    <2>11. \A part \in DOMAIN exported : \A i \in exported[part] : i[2] # {}
      BY <2>8, <2>9
    <2> HIDE DEF exported
    <2> QED
      BY <2>1, <2>3, <2>4, <2>5, <2>6, <2>7, <2>10, <2>11
  <1> QED
    BY <1>1, GraphFollows, PTL

-----------------------------------------------------------------------------
(***************************************************************************)
(* A search sees the same in the graph and in what of it is visible.       *)
(***************************************************************************)
CurrentTo(caller, evidence) == {e \in evidence : graph_evidence_current(caller, e)}
Cut(caller, r) == [r EXCEPT !.evidence = CurrentTo(caller, @)]

\* What is cut is as current as before, and proved by the same memories.
LEMMA CurrentToIsCurrent ==
    ASSUME NEW caller, NEW evidence
    PROVE  /\ AnyCurrent(caller, CurrentTo(caller, evidence)) <=> AnyCurrent(caller, evidence)
           /\ AnyCurrent(caller, evidence) <=> CurrentTo(caller, evidence) # {}
           /\ active_provenance(caller, CurrentTo(caller, evidence))
                = active_provenance(caller, evidence)
  BY DEF AnyCurrent, CurrentTo, active_provenance

LEMMA CutKeeps ==
    ASSUME NEW caller, NEW r \in RelationType \cup FactType
    PROVE  /\ Cut(caller, r).id = r.id
           /\ Cut(caller, r).evidence = CurrentTo(caller, r.evidence)
           /\ r \in RelationType => Cut(caller, r).ends = r.ends
  BY DEF Cut, RelationType, FactType

\* What is visible, part by part.
LEMMA VisibleParts ==
    ASSUME EvidenceInv, NEW caller \in Callers
    PROVE  LET v == VisibleTo(graph, caller) IN
           /\ v.mentions = {m \in graph.mentions : graph_evidence_current(caller, m.evidence)}
           /\ v.aliases = {a \in graph.aliases : graph_evidence_current(caller, a.evidence)}
           /\ v.relations = {Cut(caller, r) : r \in EligibleRelations(graph, caller)}
           /\ v.facts = {Cut(caller, f) : f \in EligibleFacts(graph, caller)}
           /\ v.observations = graph.observations
  <1> DEFINE v == VisibleTo(graph, caller)
             mentions == {m \in graph.mentions : graph_evidence_current(caller, m.evidence)}
             aliases == {a \in graph.aliases : graph_evidence_current(caller, a.evidence)}
             some == {r \in graph.relations : CurrentTo(caller, r.evidence) # {}
                                              /\ r.ends \subseteq {m.entity : m \in mentions}}
             facts == {f \in graph.facts : CurrentTo(caller, f.evidence) # {}}
  <1>1. graph \in GraphType
    BY DEF EvidenceInv, GraphInv
  <1>2. v = [graph EXCEPT !.mentions = mentions,
                          !.aliases = aliases,
                          !.entities = {m.entity : m \in mentions},
                          !.relations = {Cut(caller, r) : r \in some},
                          !.facts = {Cut(caller, f) : f \in facts}]
    BY DEF VisibleTo, CurrentTo, Cut
  <1>3. some = EligibleRelations(graph, caller)
    <2>1. {m.entity : m \in mentions} = EligibleEntities(graph, caller)
      BY EligibleIsCurrent
    <2> QED
      BY <2>1, CurrentToIsCurrent DEF EligibleRelations
  <1>4. facts = EligibleFacts(graph, caller)
    BY CurrentToIsCurrent DEF EligibleFacts
  <1> HIDE DEF mentions, aliases, some, facts, v
  <1>5. /\ v.mentions = mentions /\ v.aliases = aliases
        /\ v.relations = {Cut(caller, r) : r \in some}
        /\ v.facts = {Cut(caller, f) : f \in facts} /\ v.observations = graph.observations
    BY <1>1, <1>2 DEF GraphType
  <1> QED
    BY <1>3, <1>4, <1>5 DEF mentions, aliases, v

\* The entities that are eligible, and what makes each of them current.
LEMMA SameEntities ==
    ASSUME EvidenceInv, NEW caller \in Callers
    PROVE  LET v == VisibleTo(graph, caller) IN
           /\ EligibleEntities(v, caller) = EligibleEntities(graph, caller)
           /\ \A e : /\ graph_entity_current(v, caller, e) <=> graph_entity_current(graph, caller, e)
                     /\ entity_provenance(v, caller, e) = entity_provenance(graph, caller, e)
  <1> DEFINE v == VisibleTo(graph, caller)
  <1>1. v.mentions = {m \in graph.mentions : graph_evidence_current(caller, m.evidence)}
    BY VisibleParts
  <1> HIDE DEF v
  <1>2. EligibleEntities(v, caller) = EligibleEntities(graph, caller)
    BY <1>1 DEF EligibleEntities
  <1>3. \A e : graph_entity_current(v, caller, e) <=> graph_entity_current(graph, caller, e)
    BY <1>1 DEF graph_entity_current
  <1>4. ASSUME NEW e
        PROVE  entity_provenance(v, caller, e) = entity_provenance(graph, caller, e)
    <2>1. {m.evidence : m \in {m \in v.mentions : m.entity = e}}
            = CurrentTo(caller, {m.evidence : m \in {m \in graph.mentions : m.entity = e}})
      BY <1>1 DEF CurrentTo
    <2> QED
      BY <2>1, CurrentToIsCurrent DEF entity_provenance
  <1> QED
    BY <1>2, <1>3, <1>4 DEF v

\* The relations that are eligible are the same, cut.
LEMMA SameRelations ==
    ASSUME EvidenceInv, NEW caller \in Callers
    PROVE  EligibleRelations(VisibleTo(graph, caller), caller)
             = {Cut(caller, r) : r \in EligibleRelations(graph, caller)}
  <1> DEFINE v == VisibleTo(graph, caller)
  <1>1. v.relations = {Cut(caller, r) : r \in EligibleRelations(graph, caller)}
    BY VisibleParts
  <1>2. EligibleEntities(v, caller) = EligibleEntities(graph, caller)
    BY SameEntities
  <1> HIDE DEF v
  <1>3. graph.relations \subseteq RelationType
    BY DEF EvidenceInv, GraphInv, GraphType
  <1>4. \A r \in EligibleRelations(graph, caller) :
           /\ Cut(caller, r).ends \subseteq EligibleEntities(graph, caller)
           /\ AnyCurrent(caller, Cut(caller, r).evidence)
    BY <1>3, CutKeeps, CurrentToIsCurrent DEF EligibleRelations
  <1>5. EligibleRelations(v, caller) = v.relations
    BY <1>1, <1>2, <1>4 DEF EligibleRelations
  <1> QED
    BY <1>1, <1>5 DEF v

LEMMA SameFacts ==
    ASSUME EvidenceInv, NEW caller \in Callers
    PROVE  LET v == VisibleTo(graph, caller) IN
           /\ EligibleFacts(v, caller) = {Cut(caller, f) : f \in EligibleFacts(graph, caller)}
           /\ EligibleObservations(v, caller) = EligibleObservations(graph, caller)
           /\ \A o : observation_provenance(v, caller, o) = observation_provenance(graph, caller, o)
  <1> DEFINE v == VisibleTo(graph, caller)
  <1>1. v.facts = {Cut(caller, f) : f \in EligibleFacts(graph, caller)}
        /\ v.observations = graph.observations
    BY VisibleParts
  <1> HIDE DEF v
  <1>2. \A f \in graph.facts : /\ Cut(caller, f).id = f.id
                               /\ Cut(caller, f).evidence = CurrentTo(caller, f.evidence)
    BY CutKeeps DEF EvidenceInv, GraphInv, GraphType
  <1>3. EligibleFacts(v, caller) = {Cut(caller, f) : f \in EligibleFacts(graph, caller)}
    BY <1>1, <1>2, CurrentToIsCurrent DEF EligibleFacts
  <1>4. Ids(EligibleFacts(v, caller)) = Ids(EligibleFacts(graph, caller))
    <2>1. \A f \in EligibleFacts(graph, caller) : f \in graph.facts
      BY DEF EligibleFacts
    <2> QED
      BY <1>2, <1>3, <2>1 DEF Ids
  <1>5. EligibleObservations(v, caller) = EligibleObservations(graph, caller)
    BY <1>1, <1>4 DEF EligibleObservations
  <1>6. ASSUME NEW o
        PROVE  observation_provenance(v, caller, o) = observation_provenance(graph, caller, o)
    <2> DEFINE seen == Proof({f \in v.facts : f.id \in o.facts})
               all == Proof({f \in graph.facts : f.id \in o.facts})
    <2>1. seen \subseteq CurrentTo(caller, all)
      BY <1>1, <1>2 DEF Proof, CurrentTo, EligibleFacts
    <2>2. CurrentTo(caller, all) \subseteq seen
      <3> SUFFICES ASSUME NEW f \in graph.facts, f.id \in o.facts,
                          NEW e \in f.evidence, graph_evidence_current(caller, e)
                   PROVE  e \in seen
        BY DEF Proof, CurrentTo
      <3>1. f \in EligibleFacts(graph, caller)
        BY DEF EligibleFacts, AnyCurrent
      <3>2. Cut(caller, f) \in v.facts /\ Cut(caller, f).id \in o.facts
            /\ e \in Cut(caller, f).evidence
        BY <1>1, <1>2, <3>1 DEF CurrentTo
      <3> QED
        BY <3>2 DEF Proof
    <2>3. seen = CurrentTo(caller, all)
      BY <2>1, <2>2
    <2> QED
      BY <2>3, CurrentToIsCurrent DEF observation_provenance
  <1> QED
    BY <1>3, <1>5, <1>6 DEF v

\* The relations a search of a caller follows from an entity.
Followed(g, caller, e) == fanout(g, EligibleRelations(g, caller), e)

\* The relations a search follows from an entity are the same, cut: as many are
\* before each of them.
LEMMA SameFanout ==
    ASSUME EvidenceInv, NEW caller \in Callers, NEW e
    PROVE  Followed(VisibleTo(graph, caller), caller, e)
             = {Cut(caller, r) : r \in Followed(graph, caller, e)}
  <1> DEFINE v == VisibleTo(graph, caller)
             all == {r \in EligibleRelations(graph, caller) : e \in r.ends}
             seen == {r \in EligibleRelations(v, caller) : e \in r.ends}
             key(r) == <<r.id[2], r.id[3]>>
             below(r) == {q \in all : Before(key(q), key(r))}
             belowSeen(r) == {q \in seen : Before(key(q), key(r))}
  <1>1. EligibleRelations(v, caller) = {Cut(caller, r) : r \in EligibleRelations(graph, caller)}
    BY SameRelations
  <1>2. Indexed(graph.relations) /\ graph.relations \subseteq RelationType
    BY DEF EvidenceInv, GraphInv, GraphType, RelationsInv
  <1>3. \A r \in EligibleRelations(graph, caller) :
           r \in graph.relations /\ Cut(caller, r).id = r.id /\ Cut(caller, r).ends = r.ends
    BY <1>2, CutKeeps DEF EligibleRelations
  <1> HIDE DEF v
  <1>4. seen = {Cut(caller, r) : r \in all}
    BY <1>1, <1>3
  <1>5. \A r \in all : r \in graph.relations /\ Cut(caller, r).id = r.id
    BY <1>3
  <1> HIDE DEF all, seen
  <1>6. ASSUME NEW r \in all
        PROVE  Cardinality(belowSeen(Cut(caller, r))) = Cardinality(below(r))
    <2> DEFINE h == [q \in below(r) |-> Cut(caller, q)]
    <2>1. belowSeen(Cut(caller, r)) = {Cut(caller, q) : q \in below(r)}
      BY <1>4, <1>5
    <2>2. h \in Surjection(below(r), belowSeen(Cut(caller, r)))
      BY <2>1 DEF Surjection
    <2>3. h \in Injection(below(r), belowSeen(Cut(caller, r)))
      <3>1. \A p, q \in below(r) : h[p] = h[q] => p = q
        BY <1>2, <1>5 DEF Indexed
      <3> HIDE DEF h, below, belowSeen
      <3> QED
        BY <2>2, <3>1 DEF Surjection, Injection, IsInjective
    <2>4. IsFiniteSet(below(r))
      <3>1. below(r) \in SUBSET graph.relations
        BY <1>5
      <3> QED
        BY <1>2, <3>1, FS_Subset DEF Indexed
    <2> HIDE DEF h, below, belowSeen
    <2>5. ExistsBijection(below(r), belowSeen(Cut(caller, r)))
      BY <2>2, <2>3 DEF Bijection, ExistsBijection
    <2> QED
      BY <2>4, <2>5, FS_Bijection
  <1>7. /\ all = {r \in graph.relations : r \in EligibleRelations(graph, caller) /\ e \in r.ends}
         /\ seen = {r \in v.relations : r \in EligibleRelations(v, caller) /\ e \in r.ends}
    BY DEF EligibleRelations, all, seen
  <1>8. Followed(graph, caller, e) = {r \in all : Cardinality(below(r)) < MaxFanout}
    BY <1>7 DEF Followed, fanout, TheFirst
  <1>9. Followed(v, caller, e) = {r \in seen : Cardinality(belowSeen(r)) < MaxFanout}
    BY <1>7 DEF Followed, fanout, TheFirst
  <1> HIDE DEF below, belowSeen
  <1>10. Followed(v, caller, e) = {Cut(caller, r) : r \in Followed(graph, caller, e)}
    BY <1>4, <1>6, <1>8, <1>9
  <1> QED
    BY <1>10 DEF v

\* One more step of the search, and where it starts.
Further(g, caller, reached) ==
    reached \cup UNION {UNION {r.ends : r \in Followed(g, caller, e)} : e \in reached}

LEMMA SameFurther ==
    ASSUME EvidenceInv, NEW caller \in Callers, NEW reached
    PROVE  Further(VisibleTo(graph, caller), caller, reached) = Further(graph, caller, reached)
  <1> DEFINE v == VisibleTo(graph, caller)
  <1>1. \A e : Followed(v, caller, e) = {Cut(caller, r) : r \in Followed(graph, caller, e)}
    BY SameFanout
  <1>2. \A e : \A r \in Followed(graph, caller, e) : Cut(caller, r).ends = r.ends
    BY CutKeeps DEF Followed, fanout, TheFirst, EligibleRelations, EvidenceInv, GraphInv, GraphType
  <1> HIDE DEF v
  <1>3. \A e : UNION {r.ends : r \in Followed(v, caller, e)} = UNION {r.ends : r \in Followed(graph, caller, e)}
    BY <1>1, <1>2
  <1>4. Further(v, caller, reached) = Further(graph, caller, reached)
    BY <1>3 DEF Further
  <1> QED
    BY <1>4 DEF v

\* A search starts at the same entities when it matches no hidden words.
LEMMA SameStart ==
    ASSUME EvidenceInv, NEW caller \in Callers, NEW query, ~MatchesHidden(caller, query)
    PROVE  entity_scores(VisibleTo(graph, caller), caller, query)
             = entity_scores(graph, caller, query)
  <1> DEFINE v == VisibleTo(graph, caller)
             found(r) == r.id \in query.relations \/ \E e \in r.evidence : <<r.id, e>> \in query.quotes
  <1>1. EligibleRelations(v, caller) = {Cut(caller, r) : r \in EligibleRelations(graph, caller)}
    BY SameRelations
  <1>2. \A r \in EligibleRelations(graph, caller) :
           /\ Cut(caller, r).id = r.id /\ Cut(caller, r).ends = r.ends
           /\ Cut(caller, r).evidence = CurrentTo(caller, r.evidence) /\ r \in graph.relations
    BY CutKeeps DEF EligibleRelations, EvidenceInv, GraphInv, GraphType
  <1>3. EligibleEntities(v, caller) = EligibleEntities(graph, caller)
    BY SameEntities
  <1>4. v.aliases \cap query.aliases = graph.aliases \cap query.aliases
    BY VisibleParts DEF MatchesHidden
  <1> HIDE DEF v
  <1>5. \A r \in EligibleRelations(graph, caller) : found(Cut(caller, r)) <=> found(r)
    BY <1>2 DEF MatchesHidden, CurrentTo
  <1> HIDE DEF found
  <1>6. UNION {r.ends : r \in {r \in EligibleRelations(v, caller) : found(r)}}
          = UNION {r.ends : r \in {r \in EligibleRelations(graph, caller) : found(r)}}
    BY <1>1, <1>2, <1>5
  <1>7. entity_scores(v, caller, query) = entity_scores(graph, caller, query)
    BY <1>3, <1>4, <1>6 DEF entity_scores, found
  <1> QED
    BY <1>7 DEF v

\* A query is one of the records that entity_scores reads.
QueryType == [entities : SUBSET Entities, aliases : SUBSET [entity : Entities, evidence : Evidence],
              relations : SUBSET RelationId, quotes : SUBSET (RelationId \X Evidence),
              facts : SUBSET FactId, observations : SUBSET (Scopes \X Statements)]

\* The query that names the entities at which another starts.
NamedBy(caller, query) ==
    [query EXCEPT !.entities = entity_scores(graph, caller, query),
                  !.aliases = {}, !.relations = {}, !.quotes = {}]

\* It starts there, too, in what is visible.
LEMMA NamedStart ==
    ASSUME EvidenceInv, NEW caller \in Callers, NEW query \in QueryType
    PROVE  /\ entity_scores(VisibleTo(graph, caller), caller, NamedBy(caller, query))
                = entity_scores(graph, caller, query)
           /\ NamedBy(caller, query).facts = query.facts
           /\ NamedBy(caller, query).observations = query.observations
  <1> DEFINE v == VisibleTo(graph, caller)
             named == NamedBy(caller, query)
             start == entity_scores(graph, caller, query)
  <1>1. /\ named.entities = start /\ named.aliases = {} /\ named.relations = {}
        /\ named.quotes = {} /\ named.facts = query.facts
        /\ named.observations = query.observations
    <2> HIDE DEF start
    <2> QED
      BY DEF NamedBy, QueryType, start
  <1>2. EligibleEntities(v, caller) = EligibleEntities(graph, caller)
    BY SameEntities
  <1>3. start \subseteq EligibleEntities(graph, caller)
    BY DEF entity_scores
  <1> HIDE DEF v, named, start
  <1>4. entity_scores(v, caller, named) = EligibleEntities(v, caller) \cap start
    BY <1>1 DEF entity_scores
  <1> QED
    BY <1>1, <1>2, <1>3, <1>4 DEF v, named, start

\* A query of what is visible that is answered as another of the whole.
Alike(caller, query, asked) ==
    /\ entity_scores(VisibleTo(graph, caller), caller, asked) = entity_scores(graph, caller, query)
    /\ asked.facts = query.facts /\ asked.observations = query.observations

\* How far a search comes.
Search(g, caller, query) ==
    CHOOSE reached :
        reached = [d \in 0 .. MaxDepth |-> IF d = 0 THEN entity_scores(g, caller, query)
                                           ELSE Further(g, caller, reached[d - 1])]

LEMMA SameSearch ==
    ASSUME EvidenceInv, NEW caller \in Callers, NEW query, NEW asked, Alike(caller, query, asked)
    PROVE  Search(VisibleTo(graph, caller), caller, asked) = Search(graph, caller, query)
  <1> DEFINE v == VisibleTo(graph, caller)
             Of(g, from, reached) ==
                [d \in 0 .. MaxDepth |-> IF d = 0 THEN entity_scores(g, caller, from)
                                         ELSE Further(g, caller, reached[d - 1])]
  <1>1. entity_scores(v, caller, asked) = entity_scores(graph, caller, query)
    BY DEF Alike
  <1>2. \A reached : Further(v, caller, reached) = Further(graph, caller, reached)
    BY SameFurther
  <1> HIDE DEF v
  <1>3. \A reached : Of(v, asked, reached) = Of(graph, query, reached)
    BY <1>1, <1>2
  <1>4. /\ Search(v, caller, asked) = CHOOSE reached : reached = Of(v, asked, reached)
        /\ Search(graph, caller, query) = CHOOSE reached : reached = Of(graph, query, reached)
    BY DEF Search
  <1> HIDE DEF Of
  <1>5. Search(v, caller, asked) = Search(graph, caller, query)
    BY <1>3, <1>4
  <1> QED
    BY <1>5 DEF v

LEMMA SearchLearning ==
    ASSUME NEW g, NEW caller, NEW query
    PROVE  search_learning(g, caller, query)
             = [entities |-> Search(g, caller, query)[MaxDepth],
                relations |-> UNION {Followed(g, caller, e) : e \in Search(g, caller, query)[MaxDepth]},
                facts |-> {f \in EligibleFacts(g, caller) : f.id \in query.facts},
                observations |-> {o \in EligibleObservations(g, caller) : o.id \in query.observations}]
  BY Zenon DEF search_learning, Search, Further, Followed

\* What is found, in the graph and in what of it is visible.
LEMMA SameFound ==
    ASSUME EvidenceInv, NEW caller \in Callers, NEW query, NEW asked, Alike(caller, query, asked)
    PROVE  LET found == search_learning(graph, caller, query)
               seen == search_learning(VisibleTo(graph, caller), caller, asked) IN
           /\ seen.entities = found.entities
           /\ seen.relations = {Cut(caller, r) : r \in found.relations}
           /\ seen.facts = {Cut(caller, f) : f \in found.facts}
           /\ seen.observations = found.observations
           /\ found.relations \subseteq graph.relations
           /\ found.facts \subseteq graph.facts
  <1> DEFINE v == VisibleTo(graph, caller)
             reached == Search(graph, caller, query)[MaxDepth]
             found == search_learning(graph, caller, query)
             seen == search_learning(v, caller, asked)
  <1>1. /\ found.entities = reached
        /\ found.relations = UNION {Followed(graph, caller, e) : e \in reached}
        /\ found.facts = {f \in EligibleFacts(graph, caller) : f.id \in query.facts}
        /\ found.observations = {o \in EligibleObservations(graph, caller) : o.id \in query.observations}
    BY SearchLearning
  <1>2. /\ Search(v, caller, asked) = Search(graph, caller, query)
        /\ asked.facts = query.facts /\ asked.observations = query.observations
    BY SameSearch DEF Alike
  <1>3. /\ seen.entities = reached
        /\ seen.relations = UNION {Followed(v, caller, e) : e \in reached}
        /\ seen.facts = {f \in EligibleFacts(v, caller) : f.id \in query.facts}
        /\ seen.observations = {o \in EligibleObservations(v, caller) : o.id \in query.observations}
    <2> HIDE DEF v
    <2> QED
      BY <1>2, SearchLearning
  <1>4. \A e : Followed(v, caller, e) = {Cut(caller, r) : r \in Followed(graph, caller, e)}
    BY SameFanout
  <1>5. /\ EligibleFacts(v, caller) = {Cut(caller, f) : f \in EligibleFacts(graph, caller)}
        /\ EligibleObservations(v, caller) = EligibleObservations(graph, caller)
    BY SameFacts
  <1>6. found.relations \subseteq graph.relations /\ found.facts \subseteq graph.facts
    <2> HIDE DEF reached, found
    <2> QED
      BY <1>1 DEF Followed, fanout, TheFirst, EligibleRelations, EligibleFacts
  <1>7. \A f \in EligibleFacts(graph, caller) : Cut(caller, f).id = f.id
    BY CutKeeps DEF EligibleFacts, EvidenceInv, GraphInv, GraphType
  <1> HIDE DEF v, reached, found, seen
  <1>8. seen.relations = {Cut(caller, r) : r \in found.relations}
    BY <1>1, <1>3, <1>4
  <1>9. seen.facts = {Cut(caller, f) : f \in found.facts}
    BY <1>1, <1>3, <1>5, <1>7
  <1> QED
    BY <1>1, <1>3, <1>5, <1>6, <1>8, <1>9 DEF v, found, seen

\* The answer of a search, with the readings of its items written out.
EntitiesFound(g, caller, found) ==
    {<<e, entity_provenance(g, caller, e)>> :
        e \in {e \in found.entities : entity_provenance(g, caller, e) # {}}}
RelationsFound(g, caller, found) ==
    {<<r, active_provenance(caller, r.evidence)>> :
        r \in {r \in {r \in found.relations : \A e \in r.ends : graph_entity_current(g, caller, e)} :
                 active_provenance(caller, r.evidence) # {}}}
FactsFound(caller, found) ==
    {<<f, active_provenance(caller, f.evidence)>> :
        f \in {f \in found.facts : active_provenance(caller, f.evidence) # {}}}
ObservationsFound(g, caller, found) ==
    {<<o, observation_provenance(g, caller, o)>> :
        o \in {o \in found.observations : observation_provenance(g, caller, o) # {}}}
Identified(items) == {<<p[1].id, p[2]>> : p \in items}
Raised(items) == {Min(p[2]) : p \in items}

LEMMA GraphSearch ==
    ASSUME NEW g, NEW caller, NEW query
    PROVE  LET found == search_learning(g, caller, query) IN
           graph_search(g, caller, query)
             = [entities |-> EntitiesFound(g, caller, found),
                relations |-> Identified(RelationsFound(g, caller, found)),
                facts |-> Identified(FactsFound(caller, found)),
                observations |-> Identified(ObservationsFound(g, caller, found)),
                memories |-> Raised(EntitiesFound(g, caller, found))
                             \cup Raised(FactsFound(caller, found))
                             \cup Raised(ObservationsFound(g, caller, found))]
  BY Zenon DEF graph_search, Proven, EntitiesFound, RelationsFound, FactsFound, ObservationsFound,
               Identified, Raised

\* Items that are cut answer as they would whole.
LEMMA SameAnswers ==
    ASSUME NEW caller, NEW items, NEW cut,
           \A p \in items : \E q \in cut : q[1].id = p[1].id /\ q[2] = p[2],
           \A q \in cut : \E p \in items : q[1].id = p[1].id /\ q[2] = p[2]
    PROVE  Identified(cut) = Identified(items) /\ Raised(cut) = Raised(items)
  <1>1. Identified(cut) = Identified(items)
    BY DEF Identified
  <1>2. Raised(cut) \subseteq Raised(items) /\ Raised(items) \subseteq Raised(cut)
    BY DEF Raised
  <1> QED
    BY <1>1, <1>2

LEMMA SearchSame ==
    ASSUME EvidenceInv, NEW caller \in Callers, NEW query, NEW asked, Alike(caller, query, asked)
    PROVE  graph_search(graph, caller, query)
             = graph_search(VisibleTo(graph, caller), caller, asked)
  <1> DEFINE v == VisibleTo(graph, caller)
             found == search_learning(graph, caller, query)
             seen == search_learning(v, caller, asked)
  <1>1. /\ seen.entities = found.entities
        /\ seen.relations = {Cut(caller, r) : r \in found.relations}
        /\ seen.facts = {Cut(caller, f) : f \in found.facts}
        /\ seen.observations = found.observations
        /\ found.relations \subseteq graph.relations
        /\ found.facts \subseteq graph.facts
    BY SameFound
  <1>2. \A e : /\ graph_entity_current(v, caller, e) <=> graph_entity_current(graph, caller, e)
               /\ entity_provenance(v, caller, e) = entity_provenance(graph, caller, e)
    BY SameEntities
  <1>3. \A o : observation_provenance(v, caller, o) = observation_provenance(graph, caller, o)
    BY SameFacts
  <1>4. \A r \in found.relations \cup found.facts :
           /\ Cut(caller, r).id = r.id
           /\ active_provenance(caller, Cut(caller, r).evidence) = active_provenance(caller, r.evidence)
    <2> TAKE r \in found.relations \cup found.facts
    <2>1. r \in RelationType \cup FactType
      BY <1>1 DEF EvidenceInv, GraphInv, GraphType
    <2> QED
      BY <2>1, CutKeeps, CurrentToIsCurrent
  <1>5. \A r \in found.relations : Cut(caller, r).ends = r.ends
    BY <1>1, CutKeeps DEF EvidenceInv, GraphInv, GraphType
  <1> HIDE DEF found, seen
  <1>6. EntitiesFound(v, caller, seen) = EntitiesFound(graph, caller, found)
    <2> HIDE DEF v
    <2> QED
      BY <1>1, <1>2 DEF EntitiesFound
  <1>7. ObservationsFound(v, caller, seen) = ObservationsFound(graph, caller, found)
    <2> HIDE DEF v
    <2> QED
      BY <1>1, <1>3 DEF ObservationsFound
  <1>8. Identified(RelationsFound(v, caller, seen)) = Identified(RelationsFound(graph, caller, found))
    <2> HIDE DEF v
    <2> DEFINE ofSeen == RelationsFound(v, caller, seen)
               ofFound == RelationsFound(graph, caller, found)
    <2>1. ASSUME NEW p \in ofFound
          PROVE  \E q \in ofSeen : q[1].id = p[1].id /\ q[2] = p[2]
      <3>1. PICK r \in found.relations :
               /\ p = <<r, active_provenance(caller, r.evidence)>>
               /\ active_provenance(caller, r.evidence) # {}
               /\ \A e \in r.ends : graph_entity_current(graph, caller, e)
        BY DEF RelationsFound
      <3> DEFINE s == Cut(caller, r)
                 q == <<s, active_provenance(caller, s.evidence)>>
      <3>2. s \in seen.relations /\ s.id = r.id /\ s.ends = r.ends
            /\ active_provenance(caller, s.evidence) = active_provenance(caller, r.evidence)
        BY <1>1, <1>4, <1>5
      <3> HIDE DEF s
      <3>3. q \in ofSeen
        BY <1>2, <3>1, <3>2 DEF RelationsFound
      <3>4. q[1].id = p[1].id /\ q[2] = p[2]
        BY <3>1, <3>2
      <3> QED
        BY <3>3, <3>4
    <2>2. ASSUME NEW q \in ofSeen
          PROVE  \E p \in ofFound : q[1].id = p[1].id /\ q[2] = p[2]
      <3>1. PICK s \in seen.relations :
               /\ q = <<s, active_provenance(caller, s.evidence)>>
               /\ active_provenance(caller, s.evidence) # {}
               /\ \A e \in s.ends : graph_entity_current(v, caller, e)
        BY DEF RelationsFound
      <3>2. PICK r \in found.relations : s = Cut(caller, r)
        BY <1>1
      <3> DEFINE p == <<r, active_provenance(caller, r.evidence)>>
      <3>3. s.id = r.id /\ s.ends = r.ends
            /\ active_provenance(caller, s.evidence) = active_provenance(caller, r.evidence)
        BY <1>4, <1>5, <3>2
      <3>4. p \in ofFound
        BY <1>2, <3>1, <3>3 DEF RelationsFound
      <3>5. q[1].id = p[1].id /\ q[2] = p[2]
        BY <3>1, <3>3
      <3> QED
        BY <3>4, <3>5
    <2> HIDE DEF ofSeen, ofFound
    <2>3. Identified(ofSeen) = Identified(ofFound)
      BY <2>1, <2>2, SameAnswers
    <2> QED
      BY <2>3 DEF ofSeen, ofFound
  <1>9. /\ Identified(FactsFound(caller, seen)) = Identified(FactsFound(caller, found))
        /\ Raised(FactsFound(caller, seen)) = Raised(FactsFound(caller, found))
    <2> DEFINE ofSeen == FactsFound(caller, seen)
               ofFound == FactsFound(caller, found)
    <2>1. ASSUME NEW p \in ofFound
          PROVE  \E q \in ofSeen : q[1].id = p[1].id /\ q[2] = p[2]
      <3>1. PICK f \in found.facts :
               /\ p = <<f, active_provenance(caller, f.evidence)>>
               /\ active_provenance(caller, f.evidence) # {}
        BY DEF FactsFound
      <3> DEFINE s == Cut(caller, f)
                 q == <<s, active_provenance(caller, s.evidence)>>
      <3>2. s \in seen.facts /\ s.id = f.id
            /\ active_provenance(caller, s.evidence) = active_provenance(caller, f.evidence)
        BY <1>1, <1>4
      <3> HIDE DEF s
      <3>3. q \in ofSeen
        BY <3>1, <3>2 DEF FactsFound
      <3>4. q[1].id = p[1].id /\ q[2] = p[2]
        BY <3>1, <3>2
      <3> QED
        BY <3>3, <3>4
    <2>2. ASSUME NEW q \in ofSeen
          PROVE  \E p \in ofFound : q[1].id = p[1].id /\ q[2] = p[2]
      <3>1. PICK s \in seen.facts :
               /\ q = <<s, active_provenance(caller, s.evidence)>>
               /\ active_provenance(caller, s.evidence) # {}
        BY DEF FactsFound
      <3>2. PICK f \in found.facts : s = Cut(caller, f)
        BY <1>1
      <3> DEFINE p == <<f, active_provenance(caller, f.evidence)>>
      <3>3. s.id = f.id
            /\ active_provenance(caller, s.evidence) = active_provenance(caller, f.evidence)
        BY <1>4, <3>2
      <3>4. p \in ofFound
        BY <3>1, <3>3 DEF FactsFound
      <3>5. q[1].id = p[1].id /\ q[2] = p[2]
        BY <3>1, <3>3
      <3> QED
        BY <3>4, <3>5
    <2> HIDE DEF ofSeen, ofFound
    <2>3. Identified(ofSeen) = Identified(ofFound) /\ Raised(ofSeen) = Raised(ofFound)
      BY <2>1, <2>2, SameAnswers
    <2> QED
      BY <2>3 DEF ofSeen, ofFound
  <1> HIDE DEF v
  <1>10. /\ graph_search(graph, caller, query)
              = [entities |-> EntitiesFound(graph, caller, found),
                 relations |-> Identified(RelationsFound(graph, caller, found)),
                 facts |-> Identified(FactsFound(caller, found)),
                 observations |-> Identified(ObservationsFound(graph, caller, found)),
                 memories |-> Raised(EntitiesFound(graph, caller, found))
                              \cup Raised(FactsFound(caller, found))
                              \cup Raised(ObservationsFound(graph, caller, found))]
         /\ graph_search(v, caller, asked)
              = [entities |-> EntitiesFound(v, caller, seen),
                 relations |-> Identified(RelationsFound(v, caller, seen)),
                 facts |-> Identified(FactsFound(caller, seen)),
                 observations |-> Identified(ObservationsFound(v, caller, seen)),
                 memories |-> Raised(EntitiesFound(v, caller, seen))
                              \cup Raised(FactsFound(caller, seen))
                              \cup Raised(ObservationsFound(v, caller, seen))]
    BY GraphSearch DEF found, seen
  <1>11. graph_search(graph, caller, query) = graph_search(v, caller, asked)
    BY <1>6, <1>7, <1>8, <1>9, <1>10
  <1> QED
    BY <1>11 DEF v

\* The queries are such records.
LEMMA QueriesTyped ==
    ASSUME EvidenceInv
    PROVE  Queries \subseteq QueryType
  <1> DEFINE nothing == [entities |-> {}, aliases |-> {}, relations |-> {}, quotes |-> {},
                         facts |-> {}, observations |-> {}]
  <1>1. graph \in GraphType
    BY DEF EvidenceInv, GraphInv
  <1>2. nothing \in QueryType
    BY DEF QueryType
  <1>3. Ids(graph.facts) \in SUBSET FactId
    BY <1>1 DEF GraphType, FactType, Ids
  <1>4. Ids(graph.observations) \in SUBSET (Scopes \X Statements)
    BY <1>1 DEF GraphType, ObservationType, Ids
  <1>5. \A r \in graph.relations : r.id \in RelationId /\ r.evidence \in SUBSET Evidence
    BY <1>1 DEF GraphType, RelationType
  <1>6. graph.entities \subseteq Entities
        /\ graph.aliases \subseteq [entity : Entities, evidence : Evidence]
    BY <1>1 DEF GraphType
  <1>7. Queries = {[nothing EXCEPT !.facts = Ids(graph.facts),
                                   !.observations = Ids(graph.observations)]}
            \cup {[nothing EXCEPT !.entities = {e}] : e \in graph.entities}
            \cup {[nothing EXCEPT !.aliases = {a}] : a \in graph.aliases}
            \cup {[nothing EXCEPT !.relations = {r.id}] : r \in graph.relations}
            \cup UNION {{[nothing EXCEPT !.quotes = {<<r.id, e>>}] : e \in r.evidence} :
                           r \in graph.relations}
    BY DEF Queries
  <1> HIDE DEF nothing
  <1>8. [nothing EXCEPT !.facts = Ids(graph.facts), !.observations = Ids(graph.observations)]
            \in QueryType
    BY <1>2, <1>3, <1>4 DEF QueryType
  <1>9. \A e \in graph.entities : [nothing EXCEPT !.entities = {e}] \in QueryType
    BY <1>2, <1>6 DEF QueryType
  <1>10. \A a \in graph.aliases : [nothing EXCEPT !.aliases = {a}] \in QueryType
    BY <1>2, <1>6 DEF QueryType
  <1>11. \A r \in graph.relations : [nothing EXCEPT !.relations = {r.id}] \in QueryType
    BY <1>2, <1>5 DEF QueryType
  <1>12. \A r \in graph.relations : \A e \in r.evidence :
            [nothing EXCEPT !.quotes = {<<r.id, e>>}] \in QueryType
    BY <1>2, <1>5 DEF QueryType
  <1> QED
    BY <1>7, <1>8, <1>9, <1>10, <1>11, <1>12

\* A caller is answered from what it may see, however deep the search goes: as if
\* it had named the entities at which the search starts, and as if nothing else
\* were in the graph when the query matches no hidden words.
THEOREM SearchesAreIsolated == Spec => []SearchIsolated
  <1>1. EvidenceInv => SearchIsolated
    <2> SUFFICES ASSUME EvidenceInv, NEW caller \in Callers, NEW query \in Queries
                 PROVE  /\ graph_search(graph, caller, query)
                             = graph_search(VisibleTo(graph, caller), caller, NamedBy(caller, query))
                        /\ ~MatchesHidden(caller, query) =>
                              graph_search(graph, caller, query)
                                = graph_search(VisibleTo(graph, caller), caller, query)
      BY DEF SearchIsolated, NamedBy
    <2>1. Alike(caller, query, NamedBy(caller, query))
      BY QueriesTyped, NamedStart DEF Alike
    <2>2. ~MatchesHidden(caller, query) => Alike(caller, query, query)
      BY SameStart DEF Alike
    <2> QED
      BY <2>1, <2>2, SearchSame
  <1> QED
    BY <1>1, GraphFollows, PTL
=============================================================================

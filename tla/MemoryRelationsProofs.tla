------------------------ MODULE MemoryRelationsProofs ------------------------
(***************************************************************************)
(* What the operators of MemoryRelations preserve, for every set of ids    *)
(* and every map of records.                                               *)
(***************************************************************************)
EXTENDS SupersessionWalk, FiniteSetTheorems, WellFoundedInduction, TLAPS

\* q is r without d: what remove_state_record leaves of the other records.
IsRemoval(r, d, q) ==
    /\ DOMAIN q = DOMAIN r \ {d}
    /\ q = [x \in DOMAIN q |-> q[x]]
    /\ \A x \in DOMAIN q :
          /\ q[x] \in Meta
          /\ q[x].by = IF x \in r[d].sup /\ r[x].by = d THEN r[d].by ELSE r[x].by
          /\ q[x].sup = IF x = r[d].by THEN (r[x].sup \ {d}) \cup r[d].sup
                        ELSE r[x].sup
          /\ q[x].conf = IF x \in r[d].conf THEN r[x].conf \ {d} ELSE r[x].conf

\* remove_state_record does what IsRemoval says.
LEMMA RemovedFields ==
    ASSUME NEW r, IsMap(r, Meta), NEW d, d \in DOMAIN r
    PROVE  IsRemoval(r, d, remove_state_record(r, d))
  <1> DEFINE q == remove_state_record(r, d)
  <1>1. DOMAIN q = DOMAIN r \ {d} /\ q = [x \in DOMAIN q |-> q[x]]
    BY DEF remove_state_record
  <1>2. ASSUME NEW x \in DOMAIN q
        PROVE  /\ q[x] \in Meta
               /\ q[x].by = IF x \in r[d].sup /\ r[x].by = d THEN r[d].by
                            ELSE r[x].by
               /\ q[x].sup = IF x = r[d].by
                             THEN (r[x].sup \ {d}) \cup r[d].sup
                             ELSE r[x].sup
               /\ q[x].conf = IF x \in r[d].conf THEN r[x].conf \ {d}
                              ELSE r[x].conf
    <2>1. r[x] \in Meta /\ r[d] \in Meta
      BY <1>1 DEF IsMap
    <2> QED
      BY <1>1, <2>1 DEF remove_state_record, Meta
  <1> QED
    BY <1>1, <1>2 DEF IsRemoval

\* Removing a record keeps the map a map of records.
LEMMA RemoveTyped ==
    ASSUME NEW r, IsMap(r, Meta), NEW d
    PROVE  IsMap(remove_state_record(r, d), Meta)
  <1>1. CASE d \notin DOMAIN r
    BY <1>1 DEF remove_state_record
  <1>2. CASE d \in DOMAIN r
    <2>1. IsRemoval(r, d, remove_state_record(r, d))
      BY <1>2, RemovedFields
    <2> QED
      BY <2>1 DEF IsRemoval, IsMap
  <1> QED
    BY <1>1, <1>2

\* Splicing a record out of its chain and dropping it from its conflicts keeps
\* the relations valid: no link dangles, both directions agree, and no cycle
\* closes.
LEMMA RemoveValid ==
    ASSUME NEW r, IsMap(r, Meta), validate_relations(r), NEW d
    PROVE  validate_relations(remove_state_record(r, d))
  <1>1. CASE d \notin DOMAIN r
    BY <1>1 DEF remove_state_record
  <1>2. CASE d \in DOMAIN r
    <2> DEFINE q == remove_state_record(r, d)
    <2>0. IsRemoval(r, d, q)
      BY <1>2, RemovedFields
    <2> HIDE DEF q
    <2>1. d \in DOMAIN r /\ DOMAIN q = DOMAIN r \ {d}
      BY <1>2, <2>0 DEF IsRemoval
    <2>2. \A x \in DOMAIN r : x \in Id /\ r[x] \in Meta
      BY DEF IsMap
    <2>3. \A x \in DOMAIN q :
             /\ q[x].by = IF x \in r[d].sup /\ r[x].by = d THEN r[d].by
                          ELSE r[x].by
             /\ q[x].sup = IF x = r[d].by THEN (r[x].sup \ {d}) \cup r[d].sup
                           ELSE r[x].sup
             /\ q[x].conf = IF x \in r[d].conf THEN r[x].conf \ {d}
                            ELSE r[x].conf
      BY <2>0 DEF IsRemoval
    <2>4. /\ \A x \in DOMAIN r : ValidMeta(x, r[x])
          /\ NoDangling(r) /\ Symmetric(r) /\ Acyclic(r)
      BY DEF validate_relations
    \* The relations of r, one fact each.
    <2>31. \A x \in DOMAIN r : x \notin r[x].sup /\ r[x].by # x /\ x \notin r[x].conf
      BY <2>4 DEF ValidMeta
    <2>32. \A x \in DOMAIN r : \A y :
             /\ y \in r[x].sup => y \in DOMAIN r
             /\ y \in r[x].conf => y \in DOMAIN r
      BY <2>4 DEF NoDangling
    <2>33. \A x \in DOMAIN r : r[x].by # NoId => r[x].by \in DOMAIN r
      BY <2>4 DEF NoDangling
    <2>34. \A x \in DOMAIN r, y \in DOMAIN r : y \in r[x].sup <=> r[y].by = x
      <3>1. NoId \notin DOMAIN r
        BY <2>2, IdAssumption
      <3> QED
        BY <2>4, <3>1 DEF Symmetric
    <2>35. \A x \in DOMAIN r, y \in DOMAIN r : y \in r[x].conf => x \in r[y].conf
      BY <2>4 DEF Symmetric
    \* The relations of q in the terms of r.
    <2>5. \A x \in DOMAIN q : q[x].by = IF r[x].by = d THEN r[d].by ELSE r[x].by
      BY <2>1, <2>3, <2>34
    <2>6. \A x \in DOMAIN q : \A y :
             y \in q[x].sup <=> ( (y \in r[x].sup /\ y # d)
                                  \/ (x = r[d].by /\ y \in r[d].sup) )
      <3>1. ASSUME NEW x \in DOMAIN q, NEW y
            PROVE  y \in q[x].sup <=> ( (y \in r[x].sup /\ y # d)
                                        \/ (x = r[d].by /\ y \in r[d].sup) )
        <4>1. CASE x = r[d].by
          <5>1. q[x].sup = (r[x].sup \ {d}) \cup r[d].sup
            BY <2>3, <4>1
          <5> QED
            BY <4>1, <5>1
        <4>2. CASE x # r[d].by
          <5>1. q[x].sup = r[x].sup
            BY <2>3, <4>2
          <5>2. d \notin r[x].sup
            BY <2>1, <2>34, <4>2
          <5> QED
            BY <4>2, <5>1, <5>2
        <4> QED
          BY <4>1, <4>2
      <3> QED
        BY <3>1
    <2>7. \A x \in DOMAIN q : \A y : y \in q[x].conf <=> y \in r[x].conf /\ y # d
      <3>1. ASSUME NEW x \in DOMAIN q, NEW y
            PROVE  y \in q[x].conf <=> y \in r[x].conf /\ y # d
        <4>1. CASE x \in r[d].conf
          <5>1. q[x].conf = r[x].conf \ {d}
            BY <2>3, <4>1
          <5> QED
            BY <5>1
        <4>2. CASE x \notin r[d].conf
          <5>1. q[x].conf = r[x].conf
            BY <2>3, <4>2
          <5>2. d \notin r[x].conf
            BY <2>1, <2>35, <4>2
          <5> QED
            BY <5>1, <5>2
        <4> QED
          BY <4>1, <4>2
      <3> QED
        BY <3>1
    <2>8. \A x \in DOMAIN r : ~(r[x].by = d /\ r[d].by = x)
      <3>1. SUFFICES ASSUME NEW x \in DOMAIN r, r[x].by = d, r[d].by = x
                     PROVE  FALSE
        OBVIOUS
      <3>2. {x, d} \in SUBSET DOMAIN r /\ {x, d} # {}
        BY <2>1
      <3> QED
        BY <2>4, <3>1, <3>2 DEF Acyclic
    <2>9. \A x \in DOMAIN q : ValidMeta(x, q[x])
      <3>1. ASSUME NEW x \in DOMAIN q
            PROVE  x \notin q[x].sup /\ q[x].by # x /\ x \notin q[x].conf
        BY <2>1, <2>5, <2>6, <2>7, <2>8, <2>31, <2>34
      <3> QED
        BY <3>1 DEF ValidMeta
    <2>10. NoDangling(q)
      <3>1. ASSUME NEW x \in DOMAIN q, NEW y
            PROVE  /\ y \in q[x].sup => y \in DOMAIN q
                   /\ y \in q[x].conf => y \in DOMAIN q
        BY <2>1, <2>6, <2>7, <2>31, <2>32
      <3>2. ASSUME NEW x \in DOMAIN q, q[x].by # NoId
            PROVE  q[x].by \in DOMAIN q
        BY <2>1, <2>5, <2>31, <2>33, <3>2
      <3> QED
        BY <3>1, <3>2 DEF NoDangling
    <2>11. Symmetric(q)
      <3>1. ASSUME NEW x \in DOMAIN q, NEW y \in q[x].sup
            PROVE  q[y].by = x
        <4>1. y \in DOMAIN r /\ y # d /\ y \in DOMAIN q
          BY <2>1, <2>6, <2>31, <2>32, <3>1
        <4> QED
          BY <2>1, <2>5, <2>6, <2>34, <3>1, <4>1
      <3>2. ASSUME NEW x \in DOMAIN q, q[x].by # NoId
            PROVE  x \in q[q[x].by].sup
        <4>1. q[x].by \in DOMAIN q
          BY <2>10, <3>2 DEF NoDangling
        <4> QED
          BY <2>1, <2>5, <2>6, <2>34, <3>2, <4>1
      <3>3. ASSUME NEW x \in DOMAIN q, NEW y \in q[x].conf
            PROVE  x \in q[y].conf
        <4>1. y \in DOMAIN r /\ y # d
          BY <2>1, <2>7, <2>32, <3>3
        <4> QED
          BY <2>1, <2>7, <2>35, <3>3, <4>1
      <3> QED
        BY <3>1, <3>2, <3>3 DEF Symmetric
    <2>12. Acyclic(q)
      <3>1. SUFFICES ASSUME NEW C \in SUBSET DOMAIN q, C # {},
                            \A x \in C : q[x].by \in C
                     PROVE  FALSE
        BY DEF Acyclic
      <3>2. CASE \A x \in C : r[x].by # d
        <4>1. C \in SUBSET DOMAIN r /\ \A x \in C : r[x].by \in C
          BY <2>1, <2>5, <3>1, <3>2
        <4> QED
          BY <2>4, <3>1, <4>1 DEF Acyclic
      <3>3. CASE \E x \in C : r[x].by = d
        <4> DEFINE D == C \cup {d}
        <4>1. D \in SUBSET DOMAIN r /\ D # {}
          BY <2>1
        <4>2. \A x \in C : r[x].by \in D
          BY <2>1, <2>5, <3>1
        <4>3. r[d].by \in D
          BY <2>1, <2>5, <3>1, <3>3
        <4> QED
          BY <2>4, <4>1, <4>2, <4>3 DEF Acyclic
      <3> QED
        BY <3>2, <3>3
    <2> QED
      BY <2>9, <2>10, <2>11, <2>12 DEF validate_relations, q
  <1> QED
    BY <1>1, <1>2

\* A batch that is applied to typed records gives typed records, when the
\* result is valid: its links lead to records, which are ids.
LEMMA ApplyTyped ==
    ASSUME NEW r, IsMap(r, Meta), NEW j, IsMap(j, Pending),
           NEW order, Batch(order) \subseteq DOMAIN j,
           validate_relations(apply_pending_upserts(r, j, order))
    PROVE  /\ IsMap(apply_pending_upserts(r, j, order), Meta)
           /\ DOMAIN apply_pending_upserts(r, j, order)
                = DOMAIN r \cup Batch(order)
  <1> DEFINE B == Batch(order)
             p == Install(r, j, order)
             q == Link(p, j, order)
  <1>1. q = apply_pending_upserts(r, j, order)
    BY DEF apply_pending_upserts
  <1>2. DOMAIN p = DOMAIN r \cup B /\ DOMAIN q = DOMAIN p
    BY DEF Install, Link
  <1>3. DOMAIN q \subseteq Id
    BY <1>2 DEF IsMap
  <1>4. \A x \in DOMAIN p : p[x] \in Meta
    <2>1. ASSUME NEW x \in B
          PROVE  p[x] \in Meta
      <3>1. j[x].meta \in Meta
        BY <2>1 DEF IsMap, Pending
      <3> QED
        BY <2>1, <3>1 DEF Install, Meta
    <2>2. ASSUME NEW x \in DOMAIN r, x \notin B
          PROVE  p[x] \in Meta
      <3>1. r[x] \in Meta
        BY <2>2 DEF IsMap
      <3> QED
        BY <2>2, <3>1 DEF Install, Meta
    <2> QED
      BY <1>2, <2>1, <2>2
  <1>5. \A x \in DOMAIN q : q[x].by \in Id \cup {NoId} /\ q[x].conf \subseteq Id
    BY <1>1, <1>3 DEF validate_relations, NoDangling
  <1>6. ASSUME NEW x \in DOMAIN q
        PROVE  q[x] \in Meta
    <2> DEFINE claims == {i \in B : x \in j[i].pred}
               by == IF claims # {}
                     THEN CHOOSE i \in claims :
                              \A k \in claims : order[k] <= order[i]
                     ELSE p[x].by
               conf == p[x].conf \cup {i \in B : x \in j[i].meta.conf}
    <2>1. q[x] = [p[x] EXCEPT !.by = by, !.conf = conf]
      BY <1>2 DEF Link
    <2>2. p[x] \in Meta
      BY <1>2, <1>4
    <2> HIDE DEF by, conf, q, p
    <2>3. q[x].by = by /\ q[x].conf = conf
      BY <2>1, <2>2 DEF Meta
    <2>4. by \in Id \cup {NoId} /\ conf \in SUBSET Id
      BY <1>5, <2>3
    <2> QED
      BY <2>1, <2>2, <2>4 DEF Meta
  <1>7. q = [x \in DOMAIN q |-> q[x]]
    BY DEF Link
  <1> HIDE DEF p, q
  <1>8. IsMap(q, Meta)
    BY <1>3, <1>6, <1>7 DEF IsMap
  <1> QED
    BY <1>1, <1>2, <1>8
-----------------------------------------------------------------------------
(***************************************************************************)
(* The walk of detect_supersession_cycles.  Its verdict after n turns is   *)
(* that a route of at most n links leads back to the start; a route with   *)
(* more places than there are records comes to one of them twice.          *)
(***************************************************************************)

\* p visits records, each the successor of the one before it, along k links.
IsRoute(r, k, p) ==
    /\ p \in [0..k -> DOMAIN r]
    /\ \A i \in 0..(k - 1) : r[p[i]].by = p[i + 1]

\* A route of one to n links leads from x to y.
Leads(r, n, x, y) ==
    \E k \in 1..n : \E p \in [0..k -> DOMAIN r] :
        IsRoute(r, k, p) /\ p[0] = x /\ p[k] = y

\* There is a least among numbers.
LEMMA LeastNumber ==
    ASSUME NEW T, T \subseteq Nat, T # {}
    PROVE  \E k \in T : \A l \in T : k <= l
  <1>1. \E k \in T : \A l \in T : ~(<<l, k>> \in OpToRel(<, Nat))
    <2>1. IsWellFoundedOn(OpToRel(<, Nat), Nat)
      BY NatLessThanWellFounded
    <2> HIDE DEF OpToRel
    <2> QED
      BY <2>1, WFMin
  <1>2. \A k, l \in Nat : l < k => <<l, k>> \in OpToRel(<, Nat)
    BY DEF OpToRel
  <1>3. PICK k \in T : \A l \in T : ~(<<l, k>> \in OpToRel(<, Nat))
    BY <1>1
  <1>4. \A l \in T : ~(l < k)
    BY <1>2, <1>3
  <1> QED
    BY <1>4

\* A route either is a single link, or goes on from the successor.
LEMMA LeadsOn ==
    ASSUME NEW r, IsMap(r, Meta), NEW n \in Nat,
           NEW x \in DOMAIN r, NEW y \in DOMAIN r
    PROVE  Leads(r, n, x, y) <=>
             /\ n > 0 /\ r[x].by # NoId
             /\ \/ r[x].by = y
                \/ r[x].by \in DOMAIN r /\ Leads(r, n - 1, r[x].by, y)
  <1>0. \A z \in DOMAIN r : z # NoId
    BY IdAssumption DEF IsMap
  <1>1. ASSUME Leads(r, n, x, y)
        PROVE  /\ n > 0 /\ r[x].by # NoId
               /\ \/ r[x].by = y
                  \/ r[x].by \in DOMAIN r /\ Leads(r, n - 1, r[x].by, y)
    <2>1a. PICK k \in 1..n : \E p \in [0..k -> DOMAIN r] :
                  IsRoute(r, k, p) /\ p[0] = x /\ p[k] = y
      BY <1>1 DEF Leads
    <2>1. PICK p \in [0..k -> DOMAIN r] : IsRoute(r, k, p) /\ p[0] = x /\ p[k] = y
      BY <2>1a
    <2>2. 0 \in 0..(k - 1) /\ 1 \in 0..k /\ r[x].by = p[1]
      BY <2>1 DEF IsRoute
    <2>3. n > 0 /\ r[x].by # NoId /\ r[x].by \in DOMAIN r
      BY <1>0, <2>2
    <2>4. CASE k = 1
      BY <2>1, <2>2, <2>3, <2>4
    <2>5. CASE k # 1
      <3> DEFINE q == [i \in 0..(k - 1) |-> p[i + 1]]
      <3>1. k - 1 \in 1..(n - 1) /\ \A i \in 0..(k - 1) : i + 1 \in 0..k
        BY <2>5
      <3>2. q \in [0..(k - 1) -> DOMAIN r]
        BY <3>1
      <3>3. q[0] = r[x].by /\ q[k - 1] = y
        BY <2>1, <2>2, <3>1
      <3>4. ASSUME NEW i \in 0..((k - 1) - 1)
            PROVE  r[q[i]].by = q[i + 1]
        <4>1. i \in 0..(k - 1) /\ i + 1 \in 0..(k - 1)
          BY <3>1
        <4>2. r[p[i + 1]].by = p[(i + 1) + 1]
          BY <2>1, <4>1 DEF IsRoute
        <4> QED
          BY <4>1, <4>2
      <3>5. IsRoute(r, k - 1, q)
        BY <3>2, <3>4 DEF IsRoute
      <3>6. Leads(r, n - 1, r[x].by, y)
        <4> HIDE DEF q
        <4> QED
          BY <3>1, <3>2, <3>3, <3>5 DEF Leads
      <3> QED
        BY <2>3, <3>6
    <2> QED
      BY <2>4, <2>5
  <1>2. ASSUME n > 0, r[x].by = y
        PROVE  Leads(r, n, x, y)
    <2> DEFINE p == [i \in 0..1 |-> IF i = 0 THEN x ELSE y]
    <2>1. p \in [0..1 -> DOMAIN r] /\ p[0] = x /\ p[1] = y
      OBVIOUS
    <2>2. IsRoute(r, 1, p)
      <3>1. \A i \in 0..(1 - 1) : i = 0
        OBVIOUS
      <3> QED
        BY <1>2, <2>1, <3>1 DEF IsRoute
    <2>3. 1 \in 1..n
      BY <1>2
    <2> HIDE DEF p
    <2> QED
      BY <2>1, <2>2, <2>3 DEF Leads
  <1>3. ASSUME n > 0, r[x].by \in DOMAIN r, Leads(r, n - 1, r[x].by, y)
        PROVE  Leads(r, n, x, y)
    <2>1a. PICK k \in 1..(n - 1) : \E p \in [0..k -> DOMAIN r] :
                  IsRoute(r, k, p) /\ p[0] = r[x].by /\ p[k] = y
      BY <1>3 DEF Leads
    <2>1. PICK p \in [0..k -> DOMAIN r] : IsRoute(r, k, p) /\ p[0] = r[x].by /\ p[k] = y
      BY <2>1a
    <2> DEFINE q == [i \in 0..(k + 1) |-> IF i = 0 THEN x ELSE p[i - 1]]
    <2>2. k + 1 \in 1..n /\ \A i \in 0..(k + 1) : i # 0 => i - 1 \in 0..k
      BY <2>1
    <2>3. q \in [0..(k + 1) -> DOMAIN r]
      BY <2>2
    <2>4. q[0] = x /\ q[k + 1] = y
      BY <2>1, <2>2
    <2>5. ASSUME NEW i \in 0..((k + 1) - 1)
          PROVE  r[q[i]].by = q[i + 1]
      <3>1. i \in 0..(k + 1) /\ i + 1 \in 0..(k + 1) /\ i + 1 # 0
        BY <2>1
      <3>2. q[i + 1] = p[i]
        BY <3>1
      <3>3. CASE i = 0
        BY <2>1, <3>1, <3>2, <3>3
      <3>4. CASE i # 0
        <4>1. i - 1 \in 0..(k - 1) /\ (i - 1) + 1 = i
          BY <2>1, <3>4
        <4>2. r[p[i - 1]].by = p[i]
          BY <2>1, <4>1 DEF IsRoute
        <4> QED
          BY <3>1, <3>2, <3>4, <4>2
      <3> QED
        BY <3>3, <3>4
    <2>6. IsRoute(r, k + 1, q)
      BY <2>3, <2>5 DEF IsRoute
    <2> HIDE DEF q
    <2> QED
      BY <2>2, <2>3, <2>4, <2>6 DEF Leads
  <1> QED
    BY <1>1, <1>2, <1>3

\* The walk comes back to its start exactly when a route does.
LEMMA WalkFollows ==
    ASSUME NEW r, IsMap(r, Meta), IsFiniteSet(DOMAIN r), NEW start \in DOMAIN r
    PROVE  Returns(r, start) <=> Leads(r, Turns(r), start, start)
  <1>0. Turns(r) \in Nat
    BY FS_CardinalityType DEF Turns
  <1> DEFINE N == Turns(r)
             D == DOMAIN r
             turn(w, n, x) ==
                 /\ n > 0 /\ r[x].by # NoId
                 /\ \/ r[x].by = start
                    \/ r[x].by \in D /\ w[n - 1][r[x].by]
             walks(w) == w = [n \in 0..N |-> [x \in D |-> turn(w, n, x)]]
             v == [n \in 0..N |-> [x \in D |-> Leads(r, n, x, start)]]
             walk == CHOOSE w : walks(w)
  <1>1. Returns(r, start) = walk[N][start]
    BY DEF Returns
  <1>2. walks(v)
    <2>1. ASSUME NEW n \in 0..N, NEW x \in D
          PROVE  turn(v, n, x) <=> Leads(r, n, x, start)
      <3>1. n > 0 => n - 1 \in 0..N
        BY <1>0
      <3>2. n > 0 /\ r[x].by \in D =>
              v[n - 1][r[x].by] = Leads(r, n - 1, r[x].by, start)
        BY <3>1
      <3> HIDE DEF v
      <3> QED
        BY <3>2, LeadsOn
    <2>2. \A n \in 0..N, x \in D : turn(v, n, x) = Leads(r, n, x, start)
      <3>1. \A n \in 0..N, x \in D :
               Leads(r, n, x, start) \in BOOLEAN /\ turn(v, n, x) \in BOOLEAN
        BY DEF Leads
      <3> HIDE DEF turn
      <3> QED
        BY <2>1, <3>1, Zenon
    <2> QED
      BY <2>2, Zenon
  <1>3. walks(walk)
    <2> HIDE DEF v, walks
    <2> QED
      BY <1>2
  <1> HIDE DEF walk, v
  <1>4. \A n \in 0..N, x \in D : walk[n][x] = turn(walk, n, x)
    <2>1. walk = [n \in 0..N |-> [x \in D |-> turn(walk, n, x)]]
      BY <1>3
    <2> HIDE DEF turn
    <2>2. \A n \in 0..N : walk[n] = [x \in D |-> turn(walk, n, x)]
      BY <2>1, Zenon
    <2> QED
      BY <2>2, Zenon
  <1>5. \A n \in 0..N : \A x \in D : walk[n][x] <=> Leads(r, n, x, start)
    <2> DEFINE T == {n \in 0..N : ~ \A x \in D : walk[n][x] <=> Leads(r, n, x, start)}
    <2>1. SUFFICES ASSUME T # {} PROVE FALSE
      OBVIOUS
    <2>2. PICK n \in T : \A l \in T : n <= l
      <3>1. T \subseteq Nat
        OBVIOUS
      <3> HIDE DEF T
      <3> QED
        BY <2>1, <3>1, LeastNumber
    <2>3. PICK x \in D : ~(walk[n][x] <=> Leads(r, n, x, start))
      OBVIOUS
    <2>4. n \in 0..N /\ n \in Nat
      OBVIOUS
    <2>5. n > 0 => \A z \in D : walk[n - 1][z] <=> Leads(r, n - 1, z, start)
      <3>1. n > 0 => n - 1 \in 0..N /\ ~(n <= n - 1)
        BY <1>0, <2>4
      <3> QED
        BY <2>2, <3>1
    <2>6. walk[n][x] <=> turn(walk, n, x)
      BY <1>4, <2>4
    <2>7. Leads(r, n, x, start) <=>
             /\ n > 0 /\ r[x].by # NoId
             /\ \/ r[x].by = start
                \/ r[x].by \in DOMAIN r /\ Leads(r, n - 1, r[x].by, start)
      BY <2>4, LeadsOn
    <2> HIDE DEF T
    <2> QED
      BY <2>3, <2>5, <2>6, <2>7
  <1> QED
    BY <1>0, <1>1, <1>5

\* Where every record has its successor among them, there are routes of any
\* length.
LEMMA RoutesGoOn ==
    ASSUME NEW r, NEW C \in SUBSET DOMAIN r, \A x \in C : r[x].by \in C,
           NEW s \in C, NEW m \in Nat
    PROVE  \E p \in [0..m -> C] : IsRoute(r, m, p)
  <1> DEFINE T == {n \in Nat : ~ \E p \in [0..n -> C] : IsRoute(r, n, p)}
  <1>1. SUFFICES ASSUME T # {} PROVE FALSE
    OBVIOUS
  <1>2. PICK n \in T : \A l \in T : n <= l
    <2>1. T \subseteq Nat
      OBVIOUS
    <2> HIDE DEF T
    <2> QED
      BY <1>1, <2>1, LeastNumber
  <1>3. n # 0
    <2> DEFINE p == [i \in 0..0 |-> s]
    <2>1. p \in [0..0 -> C] /\ p \in [0..0 -> DOMAIN r]
      OBVIOUS
    <2>2. 0..(0 - 1) = {}
      OBVIOUS
    <2>3. IsRoute(r, 0, p)
      BY <2>1, <2>2 DEF IsRoute
    <2> HIDE DEF p
    <2> QED
      BY <2>1, <2>3
  <1>4. PICK p \in [0..(n - 1) -> C] : IsRoute(r, n - 1, p)
    <2>1. n - 1 \in Nat /\ ~(n <= n - 1)
      BY <1>3
    <2> QED
      BY <1>2, <2>1
  <1> DEFINE q == [i \in 0..n |-> IF i = n THEN r[p[n - 1]].by ELSE p[i]]
  <1>5. n \in Nat /\ n - 1 \in 0..(n - 1)
    BY <1>3
  <1>6. \A i \in 0..n : i # n => i \in 0..(n - 1)
    BY <1>5
  <1>7. q \in [0..n -> C] /\ q \in [0..n -> DOMAIN r]
    BY <1>5, <1>6
  <1>8. ASSUME NEW i \in 0..(n - 1) PROVE r[q[i]].by = q[i + 1]
    <2>1. i \in 0..n /\ i # n /\ i + 1 \in 0..n
      BY <1>5
    <2>2. q[i] = p[i]
      BY <2>1
    <2>3. CASE i = n - 1
      <3>1. i + 1 = n
        BY <1>5, <2>3
      <3> QED
        BY <2>1, <2>2, <2>3, <3>1
    <2>4. CASE i # n - 1
      <3>1. i \in 0..((n - 1) - 1) /\ i + 1 # n
        BY <1>5, <2>4
      <3>2. r[p[i]].by = p[i + 1]
        BY <1>4, <3>1 DEF IsRoute
      <3> QED
        BY <2>1, <2>2, <3>1, <3>2
    <2> QED
      BY <2>3, <2>4
  <1>9. IsRoute(r, n, q)
    BY <1>7, <1>8 DEF IsRoute
  <1> HIDE DEF q
  <1> QED
    BY <1>7, <1>9

\* As many turns as there are records are enough for every circle, and the
\* walk reports nothing else: detect_supersession_cycles decides Acyclic.
THEOREM WalkDecidesCycles ==
    ASSUME NEW r, IsMap(r, Meta), IsFiniteSet(DOMAIN r)
    PROVE  WalkDecides(r)
  <1>0. Turns(r) \in Nat
    BY FS_CardinalityType DEF Turns
  <1>1. ASSUME detect_supersession_cycles(r) PROVE ~Acyclic(r)
    <2>1. PICK start \in DOMAIN r : Returns(r, start)
      BY <1>1 DEF detect_supersession_cycles
    <2>2. Leads(r, Turns(r), start, start)
      BY <2>1, WalkFollows
    <2>3a. PICK k \in 1..Turns(r) : \E p \in [0..k -> DOMAIN r] :
                  IsRoute(r, k, p) /\ p[0] = start /\ p[k] = start
      BY <2>2 DEF Leads
    <2>3. PICK p \in [0..k -> DOMAIN r] : IsRoute(r, k, p) /\ p[0] = start /\ p[k] = start
      BY <2>3a
    <2> DEFINE C == {p[i] : i \in 0..(k - 1)}
    <2>4. \A i \in 0..(k - 1) : i \in 0..k /\ i + 1 \in 0..k
      BY <1>0
    <2>5. C \in SUBSET DOMAIN r /\ start \in C
      <3>1. 0 \in 0..(k - 1)
        BY <1>0
      <3> QED
        BY <2>3, <2>4, <3>1
    <2>6. ASSUME NEW i \in 0..(k - 1) PROVE r[p[i]].by \in C
      <3>1. r[p[i]].by = p[i + 1]
        BY <2>3 DEF IsRoute
      <3>2. CASE i + 1 = k
        BY <2>3, <2>5, <3>1, <3>2
      <3>3. CASE i + 1 # k
        <4>1. i + 1 \in 0..(k - 1)
          BY <1>0, <3>3
        <4> QED
          BY <3>1, <4>1
      <3> QED
        BY <3>2, <3>3
    <2> QED
      BY <2>5, <2>6 DEF Acyclic
  <1>2. ASSUME ~Acyclic(r) PROVE detect_supersession_cycles(r)
    <2> DEFINE N == Turns(r)
    <2>1. PICK C \in SUBSET DOMAIN r : C # {} /\ \A x \in C : r[x].by \in C
      BY <1>2 DEF Acyclic
    <2>2. PICK s \in C : TRUE
      BY <2>1
    <2>3. PICK p \in [0..N -> C] : IsRoute(r, N, p)
      BY <1>0, <2>1, <2>2, RoutesGoOn
    <2>4. PICK i \in 0..N, j \in 0..N : i < j /\ p[i] = p[j]
      <3>1. p \in [0..N -> DOMAIN r]
        BY <2>3 DEF IsRoute
      <3>2. IsFiniteSet(0..N) /\ Cardinality(0..N) = N + 1
        BY <1>0, FS_Interval
      <3>3. Cardinality(DOMAIN r) < Cardinality(0..N)
        BY <1>0, <3>2 DEF Turns
      <3>4. \E i, j \in 0..N : i # j /\ p[i] = p[j]
        BY <3>1, <3>2, <3>3, FS_PigeonHole
      <3> QED
        BY <1>0, <3>4
    <2> DEFINE q == [l \in 0..(j - i) |-> p[i + l]]
    <2>5. j - i \in 1..N /\ \A l \in 0..(j - i) : i + l \in 0..N
      BY <1>0, <2>4
    <2>6. q \in [0..(j - i) -> DOMAIN r]
      BY <2>3, <2>5 DEF IsRoute
    <2>7. q[0] = p[i] /\ q[j - i] = p[i]
      <3>1. 0 \in 0..(j - i) /\ j - i \in 0..(j - i) /\ i + 0 = i /\ i + (j - i) = j
        BY <1>0, <2>4
      <3> QED
        BY <2>4, <3>1
    <2>8. ASSUME NEW l \in 0..((j - i) - 1) PROVE r[q[l]].by = q[l + 1]
      <3>1. /\ l \in 0..(j - i) /\ l + 1 \in 0..(j - i)
            /\ i + l \in 0..(N - 1) /\ i + (l + 1) = (i + l) + 1
        BY <1>0, <2>4
      <3>2. r[p[i + l]].by = p[(i + l) + 1]
        BY <2>3, <3>1 DEF IsRoute
      <3> QED
        BY <3>1, <3>2
    <2>9. IsRoute(r, j - i, q)
      BY <2>6, <2>8 DEF IsRoute
    <2>10. p[i] \in DOMAIN r
      BY <2>3 DEF IsRoute
    <2>11. Leads(r, N, p[i], p[i])
      <3> HIDE DEF q
      <3> QED
        BY <2>5, <2>6, <2>7, <2>9 DEF Leads
    <2> QED
      BY <2>10, <2>11, WalkFollows DEF detect_supersession_cycles
  <1> QED
    BY <1>1, <1>2 DEF WalkDecides
-----------------------------------------------------------------------------
(***************************************************************************)
(* The order of a batch.  A commit applies it in the order of the request, *)
(* a recovery in the order of the ids.                                     *)
(***************************************************************************)

\* Two members of a batch agree on whether they conflict.
MutualConflicts(j) ==
    \A x, i \in DOMAIN j : i \in j[x].meta.conf => x \in j[i].meta.conf

\* A batch whose members agree on their conflicts and whose result is valid has
\* that result in any order: nothing is stripped in the first loop that the
\* second one would not restore, and no record has two members that claim it.
LEMMA AnyOrder ==
    ASSUME NEW r, IsMap(r, Meta), NEW j, IsMap(j, Pending), MutualConflicts(j),
           NEW order, IsMap(order, Nat), DOMAIN order = DOMAIN j,
           NEW other, IsMap(other, Nat), DOMAIN other = DOMAIN j,
           Replays(r, j, order)
    PROVE  Replays(r, j, other)
  <1> DEFINE B == DOMAIN j
             p == Install(r, j, order)
             q == Install(r, j, other)
             claims(x) == {i \in B : x \in j[i].pred}
  <1>0. Batch(order) = B /\ Batch(other) = B
    BY DEF Batch
  <1>1. ASSUME NEW o, IsMap(o, Nat), DOMAIN o = B, NEW x \in B
        PROVE  j[x].meta.conf \ {i \in B : o[x] < o[i] /\ x \in Dropped(r, j, i)}
                 = j[x].meta.conf
    <2>1. ASSUME NEW i \in B, i \in j[x].meta.conf PROVE x \notin Dropped(r, j, i)
      BY <2>1 DEF MutualConflicts, Dropped
    <2> QED
      BY <2>1
  <1>2. p = q
    <2>1. ASSUME NEW x \in B
          PROVE  [j[x].meta EXCEPT
                    !.conf = @ \ {i \in B : order[x] < order[i] /\ x \in Dropped(r, j, i)}]
                 = [j[x].meta EXCEPT
                    !.conf = @ \ {i \in B : other[x] < other[i] /\ x \in Dropped(r, j, i)}]
      BY <1>1
    <2> QED
      BY <1>0, <2>1 DEF Install
  <1> HIDE DEF q
  <1>3. DOMAIN p = DOMAIN r \cup B /\ \A x \in B : p[x].sup = j[x].meta.sup
    <2>1. \A x \in B : j[x].meta \in Meta
      BY DEF IsMap, Pending
    <2> QED
      BY <1>0, <2>1 DEF Install, Meta
  <1> HIDE DEF p
  <1>4. ASSUME NEW x \in DOMAIN p, NEW i \in claims(x), NEW k \in claims(x)
        PROVE  i = k
    <2> DEFINE s == Link(p, j, order)
    <2>1. Symmetric(s) /\ DOMAIN s = DOMAIN p
      <3>1. Symmetric(s)
        BY DEF Replays, validate_relations, apply_pending_upserts, p
      <3> QED
        BY <3>1 DEF Link
    <2>2. ASSUME NEW l \in claims(x) PROVE s[x].by = l
      <3>1. l \in DOMAIN p /\ x \in p[l].sup
        BY <1>0, <1>3 DEF Replays, AppliesCleanly
      <3>2. p[l] \in Meta
        <4>1. l \in B /\ j[l].meta \in Meta
          BY DEF IsMap, Pending
        <4> QED
          BY <1>0, <4>1 DEF p, Install, Meta
      <3>3. s[l].sup = p[l].sup
        BY <3>1, <3>2 DEF Link, Meta
      <3> QED
        BY <2>1, <3>1, <3>3 DEF Symmetric
    <2> QED
      BY <2>2
  <1>5. Link(p, j, order) = Link(p, j, other)
    <2> DEFINE last(o, x) == CHOOSE i \in claims(x) :
                                 \A k \in claims(x) : o[k] <= o[i]
    <2>1. ASSUME NEW o, IsMap(o, Nat), DOMAIN o = B, NEW x \in DOMAIN p,
                 NEW i \in claims(x)
          PROVE  last(o, x) = i
      <3>1. o[i] \in Nat
        BY <2>1 DEF IsMap
      <3>2. \A k \in claims(x) : k = i
        BY <1>4
      <3>3. \A k \in claims(x) : o[k] <= o[i]
        BY <3>1, <3>2
      <3> HIDE DEF claims
      <3> QED
        BY <3>2, <3>3
    <2>2. ASSUME NEW x \in DOMAIN p
          PROVE  (IF claims(x) # {} THEN last(order, x) ELSE p[x].by)
                 = (IF claims(x) # {} THEN last(other, x) ELSE p[x].by)
      <3>1. CASE claims(x) = {}
        BY <3>1
      <3>2. CASE claims(x) # {}
        <4>1. PICK i \in claims(x) : TRUE
          BY <3>2
        <4> HIDE DEF claims, last
        <4>2. last(order, x) = i /\ last(other, x) = i
          BY <2>1, <4>1
        <4> QED
          BY <4>2
      <3> QED
        BY <3>1, <3>2
    <2>3. \A o : Batch(o) = B =>
             Link(p, j, o) =
                 [x \in DOMAIN p |->
                    [p[x] EXCEPT
                       !.by = IF claims(x) # {} THEN last(o, x) ELSE p[x].by,
                       !.conf = @ \cup {i \in B : x \in j[i].meta.conf}]]
      BY DEF Link
    <2> HIDE DEF claims, last
    <2> QED
      BY <1>0, <2>2, <2>3
  <1>6. apply_pending_upserts(r, j, order) = apply_pending_upserts(r, j, other)
    BY <1>2, <1>5 DEF apply_pending_upserts, p, q
  <1> QED
    BY <1>0, <1>6 DEF Replays, AppliesCleanly

\* An empty batch can be applied to valid records.
LEMMA NothingReplays ==
    ASSUME NEW r, IsMap(r, Meta), validate_relations(r),
           NEW j, DOMAIN j = {}, NEW order, DOMAIN order = {}
    PROVE  Replays(r, j, order)
  <1>1. Install(r, j, order) = r
    <2>1. \A x \in DOMAIN r : r[x] = [r[x] EXCEPT !.conf = @ \ {}]
      BY DEF IsMap, Meta
    <2>2. Install(r, j, order) = [x \in DOMAIN r |-> [r[x] EXCEPT !.conf = @ \ {}]]
      BY DEF Install, Batch
    <2> QED
      BY <2>1, <2>2 DEF IsMap
  <1>2. Link(r, j, order) = r
    <2>1. \A x \in DOMAIN r : r[x] = [r[x] EXCEPT !.by = @, !.conf = @ \cup {}]
      BY DEF IsMap, Meta
    <2>2. Link(r, j, order) =
            [x \in DOMAIN r |-> [r[x] EXCEPT !.by = @, !.conf = @ \cup {}]]
      BY DEF Link, Batch
    <2> QED
      BY <2>1, <2>2 DEF IsMap
  <1> QED
    BY <1>1, <1>2 DEF Replays, AppliesCleanly, ValidPending, Batch,
                      apply_pending_upserts
=============================================================================

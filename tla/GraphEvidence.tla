---------------------------- MODULE GraphEvidence ----------------------------
(***************************************************************************)
(* What the knowledge graph holds (src/src/graph/mod.rs) and who sees it   *)
(* (src/src/engine/knowledge_graph.rs): entities, mentions, relations,     *)
(* facts and observations, each kept for the evidence of the memories it   *)
(* was extracted from; the erasure of a memory that changes; the reads.    *)
(*                                                                         *)
(* Commits are atomic here; their files and crashes are in GraphJobs.      *)
(* Abstracted: the words.  A name stands for an entity's name, a text for a*)
(* normalised fact, a statement for an observation, and an alias for the   *)
(* mention that gave it; types, confidences, scores and validity times are *)
(* left out, embeddings count with the aliases, and evidence is a memory in*)
(* one of its versions.  An extraction is whatever a model may answer, well*)
(* founded or not; the code rejects candidate by candidate.  Names and     *)
(* memories are numbers, for lists are kept sorted.                        *)
(***************************************************************************)
EXTENDS Naturals, Sequences, FiniteSets, SequencesExt

CONSTANTS Sources, Names, Texts, Statements,
          Scopes, Callers,
          ScopeOf,     \* the scope of each memory
          SeesScope,   \* the scopes each caller is authorised for
          Extractions, \* the answers of extractors
          MAX_GRAPH_EVIDENCE, MaxDepth, MaxFanout,
          MaxVersion, MaxSteps  \* bounds of the environment

ASSUME EvidenceConstants ==
    /\ Sources \subseteq Nat /\ Names \subseteq Nat
    /\ ScopeOf \in [Sources -> Scopes] /\ SeesScope \in [Callers -> SUBSET Scopes]
    /\ {MAX_GRAPH_EVIDENCE, MaxDepth, MaxFanout, MaxVersion, MaxSteps} \subseteq Nat \ {0}

\* An answer names what it found by its place; it may cite anything, and it is
\* made from finitely many memories.
ASSUME ExtractionsTyped ==
    \A x \in Extractions :
        /\ x.sources \subseteq Sources /\ IsFiniteSet(x.sources)
        /\ x.entities \in Seq([name : Names, from : SUBSET Sources])
        /\ x.relations \in Seq([subject : Names, object : Names, from : SUBSET Sources])
        /\ x.facts \in Seq([text : Texts, from : SUBSET Sources,
                            about : SUBSET Names, causes : SUBSET Nat])
        /\ x.observations \in Seq([statement : Statements, facts : SUBSET Nat])

VARIABLES graph,   \* the committed state of the graph
          memory,  \* the version of each memory, 0 when it is deleted
          expired, \* memories that have expired, or whose anchors are stale
          erased,  \* versions whose erasure was acknowledged
          steps
vars == <<graph, memory, expired, erased, steps>>

Evidence == Sources \X (1 .. MaxVersion)
Entities == Scopes \X Names
EmptyGraph == [mentions |-> {}, aliases |-> {}, entities |-> {}, relations |-> {},
               facts |-> {}, observations |-> {}]

\* Records by id, in sets.
Ids(records) == {r.id : r \in records}
Put(records, r) == {q \in records : q.id # r.id} \cup {r}
With(records, id) == CHOOSE r \in records : r.id = id

\* Sorted, without duplicates, and no more than the code keeps.
Before(p, q) == p[1] < q[1] \/ (p[1] = q[1] /\ p[2] < q[2])
First(n, pairs) == {p \in pairs : Cardinality({q \in pairs : Before(q, p)}) < n}
dedup_evidence(evidence) == First(MAX_GRAPH_EVIDENCE, evidence)
-----------------------------------------------------------------------------
(* Applying an extraction.                                                 *)

\* A deliberately wrong variant: evidence may be from several scopes.
validate_evidence_anywhere(x, from) ==
    from # {} /\ from \subseteq x.sources /\ Cardinality(from) <= MAX_GRAPH_EVIDENCE

\* Evidence has to come from the memories the extraction was made from, and
\* from one scope.
validate_evidence(x, from) ==
    /\ from # {} /\ from \subseteq x.sources /\ Cardinality(from) <= MAX_GRAPH_EVIDENCE
    /\ \A s, t \in from : ScopeOf[s] = ScopeOf[t]
EvidenceOf(from) == {<<s, memory[s]>> : s \in from}
evidence_scope(from) == ScopeOf[CHOOSE s \in from : TRUE]
Named(from, name) == <<evidence_scope(from), name>>

\* An entity is mentioned, and called by an alias, in each piece of its evidence.
build_entity(g, x, c) ==
    LET new == {[entity |-> Named(c.from, c.name), evidence |-> e] : e \in EvidenceOf(c.from)} IN
    IF ~validate_evidence(x, c.from) THEN g
    ELSE [g EXCEPT !.entities = @ \cup {Named(c.from, c.name)},
                   !.mentions = @ \cup new, !.aliases = @ \cup new]

\* Of the names a candidate gives, those of the scope that are known.
resolve_mention_entity(g, from, names) == {Named(from, n) : n \in names} \cap g.entities

build_relation(g, x, c) ==
    LET id == <<evidence_scope(c.from), c.subject, c.object>>
        old == IF id \in Ids(g.relations) THEN With(g.relations, id).evidence ELSE {} IN
    IF ~validate_evidence(x, c.from)
       \/ ~({Named(c.from, c.subject), Named(c.from, c.object)} \subseteq g.entities) THEN g
    ELSE [g EXCEPT !.relations = Put(@,
            [id |-> id, ends |-> resolve_mention_entity(g, c.from, {c.subject, c.object}),
             evidence |-> dedup_evidence(old \cup EvidenceOf(c.from))])]

\* A fact is the same when text, scope and evidence are.  "done" holds the
\* graph and the facts accepted so far, by their place in the answer.
build_fact(done, x, i) ==
    LET c == x.facts[i]
        g == done.graph
        id == <<evidence_scope(c.from), c.text, EvidenceOf(c.from)>>
        old == IF id \in Ids(g.facts) THEN With(g.facts, id)
               ELSE [evidence |-> {}, entities |-> {}, causes |-> {}]
        fact == [id |-> id,
                 evidence |-> dedup_evidence(old.evidence \cup EvidenceOf(c.from)),
                 entities |-> old.entities \cup resolve_mention_entity(g, c.from, c.about),
                 causes |-> old.causes \cup {done.accepted[k].id : k \in c.causes}] IN
    IF ~validate_evidence(x, c.from) \/ ~(c.causes \subseteq DOMAIN done.accepted)
       \/ \E k \in c.causes : done.accepted[k].id[1] # id[1] THEN done
    ELSE [graph |-> [g EXCEPT !.facts = Put(@, fact)],
          accepted |-> [k \in {i} \cup DOMAIN done.accepted |->
                            IF k = i THEN fact ELSE done.accepted[k]]]

Proof(facts) == UNION {f.evidence : f \in facts}
Memories(evidence) == {e[1] : e \in evidence}

\* A deliberately wrong variant: the freshness of a known observation is not
\* looked at.
extended_current(old, facts) ==
    [old EXCEPT !.facts = @ \cup Ids(facts), !.memories = @ \cup Memories(Proof(facts)),
                !.freshness = "current"]

\* A known observation gains proofs; what a user has taken back stays so.
extended(old, facts) ==
    [old EXCEPT !.facts = @ \cup Ids(facts), !.memories = @ \cup Memories(Proof(facts)),
                !.freshness = IF @ \in {"invalidated", "retired"} THEN @ ELSE "current"]

\* A new observation retires those that rest on the very same facts.
build_observation(g, accepted, c) ==
    LET facts == {accepted[k] : k \in c.facts}
        scope == accepted[CHOOSE k \in c.facts : TRUE].id[1]
        id == <<scope, c.statement>>
        superseded(o) == o.id[1] = scope /\ o.facts = Ids(facts) /\ o.freshness = "current"
        new == [id |-> id, facts |-> Ids(facts), memories |-> Memories(Proof(facts)),
                freshness |-> "current"] IN
    IF c.facts = {} \/ ~(c.facts \subseteq DOMAIN accepted)
       \/ \E f \in facts : f.id[1] # scope THEN g
    ELSE IF id \in Ids(g.observations)
    THEN [g EXCEPT !.observations = Put(@, extended(With(@, id), facts))]
    ELSE [g EXCEPT !.observations =
            {IF superseded(o) THEN [o EXCEPT !.freshness = "retired"] ELSE o : o \in @} \cup {new}]

apply_upsert(g, x) ==
    LET entities == FoldLeft(LAMBDA h, c : build_entity(h, x, c), g, x.entities)
        relations == FoldLeft(LAMBDA h, c : build_relation(h, x, c), entities, x.relations)
        facts == FoldLeft(LAMBDA d, i : build_fact(d, x, i),
                          [graph |-> relations, accepted |-> <<>>],
                          [i \in 1 .. Len(x.facts) |-> i])
    IN FoldLeft(LAMBDA h, c : build_observation(h, facts.accepted, c),
                facts.graph, x.observations)
-----------------------------------------------------------------------------
(* Erasing memories, and what a state has to satisfy to be saved.          *)

\* A deliberately wrong variant: what another memory also proves is left as it
\* is.
SparedWhole(evidence, ids) ==
    IF \E e \in evidence : e[1] \notin ids THEN evidence ELSE {}

Spared(evidence, ids) == {e \in evidence : e[1] \notin ids}

\* The facts are cleaned against the entities as they are before these are
\* pruned themselves; an entity that stays keeps all its aliases.
erase_sources(g, ids) ==
    LET left == {f \in {[f EXCEPT !.evidence = Spared(@, ids)] : f \in g.facts} : f.evidence # {}}
        facts == {[f EXCEPT !.entities = @ \cap g.entities, !.causes = @ \cap Ids(left)] : f \in left}
        proofs(o) == {f \in facts : f.id \in o.facts}
        observations == {[o EXCEPT !.facts = @ \cap Ids(facts),
                                   !.memories = Memories(Proof(proofs(o)))] : o \in g.observations}
        mentions == {m \in g.mentions : m.evidence[1] \notin ids}
        mentioned == {m.entity : m \in mentions}
        relations == {[r EXCEPT !.evidence = Spared(@, ids)] : r \in g.relations} IN
    [mentions |-> mentions, aliases |-> {a \in g.aliases : a.entity \in mentioned},
     entities |-> g.entities \cap mentioned,
     relations |-> {r \in relations : r.evidence # {} /\ r.ends \subseteq mentioned},
     facts |-> facts, observations |-> {o \in observations : o.facts # {}}]

validate_state(g) ==
    /\ \A f \in g.facts : /\ f.evidence # {}
                          /\ \A e \in f.evidence : ScopeOf[e[1]] = f.id[1]
                          /\ f.entities \subseteq g.entities
                          /\ f.causes \subseteq Ids(g.facts)
    /\ \A o \in g.observations : /\ o.facts \subseteq Ids(g.facts)
                                 /\ o.freshness = "current" => o.facts # {}
    /\ \A r \in g.relations : /\ r.ends \subseteq g.entities
                              /\ r.evidence # {}
                              /\ \A e \in r.evidence : ScopeOf[e[1]] = r.id[1]
    /\ \A m \in g.mentions : m.entity \in g.entities

\* The triples of the RDF projection, rebuilt with every commit.
build_rdf_projection(g) ==
    {<<"entity", e>> : e \in g.entities}
    \cup (UNION {{<<"relation", r.id, end>> : end \in r.ends} : r \in g.relations})
    \cup (UNION {{<<"fact", f.id, "about", e>> : e \in f.entities} : f \in g.facts})
    \cup (UNION {{<<"fact", f.id, "causedBy", c>> : c \in f.causes} : f \in g.facts})
    \cup (UNION {{<<"fact", f.id, "evidenceSource", s>> : s \in Memories(f.evidence)} : f \in g.facts})
    \cup (UNION {{<<"observation", o.id, "supportedBy", f>> : f \in o.facts} : o \in g.observations})
-----------------------------------------------------------------------------
(* What a caller may read.                                                 *)

\* A memory that is there, current, and visible to the caller.
graph_source_snapshot(caller, s) ==
    memory[s] > 0 /\ s \notin expired /\ ScopeOf[s] \in SeesScope[caller]
graph_evidence_current(caller, e) == graph_source_snapshot(caller, e[1]) /\ memory[e[1]] = e[2]
AnyCurrent(caller, evidence) == \E e \in evidence : graph_evidence_current(caller, e)
graph_entity_current(g, caller, e) ==
    \E m \in g.mentions : m.entity = e /\ graph_evidence_current(caller, m.evidence)

EligibleEntities(g, caller) ==
    {m.entity : m \in {m \in g.mentions : ScopeOf[m.evidence[1]] = m.entity[1]
                                          /\ graph_evidence_current(caller, m.evidence)}}

\* A deliberately wrong variant: the ends of a relation need not be eligible.
EligibleByEvidence(g, caller) == {r \in g.relations : AnyCurrent(caller, r.evidence)}

EligibleRelations(g, caller) ==
    LET entities == EligibleEntities(g, caller)
    IN {r \in g.relations : r.ends \subseteq entities /\ AnyCurrent(caller, r.evidence)}
EligibleFacts(g, caller) == {f \in g.facts : AnyCurrent(caller, f.evidence)}
EligibleObservations(g, caller) ==
    LET facts == Ids(EligibleFacts(g, caller))
    IN {o \in g.observations : o.freshness = "current" /\ o.facts # {} /\ o.facts \cap facts # {}}

\* One search from an entity to the next: so many relations, in their order,
\* of those that are eligible.
TheFirst(n, relations) ==
    {r \in relations : Cardinality({q \in relations : Before(<<q.id[2], q.id[3]>>,
                                                             <<r.id[2], r.id[3]>>)}) < n}

\* A deliberately wrong variant: the relations are counted before they are
\* looked at.
fanout_first(g, eligible, e) ==
    TheFirst(MaxFanout, {r \in g.relations : e \in r.ends}) \cap eligible

fanout(g, eligible, e) ==
    TheFirst(MaxFanout, {r \in g.relations : r \in eligible /\ e \in r.ends})

\* A query is what it matches: entities by their names, aliases of entities,
\* relations by their predicates, quotes of the evidence of relations, facts and
\* observations.  A search starts at the eligible entities it matches, whichever
\* memory gave the alias, and at the eligible ends of the eligible relations, whose
\* evidence is not looked at.
entity_scores(g, caller, query) ==
    EligibleEntities(g, caller) \cap
        (query.entities \cup {a.entity : a \in g.aliases \cap query.aliases}
         \cup UNION {r.ends : r \in {r \in EligibleRelations(g, caller) :
                \/ r.id \in query.relations
                \/ \E e \in r.evidence : <<r.id, e>> \in query.quotes}})

\* Breadth first, with the relations of what was reached.
search_learning(g, caller, query) ==
    LET eligible == EligibleRelations(g, caller)
        next(reached) ==
            reached \cup UNION {UNION {r.ends : r \in fanout(g, eligible, e)} : e \in reached}
        reached[d \in 0 .. MaxDepth] == IF d = 0 THEN entity_scores(g, caller, query)
                                        ELSE next(reached[d - 1])
        found == reached[MaxDepth]
    IN [entities |-> found,
        relations |-> UNION {fanout(g, eligible, e) : e \in found},
        facts |-> {f \in EligibleFacts(g, caller) : f.id \in query.facts},
        observations |-> {o \in EligibleObservations(g, caller) : o.id \in query.observations}]

\* The memories behind an answer: those a caller may see, as they are now.
active_provenance(caller, evidence) ==
    Memories({e \in evidence : graph_evidence_current(caller, e)})
entity_provenance(g, caller, entity) ==
    active_provenance(caller, {m.evidence : m \in {m \in g.mentions : m.entity = entity}})
observation_provenance(g, caller, o) ==
    active_provenance(caller, Proof({f \in g.facts : f.id \in o.facts}))

\* What is found is answered with its provenance, and left out without any; each
\* item also brings up a memory, the first of its provenance.
Proven(items, provenance(_)) ==
    {<<i, provenance(i)>> : i \in {i \in items : provenance(i) # {}}}
graph_search(g, caller, query) ==
    LET found == search_learning(g, caller, query)
        bound(r) == \A e \in r.ends : graph_entity_current(g, caller, e)
        ofEntity(e) == entity_provenance(g, caller, e)
        ofRecord(r) == active_provenance(caller, r.evidence)
        ofObservation(o) == observation_provenance(g, caller, o)
        entities == Proven(found.entities, ofEntity)
        facts == Proven(found.facts, ofRecord)
        observations == Proven(found.observations, ofObservation)
    IN [entities |-> entities,
        relations |-> {<<p[1].id, p[2]>> : p \in Proven({r \in found.relations : bound(r)}, ofRecord)},
        facts |-> {<<p[1].id, p[2]>> : p \in facts},
        observations |-> {<<p[1].id, p[2]>> : p \in observations},
        memories |-> {Min(p[2]) : p \in entities} \cup {Min(p[2]) : p \in facts}
                     \cup {Min(p[2]) : p \in observations}]

\* The graph's channel of the retrieval of memories.
graph_ranked_memory_ids(g, caller, query) == graph_search(g, caller, query).memories

\* What the status counts.
graph_status(g, caller) ==
    [entities |-> {m.entity : m \in {m \in g.mentions : graph_evidence_current(caller, m.evidence)}},
     relations |-> Ids({r \in g.relations : /\ \A e \in r.ends : graph_entity_current(g, caller, e)
                                           /\ AnyCurrent(caller, r.evidence)}),
     facts |-> Ids({f \in g.facts : AnyCurrent(caller, f.evidence)}),
     observations |-> Ids({o \in g.observations : o.freshness = "current" /\ o.facts # {}
            /\ \E f \in g.facts : f.id \in o.facts /\ AnyCurrent(caller, f.evidence)})]

\* The pages of an export, one after the other, while nothing changes.
graph_export(g, caller) ==
    LET entities == {e \in g.entities : graph_entity_current(g, caller, e)}
        relations == {r \in g.relations : /\ \A e \in r.ends : graph_entity_current(g, caller, e)
                                         /\ AnyCurrent(caller, r.evidence)}
        facts == {f \in g.facts : AnyCurrent(caller, f.evidence)}
        observations == {o \in g.observations : o.freshness = "current" /\ o.facts # {}
            /\ \E f \in g.facts : f.id \in o.facts /\ AnyCurrent(caller, f.evidence)}
    IN [entities |-> {<<e, entity_provenance(g, caller, e)>> : e \in entities},
        relations |-> {<<r.id, active_provenance(caller, r.evidence)>> : r \in relations},
        facts |-> {<<f.id, active_provenance(caller, f.evidence)>> : f \in facts},
        observations |-> {<<o.id, observation_provenance(g, caller, o)>> : o \in observations}]
-----------------------------------------------------------------------------
Init ==
    /\ graph = EmptyGraph
    /\ memory = [s \in Sources |-> 1]
    /\ expired = {} /\ erased = {} /\ steps = 0

Step == steps < MaxSteps /\ steps' = steps + 1

\* A run is committed when its memories are still as they were read, and when
\* its caller may see them.
validate_graph_bindings(caller, sources) ==
    sources # {} /\ \A s \in sources : graph_source_snapshot(caller, s)

commit_state(g) == validate_state(g) /\ graph' = g

upsert_learning(x) == commit_state(apply_upsert(graph, x))

graph_upsert_candidates(caller, x) ==
    /\ Step
    /\ validate_graph_bindings(caller, x.sources)
    /\ upsert_learning(x)
    /\ UNCHANGED <<memory, expired, erased>>

\* A memory changes only after the graph has given up what came from it.
erase_graph_sources(s) ==
    /\ memory[s] > 0
    /\ commit_state(erase_sources(graph, {s}))
    /\ erased' = erased \cup {<<s, memory[s]>>}

update(s) ==
    /\ Step
    /\ erase_graph_sources(s)
    /\ memory[s] < MaxVersion
    /\ memory' = [memory EXCEPT ![s] = @ + 1]
    /\ expired' \in {expired, expired \ {s}}

\* Where the graph holds anything that came from a memory.
scopes_for_source_ids(s) ==
    {m.entity[1] : m \in {m \in graph.mentions : m.evidence[1] = s}}
    \cup {r.id[1] : r \in {r \in graph.relations \cup graph.facts : s \in Memories(r.evidence)}}
    \cup {o.id[1] : o \in {o \in graph.observations : s \in o.memories}}
ensure_graph_source_visibility(caller, s) == scopes_for_source_ids(s) \subseteq SeesScope[caller]

delete(caller, s) ==
    /\ Step
    /\ ScopeOf[s] \in SeesScope[caller]
    /\ ensure_graph_source_visibility(caller, s)
    /\ erase_graph_sources(s)
    /\ memory' = [memory EXCEPT ![s] = 0]
    /\ expired' = expired \ {s}

\* Time passes, or the code a memory is anchored to changes.
Expire(s) ==
    /\ Step
    /\ memory[s] > 0 /\ s \notin expired
    /\ expired' = expired \cup {s}
    /\ UNCHANGED <<graph, memory, erased>>

\* "review" and "edit" change what an observation says, not what it rests on.
act_on_observation(o, action) ==
    /\ action = "restore" => o.facts # {} /\ o.facts \subseteq Ids(graph.facts)
    /\ commit_state([graph EXCEPT !.observations = Put(@,
            [o EXCEPT !.freshness = IF action = "restore" THEN "current" ELSE "invalidated"])])

\* A restore needs a memory that the caller sees and that still proves a fact.
graph_observation_action(caller, o, action) ==
    /\ Step
    /\ o.id[1] \in SeesScope[caller]
    /\ action = "restore" => observation_provenance(graph, caller, o) # {}
    /\ act_on_observation(o, action)
    /\ UNCHANGED <<memory, expired, erased>>

Next ==
    \/ \E caller \in Callers, x \in Extractions : graph_upsert_candidates(caller, x)
    \/ \E s \in Sources : update(s) \/ Expire(s) \/ \E caller \in Callers : delete(caller, s)
    \/ \E caller \in Callers, o \in graph.observations, action \in {"invalidate", "restore"} :
            graph_observation_action(caller, o, action)

Spec == Init /\ [][Next]_vars
-----------------------------------------------------------------------------
\* The records are of their types, the graph is a state that can be saved, and
\* no entity is mentioned from another scope than its own.
TypeOK ==
    /\ memory \in [Sources -> 0 .. MaxVersion]
    /\ expired \subseteq Sources /\ erased \subseteq Evidence /\ steps \in 0 .. MaxSteps
    /\ graph.entities \subseteq Entities
    /\ graph.mentions \subseteq [entity : Entities, evidence : Evidence]
    /\ \A m \in graph.mentions : ScopeOf[m.evidence[1]] = m.entity[1]
    /\ \A records \in {graph.relations, graph.facts, graph.observations} :
          Cardinality(Ids(records)) = Cardinality(records)
    /\ \A r \in graph.relations \cup graph.facts :
          r.evidence \subseteq Evidence /\ Cardinality(r.evidence) <= MAX_GRAPH_EVIDENCE
    /\ \A o \in graph.observations : o.freshness \in {"current", "retired", "invalidated"}
    /\ validate_state(graph)

\* Once the change or the removal of a memory was acknowledged, nothing in the
\* graph rests on the version that is gone: no mention, relation or fact, nor,
\* for a memory that was deleted, an observation that names it or a triple.
NoTraceOfErased ==
    /\ \A e \in erased :
          /\ \A m \in graph.mentions : m.evidence # e
          /\ \A r \in graph.relations \cup graph.facts : e \notin r.evidence
    /\ \A o \in graph.observations :
          o.memories = Memories(Proof({f \in graph.facts : f.id \in o.facts}))
    /\ \A s \in Sources, f \in Ids(graph.facts) :
          memory[s] = 0 => <<"fact", f, "evidenceSource", s>> \notin build_rdf_projection(graph)

\* What a user has taken back, or a later statement has replaced, does not count
\* again, whatever is extracted or changes, until someone restores it who can see
\* a memory that proves it.  It is forgotten only with the change or the removal of
\* the one memory it still rested on (erase_sources); learned again, it is new.
JudgementHolds ==
    [][\A o \in {o \in graph.observations : o.freshness # "current"} :
          \/ \E p \in graph'.observations : p.id = o.id /\ p.freshness # "current"
          \/ /\ [o EXCEPT !.freshness = "current"] \in graph'.observations
             /\ \E caller \in Callers : o.id[1] \in SeesScope[caller]
                                        /\ observation_provenance(graph, caller, o) # {}
          \/ /\ o.id \notin Ids(graph'.observations)
             /\ \E s \in Sources : o.memories = {s} /\ memory'[s] # memory[s]]_vars

\* The graph with nothing in it that the caller may not see now.
VisibleTo(g, caller) ==
    LET current(evidence) == {e \in evidence : graph_evidence_current(caller, e)}
        mentions == {m \in g.mentions : graph_evidence_current(caller, m.evidence)} IN
    [g EXCEPT !.mentions = mentions,
              !.aliases = {a \in g.aliases : graph_evidence_current(caller, a.evidence)},
              !.entities = {m.entity : m \in mentions},
              !.relations = {[r EXCEPT !.evidence = current(@)] : r \in
                                {r \in g.relations : current(r.evidence) # {}
                                    /\ r.ends \subseteq {m.entity : m \in mentions}}},
              !.facts = {[f EXCEPT !.evidence = current(@)] : f \in
                                {f \in g.facts : current(f.evidence) # {}}}]

\* Words of the graph, which the caller may not see, are matched by the query.
MatchesHidden(caller, query) ==
    \/ \E a \in graph.aliases \cap query.aliases : ~graph_evidence_current(caller, a.evidence)
    \/ \E r \in graph.relations : \E e \in r.evidence :
          <<r.id, e>> \in query.quotes /\ ~graph_evidence_current(caller, e)

\* Queries that match one thing of the graph, or all its facts and observations.
Queries ==
    LET nothing == [entities |-> {}, aliases |-> {}, relations |-> {}, quotes |-> {},
                    facts |-> {}, observations |-> {}] IN
    {[nothing EXCEPT !.facts = Ids(graph.facts), !.observations = Ids(graph.observations)]}
    \cup {[nothing EXCEPT !.entities = {e}] : e \in graph.entities}
    \cup {[nothing EXCEPT !.aliases = {a}] : a \in graph.aliases}
    \cup {[nothing EXCEPT !.relations = {r.id}] : r \in graph.relations}
    \cup UNION {{[nothing EXCEPT !.quotes = {<<r.id, e>>}] : e \in r.evidence} : r \in graph.relations}

\* What a caller may not see (memories of other sessions, expired ones, stale
\* evidence) neither shows in an answer nor takes the place of anything, at any
\* depth of the search.  It may choose where a search starts: words of hidden
\* memories are matched, too; but the caller is told no more than if it had named
\* these entities itself, and a query that matches no hidden words is answered as
\* if nothing hidden were in the graph.
SearchIsolated ==
    \A caller \in Callers : LET visible == VisibleTo(graph, caller) IN \A query \in Queries :
        LET answer == graph_search(graph, caller, query)
            named == [query EXCEPT !.entities = entity_scores(graph, caller, query),
                                   !.aliases = {}, !.relations = {}, !.quotes = {}] IN
        /\ answer = graph_search(visible, caller, named)
        /\ ~MatchesHidden(caller, query) => answer = graph_search(visible, caller, query)

\* The three readings of the graph, each with its own code, agree on what a
\* caller may see, and all that is exported is proved by a memory.
ReadsAgree ==
    \A caller \in Callers :
        LET exported == graph_export(graph, caller)
            everything == [part \in DOMAIN exported |-> {i[1] : i \in exported[part]}] IN
        /\ everything = graph_status(graph, caller)
        /\ everything = [entities |-> EligibleEntities(graph, caller),
                         relations |-> Ids(EligibleRelations(graph, caller)),
                         facts |-> Ids(EligibleFacts(graph, caller)),
                         observations |-> Ids(EligibleObservations(graph, caller))]
        /\ \A part \in DOMAIN exported : \A i \in exported[part] : i[2] # {}

\* Memories may always be erased from the graph, as the documentation says of
\* every operation that removes or replaces one.
EraseAllowed ==
    \A ids \in SUBSET {s \in Sources : memory[s] > 0} : validate_state(erase_sources(graph, ids))
=============================================================================

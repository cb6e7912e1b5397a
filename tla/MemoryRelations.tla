--------------------------- MODULE MemoryRelations ---------------------------
(***************************************************************************)
(* The lifecycle relations between memories, as state.json keeps them      *)
(* (src/src/storage/state.rs) and as the engine rewrites them              *)
(* (src/src/engine/mod.rs).  A record carries both directions of every     *)
(* relation: who superseded it, whom it supersedes, with whom it           *)
(* conflicts.  The operators here are pure: they take a map of records and *)
(* return one.                                                             *)
(*                                                                         *)
(* Abstraction.  A metadata record keeps the three relation fields and the *)
(* lock; scope, taxonomy, confidence, expiry, feedback and code anchors do *)
(* not take part in any of the properties.  Relation lists are sets:       *)
(* normalize_relations deduplicates and sorts them on every save.          *)
(***************************************************************************)
EXTENDS Naturals

CONSTANTS Id,          \* memory ids; ordered, because recovery sorts them
          NoId,        \* "superseded_by is None"
          Version      \* the parts of a document that are not its identity

ASSUME IdAssumption == Id \subseteq Nat /\ NoId \notin Id

Meta == [by : Id \cup {NoId}, sup : SUBSET Id, conf : SUBSET Id,
         locked : BOOLEAN]

\* A map from some of the ids to values of S: the records of the stored
\* memories, the journal, the collection.
IsMap(f, S) == DOMAIN f \subseteq Id /\ f \in [DOMAIN f -> S]

\* One journaled upsert.
Pending == [ver : Version, meta : Meta, pred : SUBSET Id, revive : BOOLEAN]

is_superseded(m) == m.by # NoId
-----------------------------------------------------------------------------
(***************************************************************************)
(* MemoryState::validate_relations.                                        *)
(***************************************************************************)

NoDangling(r) ==
    \A x \in DOMAIN r :
        /\ r[x].sup \subseteq DOMAIN r
        /\ r[x].conf \subseteq DOMAIN r
        /\ r[x].by # NoId => r[x].by \in DOMAIN r

Symmetric(r) ==
    \A x \in DOMAIN r :
        /\ \A y \in r[x].sup : r[y].by = x
        /\ r[x].by # NoId => x \in r[r[x].by].sup
        /\ \A y \in r[x].conf : x \in r[y].conf

\* detect_supersession_cycles: no set of records in which every member was
\* superseded by another member.  SupersessionWalk compares this with the
\* bounded walk that the code performs.
Acyclic(r) ==
    \A C \in SUBSET DOMAIN r :
        C # {} => \E x \in C : r[x].by \notin C

\* MemoryMetadata::validate: no record is related to itself.
ValidMeta(x, m) == x \notin m.sup /\ m.by # x /\ x \notin m.conf

\* The part of MemoryState::validate that is about the records.
validate_relations(r) ==
    /\ \A x \in DOMAIN r : ValidMeta(x, r[x])
    /\ NoDangling(r)
    /\ Symmetric(r)
    /\ Acyclic(r)
-----------------------------------------------------------------------------
(***************************************************************************)
(* remove_state_record: unlink a record from its conflicts and splice it   *)
(* out of its supersession chain.                                          *)
(***************************************************************************)
\* A deliberately wrong variant: the chain is cut at the removed record.
remove_without_splice(r, d) ==
    IF d \notin DOMAIN r THEN r
    ELSE [x \in DOMAIN r \ {d} |->
            [r[x] EXCEPT
               !.conf = IF x \in r[d].conf THEN @ \ {d} ELSE @,
               !.by   = IF x \in r[d].sup /\ @ = d THEN NoId ELSE @,
               !.sup  = IF x = r[d].by THEN (@ \ {d}) \cup r[d].sup ELSE @]]

remove_state_record(r, d) ==
    IF d \notin DOMAIN r THEN r
    ELSE [x \in DOMAIN r \ {d} |->
            [r[x] EXCEPT
               !.conf = IF x \in r[d].conf THEN @ \ {d} ELSE @,
               !.by   = IF x \in r[d].sup /\ @ = d THEN r[d].by ELSE @,
               !.sup  = IF x = r[d].by THEN (@ \ {d}) \cup r[d].sup ELSE @]]
-----------------------------------------------------------------------------
(***************************************************************************)
(* apply_pending_upserts_to_state: install a journaled batch.  "order"     *)
(* gives every id of the batch its place in the walk: the place in the     *)
(* request when the batch is committed, the id itself when it is recovered *)
(* (recover_pending_upserts sorts the ids).                                *)
(***************************************************************************)
Batch(order) == DOMAIN order

\* The conflicts a new version of i no longer lists.
Dropped(r, j, i) ==
    (IF i \in DOMAIN r THEN r[i].conf ELSE {}) \ j[i].meta.conf

\* First loop: every target is installed, and leaves the conflict lists of the
\* records it no longer conflicts with.
Install(r, j, order) ==
    LET B == Batch(order) IN
    [x \in DOMAIN r \cup B |->
        IF x \in B
        THEN [j[x].meta EXCEPT
                !.conf = @ \ {i \in B : /\ order[x] < order[i]
                                        /\ x \in Dropped(r, j, i)}]
        ELSE [r[x] EXCEPT !.conf = @ \ {i \in B : x \in Dropped(r, j, i)}]]

\* Second loop: the predecessors' and the conflict targets' side.
Link(r, j, order) ==
    LET B == Batch(order)
        claims(x) == {i \in B : x \in j[i].pred}
        last(x) == CHOOSE i \in claims(x) :
                       \A k \in claims(x) : order[k] <= order[i]
    IN [x \in DOMAIN r |->
          [r[x] EXCEPT
             !.by   = IF claims(x) # {} THEN last(x) ELSE @,
             !.conf = @ \cup {i \in B : x \in j[i].meta.conf}]]

apply_pending_upserts(r, j, order) == Link(Install(r, j, order), j, order)

\* The two "?" exits of apply_pending_upserts_to_state.
AppliesCleanly(r, j, order) ==
    \A i \in Batch(order) :
        /\ j[i].pred = j[i].meta.sup
        /\ j[i].pred \cup j[i].meta.conf \subseteq DOMAIN r \cup Batch(order)

\* PendingUpsert::validate.
ValidPending(j) ==
    \A i \in DOMAIN j : i \notin j[i].pred /\ ValidMeta(i, j[i].meta)

\* The batch is applied and the result is a state that save() accepts.
Replays(r, j, order) ==
    /\ AppliesCleanly(r, j, order)
    /\ validate_relations(apply_pending_upserts(r, j, order))
    /\ ValidPending(j)
=============================================================================

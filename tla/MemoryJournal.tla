---------------------------- MODULE MemoryJournal ----------------------------
(***************************************************************************)
(* The store of one project: MemoryEngine (src/src/engine/mod.rs) over its *)
(* two durable parts, the zvec collection of documents and the lifecycle   *)
(* state in state.json (src/src/storage/state.rs).  No transaction spans   *)
(* the two: every mutation writes its intent to state.json, changes the    *)
(* collection, and then applies and retires the intent.  Opening the       *)
(* engine replays what an earlier process left behind.                     *)
(*                                                                         *)
(* Every durable write is a step of its own, and between any two of them   *)
(* the process may crash (Crash) or the write may fail with an error that  *)
(* the caller sees while the engine stays open (the "Fails" actions).  An  *)
(* operation the code refuses changes nothing and is not a step.           *)
(***************************************************************************)
EXTENDS SupersessionWalk

CONSTANTS fingerprint,   \* memory_fingerprint: equal up to white space
          Snapshots,     \* what memory_import may be given
          MaxOps,        \* bound: client operations begun
          MaxCrashes,    \* bound: crashes
          MaxFaults      \* bound: failed durable writes

ASSUME BoundAssumption ==
    MaxOps \in Nat /\ MaxCrashes \in Nat /\ MaxFaults \in Nat

Fingerprints == {fingerprint[i] : i \in Id}

ASSUME SnapshotAssumption ==
    \A s \in Snapshots :
        /\ IsMap(s.memories, Pending)
        /\ s.order \in [DOMAIN s.memories -> Nat]
        /\ s.tombstones \subseteq Fingerprints

VARIABLES
    mem,      \* MemoryEngine.state
    disk,     \* state.json
    docs,     \* the zvec collection: id |-> version of its document
    pc,       \* where the engine is between two durable writes
    cur,      \* the operation in progress
    owed,     \* ghost: what the engine owes its callers about each id
    orphans,  \* ghost: records whose documents a purge removed
    refused,  \* ghost: a batch was left journaled by an open engine
    ops, crashes, faults

ghosts == <<owed, orphans>>
vars == <<mem, disk, docs, pc, cur, ghosts, ops, refused, crashes, faults>>

EmptyMap == [i \in {} |-> NoId]

IsState(s) ==
    /\ s = [records |-> s.records, tombs |-> s.tombs, pdel |-> s.pdel,
            pups |-> s.pups]
    /\ IsMap(s.records, Meta)
    /\ s.tombs \subseteq Fingerprints
    /\ s.pdel \subseteq Id
    /\ IsMap(s.pups, Pending)

EmptyState == [records |-> EmptyMap, tombs |-> {}, pdel |-> {},
               pups |-> EmptyMap]

\* The locals of a handler that outlive a durable write: the batch being
\* upserted, the tombstones a snapshot brings, the ids to delete (those an
\* ingest leaves stale are deleted once its batch is in) and those of them
\* that were found, and whether a purge keeps the tombstones.
IsOperation(c) ==
    /\ c = [order |-> c.order, imported |-> c.imported, erase |-> c.erase,
            found |-> c.found, keep |-> c.keep]
    /\ IsMap(c.order, Nat)
    /\ c.imported \subseteq Fingerprints
    /\ c.erase \subseteq Id
    /\ c.found \subseteq Id
    /\ c.keep \in BOOLEAN

NoOperation == [order |-> EmptyMap, imported |-> {}, erase |-> {},
                found |-> {}, keep |-> FALSE]

Phases == {"closed", "recover_write", "recover_finalize", "recover_erase",
           "recover_remove", "recover_save", "idle", "journaled", "written", "tombstones",
           "delete", "erasing", "removing", "delete_save", "purging",
           "purged"}

\* A version: the last commit of this id.  "kept": it was committed, and a
\* later upsert of it has not been answered.  "gone": its delete was
\* acknowledged.  "open": nothing was promised.
Debts == Version \cup {"kept", "gone", "open"}

\* No version is mistaken for one of the other debts.
ASSUME DebtAssumption == Version \cap {"kept", "gone", "open"} = {}

TypeOK ==
    /\ IsState(mem)
    /\ IsState(disk)
    /\ IsMap(docs, Version)
    /\ pc \in Phases
    /\ IsOperation(cur)
    /\ owed \in [Id -> Debts]
    /\ orphans \in SUBSET Id
    /\ refused \in BOOLEAN
    /\ ops \in 0 .. MaxOps
    /\ crashes \in 0 .. MaxCrashes
    /\ faults \in 0 .. MaxFaults

Init ==
    /\ mem = EmptyState
    /\ disk = EmptyState
    /\ docs = EmptyMap
    /\ pc = "closed"
    /\ cur = NoOperation
    /\ owed = [i \in Id |-> "open"]
    /\ orphans = {}
    /\ refused = FALSE
    /\ ops = 0 /\ crashes = 0 /\ faults = 0
-----------------------------------------------------------------------------
(***************************************************************************)
(* Durable writes.                                                         *)
(***************************************************************************)

\* MemoryState::validate.
Valid(s) == validate_relations(s.records) /\ ValidPending(s.pups)

\* MemoryState::save: validate, write a temporary file, rename it.
save_state(s) == Valid(s) /\ disk' = s /\ UNCHANGED faults

\* save fails before the rename, or after it (sync_parent): the caller sees
\* the same error and cannot tell which file is on disk.
save_fails(s) ==
    /\ faults < MaxFaults
    /\ faults' = faults + 1
    /\ disk' = disk \/ (Valid(s) /\ disk' = s)

\* Some documents of a batch reached the collection.
Upserted(W, j) ==
    [i \in DOMAIN docs \cup W |-> IF i \in W THEN j[i].ver ELSE docs[i]]

Without(W) == [i \in DOMAIN docs \ W |-> docs[i]]

\* A deliberately wrong variant: a rejected document is taken for written.
WriteRejected(j, B) == UNCHANGED <<docs, faults>>

\* write_pending_documents: upsert and flush.
WriteDocuments(j, B) == docs' = Upserted(B, j) /\ UNCHANGED faults

WriteDocumentsFails(j, B) ==
    /\ faults < MaxFaults
    /\ faults' = faults + 1
    /\ \E W \in SUBSET B : docs' = Upserted(W, j)

\* A deliberately wrong variant: a rejected delete is taken for done.
DeleteRejected(F) == UNCHANGED <<docs, faults>>

\* collection.delete and flush.
DeleteDocuments(F) == docs' = Without(F) /\ UNCHANGED faults

DeleteDocumentsFails(F) ==
    /\ faults < MaxFaults
    /\ faults' = faults + 1
    /\ \E W \in SUBSET F : docs' = Without(W)

\* What is owed about the ids of an operation that is not answered yet.
Suspend(B) ==
    [i \in Id |-> IF i \notin B THEN owed[i]
                  ELSE IF owed[i] \in Version \cup {"kept"} THEN "kept"
                  ELSE "open"]

Settle(B, what) == [i \in Id |-> IF i \in B THEN what[i] ELSE owed[i]]

Option(S) == {<<>>} \cup {<<x>> : x \in S}   \* None, or Some(x)
-----------------------------------------------------------------------------
(***************************************************************************)
(* Upserts.                                                                *)
(***************************************************************************)
Active(i) ==
    i \in DOMAIN docs \cap DOMAIN mem.records /\ ~is_superseded(mem.records[i])

\* The refusals of prepare_store_upsert.
MayStore(i, revive) ==
    /\ fingerprint[i] \in mem.tombs => revive
    /\ i \in DOMAIN docs => Active(i) /\ ~mem.records[i].locked

\* prepare_store_upsert: a document that exists hands its relations on.
PreparedStore(i, v, preds, conflicts, revive) ==
    LET old == IF i \in DOMAIN docs THEN mem.records[i]
               ELSE [sup |-> {}, conf |-> {}]
    IN [ver |-> v,
        meta |-> [by |-> NoId,
                  sup |-> IF preds = {} THEN old.sup ELSE preds,
                  conf |-> IF conflicts = {} THEN old.conf ELSE conflicts,
                  locked |-> FALSE],
        pred |-> preds, revive |-> revive]

\* A deliberately wrong variant: the batch is not tried before it is journaled.
AdmissibleUntried(j, order) ==
    DOMAIN j # {} /\ DOMAIN j \cap DOMAIN mem.pups = {}

\* The prospective check of commit_pending_upserts: no id is already in the
\* journal, and the batch applied to a copy of the state is valid.
Admissible(j, order) ==
    /\ DOMAIN j # {}
    /\ DOMAIN j \cap DOMAIN mem.pups = {}
    /\ Replays(mem.records, j, order)

\* commit_pending_upserts up to the first durable write: the journal.
commit_pending_upserts(j, order, imported, stale) ==
    LET s == [mem EXCEPT !.pups = [i \in DOMAIN @ \cup DOMAIN j |->
                                     IF i \in DOMAIN j THEN j[i] ELSE @[i]]]
    IN /\ pc = "idle"
       /\ ops < MaxOps
       /\ Admissible(j, order)
       /\ \/ /\ save_state(s)
             /\ mem' = s
             /\ pc' = "journaled"
             /\ cur' = [NoOperation EXCEPT !.order = order,
                                           !.imported = imported,
                                           !.erase = stale]
          \/ /\ save_fails(s)
             /\ UNCHANGED <<mem, pc, cur>>
       /\ owed' = Suspend(DOMAIN j)
       /\ ops' = ops + 1
       /\ UNCHANGED <<docs, orphans, refused, crashes>>

Store(i, v, revive) ==
    /\ MayStore(i, revive)
    /\ commit_pending_upserts([x \in {i} |-> PreparedStore(i, v, {}, {}, revive)],
                              [x \in {i} |-> 1], {}, {})

\* validate_conflict_targets.
ConflictTargetsAllowed(i, conflicts) ==
    \A t \in conflicts \cup (IF i \in DOMAIN mem.records
                             THEN mem.records[i].conf ELSE {}) :
        /\ t # i
        /\ t \in DOMAIN mem.records
        /\ ~mem.records[t].locked
        /\ ~is_superseded(mem.records[t])

\* validate_capture_targets.
CaptureTargetsAllowed(i, preds, conflicts) ==
    /\ ConflictTargetsAllowed(i, conflicts)
    /\ \A t \in preds :
        /\ t # i
        /\ t \notin conflicts
        /\ t \in DOMAIN mem.records
        /\ ~mem.records[t].locked
        /\ ~is_superseded(mem.records[t])

\* capture: a duplicate of an active memory is skipped; the other outcomes of
\* the gate that store nothing are no steps.
Capture(i, v, preds, conflicts, revive) ==
    /\ ~Active(i)
    /\ CaptureTargetsAllowed(i, preds, conflicts)
    /\ MayStore(i, revive)
    /\ commit_pending_upserts(
           [x \in {i} |-> PreparedStore(i, v, preds, conflicts, revive)],
           [x \in {i} |-> 1], {}, {})

\* ingest: the chunks of a document, then the chunks an older version of the
\* document left behind.
Ingest(chunks, v, stale, revive) ==
    /\ \A i \in chunks : MayStore(i, revive)
    /\ stale \cap chunks = {}
    /\ stale \subseteq DOMAIN docs
    /\ commit_pending_upserts(
           [i \in chunks |-> PreparedStore(i, v, {}, {}, revive)],
           [i \in chunks |-> i], {}, stale)

\* import_snapshot: relations are taken from the snapshot as they are.
Import(s) ==
    /\ \A i \in DOMAIN s.memories :
        /\ s.memories[i].meta.sup \cup s.memories[i].meta.conf
              \subseteq DOMAIN mem.records \cup DOMAIN s.memories
        /\ i \in DOMAIN mem.records => ~mem.records[i].locked
    /\ commit_pending_upserts(s.memories, s.order, s.tombstones, {})

\* What update and commit_update build: i changes in place, or becomes a new
\* memory n that supersedes it.
UpdatedMemory(i, n, v, conflicts, lock) ==
    LET old == mem.records[i]
    IN [ver |-> v,
        meta |-> [by |-> NoId,
                  sup |-> IF n # i THEN {i} ELSE old.sup,
                  conf |-> IF conflicts = <<>> THEN old.conf ELSE conflicts[1],
                  locked |-> lock],
        pred |-> IF n # i THEN {i} ELSE {},
        revive |-> FALSE]

MayUpdate(i, n, conflicts) ==
    /\ Active(i)
    /\ ~mem.records[i].locked
    /\ conflicts # <<>> => ConflictTargetsAllowed(i, conflicts[1])
    /\ fingerprint[n] \notin mem.tombs
    /\ n # i => n \notin DOMAIN docs

Update(i, n, v, conflicts, lock) ==
    /\ MayUpdate(i, n, conflicts)
    /\ commit_pending_upserts(
           [x \in {n} |-> UpdatedMemory(i, n, v, conflicts, lock)],
           [x \in {n} |-> 1], {}, {})

\* erase_graph_sources may refuse, without any fault: the graph does when what
\* would be left of it is not valid (EraseAllowed of GraphEvidence).  Whether it
\* does is a choice here.
GraphRefuses == UNCHANGED <<docs, faults>>

\* invalidate_graph_sources_for_upserts: the sources are what the batch
\* supersedes and rewrites; without any there is nothing to refuse.
UpsertRefused(j, B) ==
    (\E i \in B : j[i].pred # {} \/ i \in DOMAIN docs) /\ GraphRefuses

\* commit_pending_upserts: the graph forgets the sources the batch changes, then
\* the documents are written.  When the graph refuses or a write fails the batch
\* stays journaled, and the engine goes on.
Write ==
    /\ pc = "journaled"
    /\ \/ /\ WriteDocuments(mem.pups, Batch(cur.order))
          /\ pc' = "written"
          /\ UNCHANGED <<cur, refused>>
       \/ /\ \/ WriteDocumentsFails(mem.pups, Batch(cur.order)) /\ UNCHANGED refused
             \/ UpsertRefused(mem.pups, Batch(cur.order)) /\ refused' = TRUE
          /\ pc' = "idle"
          /\ cur' = NoOperation
    /\ UNCHANGED <<mem, disk, ghosts, ops, crashes>>

\* A deliberately wrong variant: the batch is applied and stays journaled.
AppliedNotRetired(s, order) ==
    [s EXCEPT !.records = apply_pending_upserts(@, s.pups, order)]

\* The state once a batch of the journal is applied and retired.
Applied(s, order) ==
    [s EXCEPT !.records = apply_pending_upserts(@, s.pups, order),
              !.tombs = @ \ {fingerprint[i] :
                               i \in {k \in Batch(order) : s.pups[k].revive}},
              !.pups = [i \in DOMAIN @ \ Batch(order) |-> @[i]]]

AfterCommit ==
    IF cur.imported # {} THEN "tombstones"
    ELSE IF cur.erase # {} THEN "delete" ELSE "idle"

\* finalize_pending_upserts: apply and save, or keep the prepared state.
Finalize ==
    LET s == Applied(mem, cur.order)
        B == Batch(cur.order)
    IN /\ pc = "written"
       /\ \/ /\ save_state(s)
             /\ mem' = s
             /\ owed' = Settle(B, [i \in B |-> mem.pups[i].ver])
             /\ orphans' = orphans \ B
             /\ pc' = AfterCommit
             /\ cur' = IF AfterCommit = "idle" THEN NoOperation ELSE cur
          \/ /\ save_fails(s)
             /\ pc' = "idle"
             /\ cur' = NoOperation
             /\ UNCHANGED <<mem, ghosts>>
       /\ UNCHANGED <<docs, ops, refused, crashes>>

\* import_snapshot: the tombstones, after the memories.
ImportTombstones ==
    LET s == [mem EXCEPT !.tombs = @ \cup cur.imported]
    IN /\ pc = "tombstones"
       /\ save_state(s) \/ save_fails(s)
       /\ mem' = s
       /\ pc' = "idle"
       /\ cur' = NoOperation
       /\ UNCHANGED <<docs, ghosts, ops, refused, crashes>>
-----------------------------------------------------------------------------
(***************************************************************************)
(* update_lifecycle, behind memory_pin and memory_lock.                    *)
(***************************************************************************)
SetLocked(i, lock) ==
    LET s == [mem EXCEPT !.records[i].locked = lock]
    IN /\ pc = "idle"
       /\ ops < MaxOps
       /\ Active(i)
       /\ mem.records[i].locked # lock
       /\ \/ save_state(s) /\ mem' = s
          \/ save_fails(s) /\ UNCHANGED mem
       /\ ops' = ops + 1
       /\ UNCHANGED <<docs, pc, cur, ghosts, refused, crashes>>
-----------------------------------------------------------------------------
(***************************************************************************)
(* delete_internal.                                                        *)
(***************************************************************************)
Found(ids) == ids \cap DOMAIN docs

\* A deliberately wrong variant: ensure_delete_allowed is not called.
MayDeleteLocked(ids) == \A i \in Found(ids) : i \in DOMAIN mem.records

MayDelete(ids) ==
    \A i \in Found(ids) : i \in DOMAIN mem.records /\ ~mem.records[i].locked

\* A deliberately wrong variant: tombstones keyed by id.
IdTombstones(F) == F

\* A tombstone is keyed by the fingerprint of the memory's text.
Tombstones(F) == {fingerprint[i] : i \in F}

\* The intent is saved; when the save fails, memory keeps it all the same.
DeleteIntent(ids, tombstone) ==
    LET F == Found(ids)
        s == [mem EXCEPT !.tombs = IF tombstone
                                   THEN @ \cup Tombstones(F) ELSE @,
                         !.pdel = @ \cup F]
    IN /\ MayDelete(ids)
       /\ mem' = s
       /\ owed' = Settle(F, [i \in F |-> "open"])
       /\ \/ /\ save_state(s)
             /\ pc' = IF F = {} THEN "idle" ELSE "erasing"
             /\ cur' = IF F = {} THEN NoOperation
                       ELSE [NoOperation EXCEPT !.erase = F, !.found = F]
          \/ /\ save_fails(s)
             /\ pc' = "idle"
             /\ cur' = NoOperation
       /\ UNCHANGED <<docs, orphans, refused, crashes>>

Delete(ids, tombstone) ==
    /\ pc = "idle"
    /\ ops < MaxOps
    /\ ids # {}
    /\ DeleteIntent(ids, tombstone)
    /\ ops' = ops + 1

\* The stale chunks of an ingest are deleted.  A refusal, by a lock or by the
\* graph, is the ingest's error; it precedes the intent.
DeleteStale ==
    /\ pc = "delete"
    /\ \/ DeleteIntent(cur.erase, FALSE) /\ UNCHANGED ops
       \/ /\ pc' = "idle"
          /\ cur' = NoOperation
          /\ UNCHANGED <<mem, disk, docs, ghosts, ops, refused, crashes, faults>>

Erase ==
    /\ pc = "erasing"
    /\ \/ DeleteDocuments(cur.found) /\ pc' = "removing" /\ UNCHANGED cur
       \/ DeleteDocumentsFails(cur.found) /\ pc' = "idle" /\ cur' = NoOperation
    /\ UNCHANGED <<mem, disk, ghosts, ops, refused, crashes>>

\* A deliberately wrong variant: the record goes, its intent stays.
RemoveKeepsIntent(i) ==
    /\ pc \in {"removing", "recover_remove"}
    /\ i \in cur.erase
    /\ mem' = [mem EXCEPT !.records = remove_state_record(@, i)]
    /\ cur' = [cur EXCEPT !.erase = @ \ {i}]
    /\ pc' = IF cur.erase # {i} THEN pc
             ELSE IF pc = "removing" THEN "delete_save" ELSE "recover_save"
    /\ UNCHANGED <<disk, docs, ghosts, ops, refused, crashes, faults>>

\* One turn of the loop over the deleted ids.
Remove(i) ==
    /\ pc \in {"removing", "recover_remove"}
    /\ i \in cur.erase
    /\ mem' = [mem EXCEPT !.records = remove_state_record(@, i),
                          !.pdel = @ \ {i}]
    /\ cur' = [cur EXCEPT !.erase = @ \ {i}]
    /\ pc' = IF cur.erase # {i} THEN pc
             ELSE IF pc = "removing" THEN "delete_save" ELSE "recover_save"
    /\ UNCHANGED <<disk, docs, ghosts, ops, refused, crashes, faults>>

DeleteSave ==
    /\ pc = "delete_save"
    /\ \/ /\ save_state(mem)
          /\ owed' = Settle(cur.found, [i \in cur.found |-> "gone"])
       \/ save_fails(mem) /\ UNCHANGED owed
    /\ pc' = "idle"
    /\ cur' = NoOperation
    /\ UNCHANGED <<mem, docs, orphans, ops, refused, crashes>>
-----------------------------------------------------------------------------
(***************************************************************************)
(* purge: the documents, then the state.  No intent is saved in between.   *)
(***************************************************************************)
Purge(keep) ==
    /\ pc = "idle"
    /\ ops < MaxOps
    /\ pc' = "purging"
    /\ cur' = [NoOperation EXCEPT !.found = DOMAIN docs, !.keep = keep]
    /\ owed' = [i \in Id |-> "open"]
    /\ ops' = ops + 1
    /\ UNCHANGED <<mem, disk, docs, orphans, refused, crashes, faults>>

PurgeDocuments ==
    /\ pc = "purging"
    /\ \/ DeleteDocuments(cur.found) /\ pc' = "purged" /\ UNCHANGED cur
       \/ DeleteDocumentsFails(cur.found) /\ pc' = "idle" /\ cur' = NoOperation
    /\ orphans' = orphans \cup cur.found
    /\ UNCHANGED <<mem, disk, owed, ops, refused, crashes>>

PurgeState ==
    LET s == [EmptyState EXCEPT !.tombs = IF cur.keep THEN mem.tombs ELSE {}]
    IN /\ pc = "purged"
       /\ mem' = s
       /\ \/ /\ save_state(s)
             /\ owed' = [i \in Id |-> "gone"]
             /\ orphans' = {}
          \/ save_fails(s) /\ UNCHANGED ghosts
       /\ pc' = "idle"
       /\ cur' = NoOperation
       /\ UNCHANGED <<docs, ops, refused, crashes>>
-----------------------------------------------------------------------------
(***************************************************************************)
(* Opening the engine: load state.json, recover_pending_upserts, then      *)
(* recover_pending_deletes.  An error drops the engine, and the next open  *)
(* starts over.                                                            *)
(***************************************************************************)
Drop == pc' = "closed" /\ mem' = EmptyState /\ cur' = NoOperation

RecoverDeletesOf(s) ==
    IF s.pdel = {}
    THEN pc' = "idle" /\ cur' = NoOperation
    ELSE /\ pc' = "recover_erase"
         /\ cur' = [NoOperation EXCEPT !.erase = s.pdel,
                                       !.found = s.pdel \cap DOMAIN docs]

Open ==
    /\ pc = "closed"
    /\ mem' = disk
    /\ IF DOMAIN disk.pups = {}
       THEN RecoverDeletesOf(disk)
       ELSE /\ pc' = "recover_write"
            /\ cur' = [NoOperation EXCEPT
                         !.order = [i \in DOMAIN disk.pups |-> i]]
    /\ UNCHANGED <<disk, docs, ghosts, ops, refused, crashes, faults>>

RecoverWrite ==
    /\ pc = "recover_write"
    /\ \/ /\ WriteDocuments(mem.pups, DOMAIN mem.pups)
          /\ pc' = "recover_finalize"
          /\ UNCHANGED <<mem, cur>>
       \/ WriteDocumentsFails(mem.pups, DOMAIN mem.pups) /\ Drop
       \/ UpsertRefused(mem.pups, DOMAIN mem.pups) /\ Drop
    /\ UNCHANGED <<disk, ghosts, ops, refused, crashes>>

RecoverFinalize ==
    LET s == Applied(mem, cur.order)
        ok == Replays(mem.records, mem.pups, cur.order)
    IN /\ pc = "recover_finalize"
       /\ \/ /\ ok
             /\ save_state(s)
             /\ mem' = s
             /\ RecoverDeletesOf(s)
             /\ orphans' = orphans \ Batch(cur.order)
          \/ ok /\ save_fails(s) /\ Drop /\ UNCHANGED orphans
          \/ ~ok /\ Drop /\ UNCHANGED <<disk, faults, orphans>>
       /\ UNCHANGED <<docs, owed, ops, refused, crashes>>

RecoverErase ==
    /\ pc = "recover_erase"
    /\ \/ /\ DeleteDocuments(cur.found)
          /\ pc' = "recover_remove"
          /\ UNCHANGED <<mem, cur>>
       \/ DeleteDocumentsFails(cur.found) /\ Drop
       \/ GraphRefuses /\ Drop
    /\ UNCHANGED <<disk, ghosts, ops, refused, crashes>>

RecoverSave ==
    /\ pc = "recover_save"
    /\ \/ save_state(mem) /\ pc' = "idle" /\ cur' = NoOperation /\ UNCHANGED mem
       \/ save_fails(mem) /\ Drop
    /\ UNCHANGED <<docs, ghosts, ops, refused, crashes>>

\* The process dies, or the actor is stopped: a write under way is torn.
Crash ==
    /\ pc # "closed"
    /\ crashes < MaxCrashes
    /\ crashes' = crashes + 1
    /\ Drop
    /\ CASE pc \in {"journaled", "recover_write"} ->
              \E W \in SUBSET Batch(cur.order) : docs' = Upserted(W, mem.pups)
         [] pc \in {"erasing", "recover_erase", "purging"} ->
              \E W \in SUBSET cur.found : docs' = Without(W)
         [] OTHER -> UNCHANGED docs
    /\ orphans' = IF pc = "purging" THEN orphans \cup cur.found ELSE orphans
    /\ UNCHANGED <<disk, owed, refused, ops, faults>>
-----------------------------------------------------------------------------
Request ==
    /\ pc = "idle"
    /\ ops < MaxOps
    /\ \/ \E i \in Id, v \in Version, revive \in BOOLEAN : Store(i, v, revive)
       \/ \E i \in Id, v \in Version, revive \in BOOLEAN :
             \E preds, conflicts \in SUBSET Id :
                Capture(i, v, preds, conflicts, revive)
       \/ \E chunks, stale \in SUBSET Id, v \in Version, revive \in BOOLEAN :
             Ingest(chunks, v, stale, revive)
       \/ \E s \in Snapshots : Import(s)
       \/ \E i, n \in Id, v \in Version, lock \in BOOLEAN :
             \E conflicts \in Option(SUBSET Id) : Update(i, n, v, conflicts, lock)
       \/ \E i \in Id, lock \in BOOLEAN : SetLocked(i, lock)
       \/ \E ids \in SUBSET Id, tombstone \in BOOLEAN : Delete(ids, tombstone)
       \/ \E keep \in BOOLEAN : Purge(keep)

Progress ==
    \/ Write \/ Finalize \/ ImportTombstones
    \/ DeleteStale \/ Erase \/ DeleteSave
    \/ PurgeDocuments \/ PurgeState
    \/ \E i \in Id : Remove(i)

Recovery == Open \/ RecoverWrite \/ RecoverFinalize \/ RecoverErase \/ RecoverSave

Next == Request \/ Progress \/ Recovery \/ Crash

Spec == Init /\ [][Next]_vars

\* A process that opened a project keeps executing, and a project that is not
\* open is opened by the next request.
FairSpec == Spec /\ WF_vars(Progress) /\ WF_vars(Recovery)
-----------------------------------------------------------------------------
\* Every state the engine holds or saves passes validate_relations: the engine
\* never builds a state that save() would refuse, whatever it deletes from the
\* middle of a supersession chain and wherever a write fails.
RelationsValid ==
    validate_relations(mem.records) /\ validate_relations(disk.records)

\* The bounded walk that save() and open rely on finds a cycle exactly when some
\* records supersede each other in a circle, in every state at rest and in each
\* that is one wrong link away from it: it takes enough turns for the longest
\* circle, and one that avoids the start of a walk does not deceive it.
WalkDecidesAcyclic ==
    pc = "idle" => \A r \in {mem.records} \cup Relinked(mem.records) : WalkDecides(r)

\* A document in the collection is known to state.json, as a record or as a
\* journaled upsert, at every instant a crash may choose.
DocumentsAccounted ==
    /\ DOMAIN docs \subseteq DOMAIN disk.records \cup DOMAIN disk.pups
    /\ pc # "closed" =>
         DOMAIN docs \subseteq DOMAIN mem.records \cup DOMAIN mem.pups

\* Between operations every record has its document, unless its delete is
\* still journaled or a purge was cut short.
RecordsHaveDocuments ==
    pc = "idle" =>
        DOMAIN mem.records \subseteq DOMAIN docs \cup orphans \cup mem.pdel

\* A committed memory is there, in its last committed version, also after the
\* graph has refused erasures.
CommittedSurvives ==
    pc = "idle" =>
        \A i \in Id :
            /\ owed[i] \in Version =>
                 i \in DOMAIN mem.records /\ i \in DOMAIN docs /\ docs[i] = owed[i]
            /\ owed[i] = "kept" => i \in DOMAIN mem.records \cap DOMAIN docs

\* A memory whose delete was acknowledged does not come back by itself, unless a
\* refusal of the graph left a batch journaled while the engine went on.
DeletedStaysDeleted ==
    pc = "idle" /\ ~refused =>
        \A i \in Id : owed[i] = "gone" => i \notin DOMAIN docs

\* The journal on disk can be replayed by the next open, with the same exception:
\* what such a batch names may be deleted before it is replayed.
JournalReplays ==
    ~refused =>
        Replays(disk.records, disk.pups, [i \in DOMAIN disk.pups |-> i])

\* An active, unlocked memory can be updated in place.
ActiveIsUpdatable ==
    pc = "idle" =>
        \A i \in Id, v \in Version :
            MayUpdate(i, i, <<>>) /\ i \notin DOMAIN mem.pups =>
                Admissible([x \in {i} |-> UpdatedMemory(i, i, v, <<>>, FALSE)],
                           [x \in {i} |-> 1])

\* A locked memory's document changes only through purge, and through the replay
\* of a batch that was left journaled and is older than the lock.
LockedIsKept ==
    [][\A i \in DOMAIN docs \cap DOMAIN mem.records :
          mem.records[i].locked /\ pc # "purging" /\ ~refused =>
              i \in DOMAIN docs' /\ docs'[i] = docs[i]]_vars

\* The graph refuses the erasure of a recovery.
RecoveryRefused ==
    pc \in {"recover_write", "recover_erase"} /\ Drop /\ UNCHANGED crashes

\* Whatever a crash leaves behind, the store opens again, unless the graph goes on
\* refusing what the recovery asks of it, or has left a batch journaled before.
EventuallyOpen ==
    <>[][~RecoveryRefused]_vars => (pc = "closed" ~> (pc = "idle" \/ refused))
=============================================================================

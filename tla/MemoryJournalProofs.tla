------------------------- MODULE MemoryJournalProofs -------------------------
(***************************************************************************)
(* What holds of the store for every set of ids, every set of snapshots    *)
(* and any number of operations, crashes and failed writes:                *)
(*                                                                         *)
(*   TypesHold       Spec => []TypeOK                                      *)
(*   RelationsHold   Spec => []RelationsValid                              *)
(*   WalksHold       Spec => []WalkDecidesAcyclic                          *)
(*   DocumentsHold   Spec => []DocumentsAccounted                          *)
(*   RecordsHold     Spec => []RecordsHaveDocuments                        *)
(*   CommitsHold     Spec => [](faults = 0 => CommittedSurvives)           *)
(*   DeletesHold     Spec => [](faults = 0 => DeletedStaysDeleted)         *)
(*   JournalHolds    SnapshotsMutual =>                                    *)
(*                     (Spec => [](faults = 0 => JournalReplays))          *)
(*   LocksHold       MaxFaults = 0 => (Spec => LockedIsKept)               *)
(***************************************************************************)
EXTENDS MemoryJournal, MemoryRelationsProofs

-----------------------------------------------------------------------------
(***************************************************************************)
(* The values that the handlers compute are of the right type.             *)
(***************************************************************************)

\* The empty map, the empty state and the absent operation have their types.
LEMMA EmptyTyped ==
    /\ \A S : IsMap(EmptyMap, S)
    /\ IsState(EmptyState)
    /\ IsOperation(NoOperation)
    /\ DOMAIN EmptyMap = {}
    /\ DOMAIN EmptyState.records = {} /\ DOMAIN EmptyState.pups = {}
  <1>1. DOMAIN EmptyMap = {} /\ \A S : IsMap(EmptyMap, S)
    BY DEF EmptyMap, IsMap
  <1> QED
    BY <1>1 DEF IsState, EmptyState, IsOperation, NoOperation

\* Writing state.json leaves a state there: the old one or the new one.
LEMMA SaveTyped ==
    ASSUME TypeOK, NEW s, IsState(s), save_state(s) \/ save_fails(s)
    PROVE  IsState(disk') /\ faults' \in 0 .. MaxFaults
  BY BoundAssumption DEF TypeOK, save_state, save_fails

\* Writing and deleting documents leaves a collection, failed or not.
LEMMA UpsertedTyped ==
    ASSUME TypeOK, NEW j, IsMap(j, Pending), NEW W, W \subseteq DOMAIN j
    PROVE  /\ IsMap(Upserted(W, j), Version)
           /\ DOMAIN Upserted(W, j) = DOMAIN docs \cup W
  <1>1. DOMAIN Upserted(W, j) = DOMAIN docs \cup W
    BY DEF Upserted
  <1>2. \A i \in DOMAIN j : i \in Id /\ j[i].ver \in Version
    BY DEF IsMap, Pending
  <1>3. \A i \in DOMAIN docs : i \in Id /\ docs[i] \in Version
    BY DEF TypeOK, IsMap
  <1> QED
    BY <1>1, <1>2, <1>3 DEF Upserted, IsMap

\* Deleting documents leaves a collection.
LEMMA WithoutTyped ==
    ASSUME TypeOK, NEW W
    PROVE  /\ IsMap(Without(W), Version)
           /\ DOMAIN Without(W) = DOMAIN docs \ W
  BY DEF TypeOK, IsMap, Without

\* A write of a batch, complete or torn, leaves a collection.
LEMMA WriteTyped ==
    ASSUME TypeOK, NEW j, IsMap(j, Pending), NEW B, B \subseteq DOMAIN j,
           WriteDocuments(j, B) \/ WriteDocumentsFails(j, B)
    PROVE  /\ IsMap(docs', Version)
           /\ faults' \in 0 .. MaxFaults
           /\ DOMAIN docs' \subseteq DOMAIN docs \cup B
  <1>1. CASE WriteDocuments(j, B)
    BY <1>1, UpsertedTyped DEF WriteDocuments, TypeOK
  <1>2. CASE WriteDocumentsFails(j, B)
    <2>1. PICK W \in SUBSET B : docs' = Upserted(W, j)
      BY <1>2 DEF WriteDocumentsFails
    <2>2. faults' \in 0 .. MaxFaults
      BY <1>2, BoundAssumption DEF WriteDocumentsFails, TypeOK
    <2> QED
      BY <2>1, <2>2, UpsertedTyped
  <1> QED
    BY <1>1, <1>2

\* A delete of documents, complete or torn, leaves a collection.
LEMMA DeleteTyped ==
    ASSUME TypeOK, NEW F, DeleteDocuments(F) \/ DeleteDocumentsFails(F)
    PROVE  /\ IsMap(docs', Version)
           /\ faults' \in 0 .. MaxFaults
           /\ DOMAIN docs' \subseteq DOMAIN docs
  <1>1. CASE DeleteDocuments(F)
    BY <1>1, WithoutTyped DEF DeleteDocuments, TypeOK
  <1>2. CASE DeleteDocumentsFails(F)
    <2>1. PICK W \in SUBSET F : docs' = Without(W)
      BY <1>2 DEF DeleteDocumentsFails
    <2>2. faults' \in 0 .. MaxFaults
      BY <1>2, BoundAssumption DEF DeleteDocumentsFails, TypeOK
    <2> QED
      BY <2>1, <2>2, WithoutTyped
  <1> QED
    BY <1>1, <1>2

\* The state with a batch added to its journal.
LEMMA JournaledTyped ==
    ASSUME NEW s, IsState(s), NEW j, IsMap(j, Pending), NEW t,
           t = [s EXCEPT !.pups = [i \in DOMAIN @ \cup DOMAIN j |->
                                     IF i \in DOMAIN j THEN j[i] ELSE @[i]]]
    PROVE  /\ IsState(t)
           /\ t.records = s.records
           /\ DOMAIN t.pups = DOMAIN s.pups \cup DOMAIN j
  <1> DEFINE P == [i \in DOMAIN s.pups \cup DOMAIN j |->
                     IF i \in DOMAIN j THEN j[i] ELSE s.pups[i]]
  <1>1. IsMap(P, Pending) /\ DOMAIN P = DOMAIN s.pups \cup DOMAIN j
    BY DEF IsState, IsMap
  <1>2. t = [s EXCEPT !.pups = P]
    OBVIOUS
  <1> HIDE DEF P
  <1>3. /\ t = [records |-> t.records, tombs |-> t.tombs, pdel |-> t.pdel,
                pups |-> t.pups]
        /\ t.records = s.records /\ t.tombs = s.tombs /\ t.pdel = s.pdel
        /\ t.pups = P
    BY <1>2 DEF IsState
  <1> QED
    BY <1>1, <1>3 DEF IsState

\* The state with a batch of its journal applied and retired.
LEMMA AppliedTyped ==
    ASSUME NEW s, IsState(s), NEW order, Batch(order) \subseteq DOMAIN s.pups,
           Valid(Applied(s, order))
    PROVE  /\ IsState(Applied(s, order))
           /\ DOMAIN Applied(s, order).records
                = DOMAIN s.records \cup Batch(order)
           /\ DOMAIN Applied(s, order).pups = DOMAIN s.pups \ Batch(order)
  <1> DEFINE t == Applied(s, order)
             R == apply_pending_upserts(s.records, s.pups, order)
             T == s.tombs \ {fingerprint[i] :
                               i \in {k \in Batch(order) : s.pups[k].revive}}
             P == [i \in DOMAIN s.pups \ Batch(order) |-> s.pups[i]]
  <1>1. t = [s EXCEPT !.records = R, !.tombs = T, !.pups = P]
    BY DEF Applied
  <1>2. T \subseteq Fingerprints
    BY DEF IsState
  <1>3. IsMap(P, Pending) /\ DOMAIN P = DOMAIN s.pups \ Batch(order)
    BY DEF IsState, IsMap
  <1> HIDE DEF R, T, P, t
  <1>4. /\ t = [records |-> t.records, tombs |-> t.tombs, pdel |-> t.pdel,
                pups |-> t.pups]
        /\ t.records = R /\ t.tombs = T /\ t.pdel = s.pdel /\ t.pups = P
    BY <1>1 DEF IsState
  <1>5. validate_relations(R)
    BY <1>4 DEF Valid, t
  <1>6. IsMap(R, Meta) /\ DOMAIN R = DOMAIN s.records \cup Batch(order)
    BY <1>5, ApplyTyped DEF IsState, R
  <1>7. IsState(t)
    BY <1>2, <1>3, <1>4, <1>6 DEF IsState
  <1> QED
    BY <1>3, <1>4, <1>6, <1>7 DEF t

\* What prepare_store_upsert and update build for one id is a journal entry.
LEMMA PreparedTyped ==
    ASSUME TypeOK, NEW i \in Id, NEW v \in Version, NEW preds \in SUBSET Id,
           NEW conflicts \in SUBSET Id, NEW revive \in BOOLEAN,
           MayStore(i, revive)
    PROVE  PreparedStore(i, v, preds, conflicts, revive) \in Pending
  <1> DEFINE old == IF i \in DOMAIN docs THEN mem.records[i]
                    ELSE [sup |-> {}, conf |-> {}]
  <1>1. old.sup \in SUBSET Id /\ old.conf \in SUBSET Id
    <2>1. CASE i \in DOMAIN docs
      <3>1. mem.records[i] \in Meta
        BY <2>1 DEF MayStore, Active, TypeOK, IsState, IsMap
      <3> QED
        BY <2>1, <3>1 DEF Meta
    <2>2. CASE i \notin DOMAIN docs
      BY <2>2
    <2> QED
      BY <2>1, <2>2
  <1> DEFINE sup == IF preds = {} THEN old.sup ELSE preds
             conf == IF conflicts = {} THEN old.conf ELSE conflicts
  <1>2. sup \in SUBSET Id /\ conf \in SUBSET Id
    BY <1>1
  <1>3. PreparedStore(i, v, preds, conflicts, revive)
          = [ver |-> v, meta |-> [by |-> NoId, sup |-> sup, conf |-> conf,
                                  locked |-> FALSE],
             pred |-> preds, revive |-> revive]
    BY DEF PreparedStore
  <1> HIDE DEF sup, conf
  <1> QED
    BY <1>2, <1>3 DEF Pending, Meta

\* What update and commit_update build for one id is a journal entry.
LEMMA UpdatedTyped ==
    ASSUME TypeOK, NEW i \in Id, NEW n \in Id, NEW v \in Version,
           NEW conflicts \in Option(SUBSET Id), NEW lock \in BOOLEAN,
           Active(i)
    PROVE  UpdatedMemory(i, n, v, conflicts, lock) \in Pending
  <1>1. mem.records[i] \in Meta
    BY DEF Active, TypeOK, IsState, IsMap
  <1> DEFINE sup == IF n # i THEN {i} ELSE mem.records[i].sup
             conf == IF conflicts = <<>> THEN mem.records[i].conf
                     ELSE conflicts[1]
             pred == IF n # i THEN {i} ELSE {}
  <1>2. sup \in SUBSET Id /\ pred \in SUBSET Id
    BY <1>1 DEF Meta
  <1>3. conf \in SUBSET Id
    <2>1. CASE conflicts = <<>>
      BY <1>1, <2>1 DEF Meta
    <2>2. CASE conflicts # <<>>
      <3>1. PICK x \in SUBSET Id : conflicts = <<x>>
        BY <2>2 DEF Option
      <3> QED
        BY <2>2, <3>1
    <2> QED
      BY <2>1, <2>2
  <1>4. UpdatedMemory(i, n, v, conflicts, lock)
          = [ver |-> v, meta |-> [by |-> NoId, sup |-> sup, conf |-> conf,
                                  locked |-> lock],
             pred |-> pred, revive |-> FALSE]
    BY DEF UpdatedMemory
  <1> HIDE DEF sup, conf, pred
  <1> QED
    BY <1>2, <1>3, <1>4 DEF Pending, Meta

\* A batch names no locked memory that has a document.
SparesLocked(j) ==
    \A i \in DOMAIN j \cap DOMAIN docs \cap DOMAIN mem.records :
        ~mem.records[i].locked

\* The members of a snapshot agree on their conflicts, as memory_export writes
\* them out of a valid state.
SnapshotsMutual == \A s \in Snapshots : MutualConflicts(s.memories)

\* Nothing in a batch depends on the order in which it is applied, or the order
\* is that of a recovery.
OrderFree(j, order) ==
    MutualConflicts(j) \/ order = [i \in DOMAIN j |-> i]

\* The steps that journal a batch, whatever request brings it.
CommitsBatch ==
    \E j, order, imported, stale :
        /\ IsMap(j, Pending)
        /\ IsMap(order, Nat)
        /\ DOMAIN order = DOMAIN j
        /\ imported \subseteq Fingerprints
        /\ stale \subseteq Id
        /\ SparesLocked(j)
        /\ SnapshotsMutual => OrderFree(j, order)
        /\ commit_pending_upserts(j, order, imported, stale)

\* The batch of one upsert.
LEMMA SingleTyped ==
    ASSUME NEW i \in Id, NEW p \in Pending
    PROVE  /\ IsMap([x \in {i} |-> p], Pending)
           /\ IsMap([x \in {i} |-> 1], Nat)
           /\ DOMAIN [x \in {i} |-> 1] = DOMAIN [x \in {i} |-> p]
  BY DEF IsMap

\* A batch of one upsert has one order.
LEMMA SingleCommits ==
    ASSUME NEW i \in Id, NEW p \in Pending,
           i \in DOMAIN docs \cap DOMAIN mem.records => ~mem.records[i].locked,
           commit_pending_upserts([x \in {i} |-> p], [x \in {i} |-> 1], {}, {})
    PROVE  CommitsBatch
  <1> DEFINE j == [x \in {i} |-> p]
             order == [x \in {i} |-> 1]
  <1>1. i \notin p.meta.conf
    BY DEF commit_pending_upserts, Admissible, Replays, ValidPending, ValidMeta
  <1>2. OrderFree(j, order)
    BY <1>1 DEF OrderFree, MutualConflicts
  <1>3. SparesLocked(j)
    BY DEF SparesLocked
  <1>4. IsMap(j, Pending) /\ IsMap(order, Nat) /\ DOMAIN order = DOMAIN j
    BY SingleTyped
  <1>5. commit_pending_upserts(j, order, {}, {})
    OBVIOUS
  <1> HIDE DEF j, order
  <1> QED
    BY <1>2, <1>3, <1>4, <1>5 DEF CommitsBatch

\* store, capture, ingest, import and update end in commit_pending_upserts
\* with a typed batch; the other requests are lifecycle changes, deletes and
\* purges.
LEMMA RequestCases ==
    ASSUME TypeOK, Request
    PROVE  \/ CommitsBatch
           \/ \E i \in Id, lock \in BOOLEAN : SetLocked(i, lock)
           \/ \E ids \in SUBSET Id, tombstone \in BOOLEAN : Delete(ids, tombstone)
           \/ \E keep \in BOOLEAN : Purge(keep)
  <1>1. ASSUME NEW i \in Id, NEW v \in Version, NEW revive \in BOOLEAN,
               Store(i, v, revive)
        PROVE  CommitsBatch
    <2>1. PreparedStore(i, v, {}, {}, revive) \in Pending
      BY <1>1, PreparedTyped DEF Store
    <2> QED
      BY <1>1, <2>1, SingleCommits DEF Store, MayStore
  <1>2. ASSUME NEW i \in Id, NEW v \in Version, NEW revive \in BOOLEAN,
               NEW preds \in SUBSET Id, NEW conflicts \in SUBSET Id,
               Capture(i, v, preds, conflicts, revive)
        PROVE  CommitsBatch
    <2>1. PreparedStore(i, v, preds, conflicts, revive) \in Pending
      BY <1>2, PreparedTyped DEF Capture
    <2> QED
      BY <1>2, <2>1, SingleCommits DEF Capture, MayStore
  <1>3. ASSUME NEW chunks \in SUBSET Id, NEW stale \in SUBSET Id,
               NEW v \in Version, NEW revive \in BOOLEAN,
               Ingest(chunks, v, stale, revive)
        PROVE  CommitsBatch
    <2> DEFINE j == [i \in chunks |-> PreparedStore(i, v, {}, {}, revive)]
               order == [i \in chunks |-> i]
    <2>1. \A i \in chunks : PreparedStore(i, v, {}, {}, revive) \in Pending
      BY <1>3, PreparedTyped DEF Ingest
    <2>2. IsMap(j, Pending)
      BY <2>1 DEF IsMap
    <2>3. IsMap(order, Nat) /\ DOMAIN order = DOMAIN j
      BY IdAssumption DEF IsMap
    <2>4. commit_pending_upserts(j, order, {}, stale) /\ SparesLocked(j)
      BY <1>3 DEF Ingest, MayStore, SparesLocked
    <2>5. OrderFree(j, order)
      BY DEF OrderFree
    <2> HIDE DEF j, order
    <2> QED
      BY <2>2, <2>3, <2>4, <2>5 DEF CommitsBatch
  <1>4. ASSUME NEW s \in Snapshots, Import(s)
        PROVE  CommitsBatch
    <2>1. /\ IsMap(s.memories, Pending) /\ s.order \in [DOMAIN s.memories -> Nat]
          /\ s.tombstones \subseteq Fingerprints
      BY SnapshotAssumption
    <2>2. IsMap(s.order, Nat) /\ DOMAIN s.order = DOMAIN s.memories
      BY <2>1 DEF IsMap
    <2> QED
      BY <1>4, <2>1, <2>2
      DEF Import, SparesLocked, SnapshotsMutual, OrderFree, CommitsBatch
  <1>5. ASSUME NEW i \in Id, NEW n \in Id, NEW v \in Version,
               NEW lock \in BOOLEAN, NEW conflicts \in Option(SUBSET Id),
               Update(i, n, v, conflicts, lock)
        PROVE  CommitsBatch
    <2>1. UpdatedMemory(i, n, v, conflicts, lock) \in Pending
      BY <1>5, UpdatedTyped DEF Update, MayUpdate
    <2> QED
      BY <1>5, <2>1, SingleCommits DEF Update, MayUpdate
  <1> QED
    BY <1>1, <1>2, <1>3, <1>4, <1>5 DEF Request
-----------------------------------------------------------------------------
(***************************************************************************)
(* Type correctness.  TypeOK is not inductive: Finalize looks the batch up *)
(* in the journal in memory, where it must still be.                       *)
(***************************************************************************)
JournalHeld ==
    pc \in {"journaled", "written", "recover_write", "recover_finalize"} =>
        Batch(cur.order) \subseteq DOMAIN mem.pups

TypeInv == TypeOK /\ JournalHeld

\* The first state has its types.
LEMMA InitTyped == Init => TypeInv
  <1> SUFFICES ASSUME Init PROVE TypeInv
    OBVIOUS
  <1>1. refused \in BOOLEAN
    BY DEF Init
  <1>2. /\ IsState(mem) /\ IsState(disk) /\ IsMap(docs, Version)
        /\ IsOperation(cur) /\ pc \in Phases /\ owed \in [Id -> Debts]
    BY EmptyTyped DEF Init, Phases, Debts, IsMap, EmptyMap
  <1> QED
    BY <1>1, <1>2, BoundAssumption DEF Init, TypeInv, TypeOK, JournalHeld

\* What callers are owed stays typed.
LEMMA SuspendTyped ==
    ASSUME TypeOK, NEW B
    PROVE  Suspend(B) \in [Id -> Debts]
  BY DEF TypeOK, Suspend, Debts

\* What an answer settles stays typed.
LEMMA SettleTyped ==
    ASSUME TypeOK, NEW B, NEW what, \A i \in B : what[i] \in Debts
    PROVE  Settle(B, what) \in [Id -> Debts]
  BY DEF TypeOK, Settle

\* Dropping the engine leaves a typed, closed one.
LEMMA DropTyped ==
    ASSUME Drop
    PROVE  IsState(mem') /\ IsOperation(cur') /\ pc' = "closed"
  BY EmptyTyped DEF Drop

\* Journaling a batch keeps the types, and the batch is then in the journal.
LEMMA CommitTyped ==
    ASSUME TypeInv, CommitsBatch
    PROVE  TypeInv'
  <1>1. PICK j, order, imported, stale :
           /\ IsMap(j, Pending)
           /\ IsMap(order, Nat)
           /\ DOMAIN order = DOMAIN j
           /\ imported \subseteq Fingerprints
           /\ stale \subseteq Id
           /\ commit_pending_upserts(j, order, imported, stale)
    BY DEF CommitsBatch
  <1> DEFINE s == [mem EXCEPT !.pups = [i \in DOMAIN @ \cup DOMAIN j |->
                                          IF i \in DOMAIN j THEN j[i] ELSE @[i]]]
  <1>2. IsState(s) /\ DOMAIN s.pups = DOMAIN mem.pups \cup DOMAIN j
    BY <1>1, JournaledTyped DEF TypeInv, TypeOK
  <1>3. /\ pc = "idle" /\ ops < MaxOps /\ ops' = ops + 1
        /\ owed' = Suspend(DOMAIN j)
        /\ UNCHANGED <<docs, orphans, refused, crashes>>
        /\ \/ /\ save_state(s) /\ mem' = s /\ pc' = "journaled"
              /\ cur' = [NoOperation EXCEPT !.order = order,
                                            !.imported = imported,
                                            !.erase = stale]
           \/ save_fails(s) /\ UNCHANGED <<mem, pc, cur>>
    BY <1>1 DEF commit_pending_upserts
  <1> HIDE DEF s
  <1>4. IsState(disk') /\ faults' \in 0 .. MaxFaults
    BY <1>2, <1>3, SaveTyped DEF TypeInv
  <1>5. owed' \in [Id -> Debts]
    BY <1>3, SuspendTyped DEF TypeInv
  <1>6. ops' \in 0 .. MaxOps
    BY <1>3, BoundAssumption DEF TypeInv, TypeOK
  <1>7. CASE /\ save_state(s) /\ mem' = s /\ pc' = "journaled"
             /\ cur' = [NoOperation EXCEPT !.order = order,
                                           !.imported = imported,
                                           !.erase = stale]
    <2>1. IsOperation(cur') /\ cur'.order = order
      BY <1>1, <1>7 DEF IsOperation, NoOperation
    <2>2. JournalHeld'
      BY <1>1, <1>2, <1>7, <2>1 DEF JournalHeld, Batch
    <2> QED
      BY <1>2, <1>3, <1>4, <1>5, <1>6, <1>7, <2>1, <2>2
      DEF TypeInv, TypeOK, Phases
  <1>8. CASE UNCHANGED <<mem, pc, cur>>
    BY <1>3, <1>4, <1>5, <1>6, <1>8 DEF TypeInv, TypeOK, JournalHeld
  <1> QED
    BY <1>3, <1>7, <1>8

\* memory_lock keeps the types.
LEMMA SetLockedTyped ==
    ASSUME TypeInv, NEW i \in Id, NEW lock \in BOOLEAN, SetLocked(i, lock)
    PROVE  TypeInv'
  <1> DEFINE s == [mem EXCEPT !.records[i].locked = lock]
             R == [mem.records EXCEPT ![i] = [mem.records[i] EXCEPT !.locked = lock]]
  <1>1. /\ pc = "idle" /\ ops < MaxOps /\ ops' = ops + 1
        /\ UNCHANGED <<docs, pc, cur, owed, orphans, refused, crashes>>
        /\ save_state(s) \/ save_fails(s)
        /\ mem' = s \/ mem' = mem
    BY DEF SetLocked, ghosts
  <1>2. i \in DOMAIN mem.records /\ IsState(mem)
    BY DEF SetLocked, Active, TypeInv, TypeOK
  <1>3. IsMap(R, Meta)
    <2>1. mem.records[i] \in Meta
      BY <1>2 DEF IsState, IsMap
    <2>2. [mem.records[i] EXCEPT !.locked = lock] \in Meta
      BY <2>1 DEF Meta
    <2> QED
      BY <1>2, <2>2 DEF IsState, IsMap
  <1>4. s = [mem EXCEPT !.records = R]
    OBVIOUS
  <1> HIDE DEF s, R
  <1>5. IsState(s)
    <2>1. /\ s = [records |-> s.records, tombs |-> s.tombs, pdel |-> s.pdel,
                  pups |-> s.pups]
          /\ s.records = R /\ s.tombs = mem.tombs /\ s.pdel = mem.pdel
          /\ s.pups = mem.pups
      BY <1>2, <1>4 DEF IsState
    <2> QED
      BY <1>2, <1>3, <2>1 DEF IsState
  <1>6. IsState(disk') /\ faults' \in 0 .. MaxFaults
    BY <1>1, <1>5, SaveTyped DEF TypeInv
  <1>7. ops' \in 0 .. MaxOps
    BY <1>1, BoundAssumption DEF TypeInv, TypeOK
  <1> QED
    BY <1>1, <1>2, <1>5, <1>6, <1>7 DEF TypeInv, TypeOK, JournalHeld

\* delete_internal's intent, of a request or of an ingest's stale chunks.
LEMMA DeleteIntentTyped ==
    ASSUME TypeInv, NEW ids \in SUBSET Id, NEW tombstone \in BOOLEAN,
           DeleteIntent(ids, tombstone), ops' \in 0 .. MaxOps
    PROVE  TypeInv'
  <1> DEFINE F == Found(ids)
             T == IF tombstone THEN mem.tombs \cup Tombstones(F) ELSE mem.tombs
             P == mem.pdel \cup F
             s == [mem EXCEPT !.tombs = IF tombstone
                                        THEN @ \cup Tombstones(F) ELSE @,
                              !.pdel = @ \cup F]
  <1>1. /\ mem' = s /\ owed' = Settle(F, [i \in F |-> "open"])
        /\ UNCHANGED <<docs, orphans, refused, crashes>>
        /\ save_state(s) \/ save_fails(s)
        /\ pc' \in {"idle", "erasing"}
        /\ \/ cur' = NoOperation
           \/ cur' = [NoOperation EXCEPT !.erase = F, !.found = F]
    BY DEF DeleteIntent
  <1>2. F \subseteq Id /\ T \subseteq Fingerprints /\ P \subseteq Id
    BY DEF TypeInv, TypeOK, IsState, Found, Tombstones, Fingerprints
  <1>3. s = [mem EXCEPT !.tombs = T, !.pdel = P]
    OBVIOUS
  <1>4. owed' \in [Id -> Debts]
    BY <1>1, SettleTyped DEF TypeInv, Debts
  <1> HIDE DEF s, F, T, P
  <1>5. IsState(s)
    <2>1. IsState(mem)
      BY DEF TypeInv, TypeOK
    <2>2. /\ s = [records |-> s.records, tombs |-> s.tombs, pdel |-> s.pdel,
                  pups |-> s.pups]
          /\ s.records = mem.records /\ s.tombs = T /\ s.pdel = P
          /\ s.pups = mem.pups
      BY <1>3, <2>1 DEF IsState
    <2> QED
      BY <1>2, <2>1, <2>2 DEF IsState
  <1>6. IsState(disk') /\ faults' \in 0 .. MaxFaults
    BY <1>1, <1>5, SaveTyped DEF TypeInv
  <1>7. IsOperation(cur')
    BY <1>1, <1>2, EmptyTyped DEF IsOperation, NoOperation
  <1> QED
    BY <1>1, <1>4, <1>5, <1>6, <1>7 DEF TypeInv, TypeOK, JournalHeld, Phases

\* Beginning a purge keeps the types.
LEMMA PurgeTyped ==
    ASSUME TypeInv, NEW keep \in BOOLEAN, Purge(keep)
    PROVE  TypeInv'
  <1>1. IsOperation(cur')
    BY EmptyTyped DEF Purge, IsOperation, NoOperation, TypeInv, TypeOK, IsMap
  <1>2. ops' \in 0 .. MaxOps
    BY BoundAssumption DEF Purge, TypeInv, TypeOK
  <1>3. owed' \in [Id -> Debts]
    BY DEF Purge, Debts
  <1> QED
    BY <1>1, <1>2, <1>3 DEF Purge, TypeInv, TypeOK, JournalHeld, Phases

\* The document half of a purge keeps the types.
LEMMA PurgeDocumentsTyped ==
    ASSUME TypeInv, PurgeDocuments
    PROVE  TypeInv'
  <1>1. IsMap(docs', Version) /\ faults' \in 0 .. MaxFaults
    BY DeleteTyped DEF PurgeDocuments, TypeInv
  <1>2. IsOperation(cur')
    BY EmptyTyped DEF PurgeDocuments, TypeInv, TypeOK
  <1>3. orphans' \in SUBSET Id
    BY DEF PurgeDocuments, TypeInv, TypeOK, IsOperation
  <1> QED
    BY <1>1, <1>2, <1>3
    DEF PurgeDocuments, TypeInv, TypeOK, JournalHeld, Phases

\* A state with other tombstones.
LEMMA TombstonesTyped ==
    ASSUME NEW s, IsState(s), NEW T, T \subseteq Fingerprints
    PROVE  IsState([s EXCEPT !.tombs = T])
  <1> DEFINE t == [s EXCEPT !.tombs = T]
  <1>1. /\ t = [records |-> t.records, tombs |-> t.tombs, pdel |-> t.pdel,
                pups |-> t.pups]
        /\ t.records = s.records /\ t.tombs = T /\ t.pdel = s.pdel
        /\ t.pups = s.pups
    BY DEF IsState
  <1> HIDE DEF t
  <1>2. IsState(t)
    BY <1>1 DEF IsState
  <1> QED
    BY <1>2 DEF t

\* The state half of a purge keeps the types.
LEMMA PurgeStateTyped ==
    ASSUME TypeInv, PurgeState
    PROVE  TypeInv'
  <1> DEFINE s == [EmptyState EXCEPT !.tombs = IF cur.keep THEN mem.tombs ELSE {}]
  <1>1. IsState(s)
    <2> DEFINE T == IF cur.keep THEN mem.tombs ELSE {}
    <2>1. T \subseteq Fingerprints
      BY DEF TypeInv, TypeOK, IsState
    <2> HIDE DEF T
    <2>2. IsState([EmptyState EXCEPT !.tombs = T])
      BY <2>1, EmptyTyped, TombstonesTyped
    <2> QED
      BY <2>2 DEF T
  <1>2. /\ mem' = s
        /\ save_state(s) \/ save_fails(s)
        /\ pc' = "idle" /\ cur' = NoOperation
        /\ UNCHANGED <<docs, ops, refused, crashes>>
        /\ owed' = owed \/ owed' = [i \in Id |-> "gone"]
        /\ orphans' = orphans \/ orphans' = {}
    BY DEF PurgeState, ghosts
  <1> HIDE DEF s
  <1>3. IsState(disk') /\ faults' \in 0 .. MaxFaults
    BY <1>1, <1>2, SaveTyped DEF TypeInv
  <1>4. owed' \in [Id -> Debts]
    BY <1>2 DEF TypeInv, TypeOK, Debts
  <1> QED
    BY <1>1, <1>2, <1>3, <1>4, EmptyTyped
    DEF TypeInv, TypeOK, JournalHeld, Phases

\* A handler past the journal write finds its batch, typed.
LEMMA BatchTyped ==
    ASSUME TypeInv,
           pc \in {"journaled", "written", "recover_write", "recover_finalize"}
    PROVE  /\ IsMap(mem.pups, Pending)
           /\ Batch(cur.order) \subseteq DOMAIN mem.pups
  BY DEF TypeInv, TypeOK, JournalHeld, IsState

\* Writing the documents keeps the types.
LEMMA WriteStepTyped ==
    ASSUME TypeInv, Write
    PROVE  TypeInv'
  <1>1. IsMap(docs', Version) /\ faults' \in 0 .. MaxFaults
    BY BatchTyped, WriteTyped
    DEF Write, TypeInv, TypeOK, UpsertRefused, GraphRefuses
  <1>2. IsOperation(cur') /\ refused' \in BOOLEAN
    BY EmptyTyped DEF Write, TypeInv, TypeOK
  <1> QED
    BY <1>1, <1>2
    DEF Write, TypeInv, TypeOK, JournalHeld, Phases, ghosts

\* Applying the batch keeps the types.
LEMMA FinalizeTyped ==
    ASSUME TypeInv, Finalize
    PROVE  TypeInv'
  <1> DEFINE s == Applied(mem, cur.order)
             B == Batch(cur.order)
  <1>1. pc = "written" /\ IsState(mem) /\ IsOperation(cur) /\ TypeOK
    BY DEF Finalize, TypeInv, TypeOK
  <1>2. B \subseteq DOMAIN mem.pups /\ IsMap(mem.pups, Pending)
    BY <1>1, BatchTyped
  <1>3. Valid(s) => IsState(s)
    BY <1>1, <1>2, AppliedTyped
  <1>4. CASE save_state(s)
    <2>1. IsState(s)
      BY <1>3, <1>4 DEF save_state
    <2>2. \A i \in B : mem.pups[i].ver \in Debts
      BY <1>2 DEF IsMap, Pending, Debts
    <2>3. Settle(B, [i \in B |-> mem.pups[i].ver]) \in [Id -> Debts]
      BY <1>1, <2>2, SettleTyped
    <2>4. IsState(disk') /\ faults' \in 0 .. MaxFaults
      BY <1>1, <1>4, <2>1, SaveTyped
    <2>5. /\ mem' = s /\ owed' = Settle(B, [i \in B |-> mem.pups[i].ver])
          /\ orphans' = orphans \ B
          /\ pc' \in {"tombstones", "delete", "idle"}
          /\ cur' \in {cur, NoOperation}
          /\ UNCHANGED <<docs, ops, refused, crashes>>
       \/ /\ UNCHANGED <<mem, owed, orphans, docs, ops, refused, crashes>>
          /\ pc' = "idle" /\ cur' = NoOperation
      BY DEF Finalize, AfterCommit, ghosts
    <2> HIDE DEF s, B
    <2> QED
      BY <1>1, <2>1, <2>3, <2>4, <2>5, EmptyTyped
      DEF TypeInv, TypeOK, JournalHeld, Phases
  <1>5. CASE ~save_state(s)
    <2>1. /\ save_fails(s)
          /\ UNCHANGED <<mem, owed, orphans, docs, ops, refused, crashes>>
          /\ pc' = "idle" /\ cur' = NoOperation
      BY <1>5 DEF Finalize, ghosts
    <2>2. IsState(disk')
      BY <1>1, <1>3, <2>1 DEF save_fails, TypeOK
    <2>3. faults' \in 0 .. MaxFaults
      BY <1>1, <2>1, BoundAssumption DEF save_fails, TypeOK
    <2> HIDE DEF s, B
    <2> QED
      BY <1>1, <2>1, <2>2, <2>3, EmptyTyped
      DEF TypeInv, TypeOK, JournalHeld, Phases
  <1> QED
    BY <1>4, <1>5

\* The tombstones of a snapshot keep the types.
LEMMA ImportTombstonesTyped ==
    ASSUME TypeInv, ImportTombstones
    PROVE  TypeInv'
  <1> DEFINE s == [mem EXCEPT !.tombs = @ \cup cur.imported]
  <1>1. IsState(s)
    <2>1. mem.tombs \cup cur.imported \subseteq Fingerprints /\ IsState(mem)
      BY DEF TypeInv, TypeOK, IsState, IsOperation
    <2> QED
      BY <2>1, TombstonesTyped
  <1>2. /\ mem' = s
        /\ save_state(s) \/ save_fails(s)
        /\ pc' = "idle" /\ cur' = NoOperation
        /\ UNCHANGED <<docs, owed, orphans, ops, refused, crashes>>
    BY DEF ImportTombstones, ghosts
  <1> HIDE DEF s
  <1>3. IsState(disk') /\ faults' \in 0 .. MaxFaults
    BY <1>1, <1>2, SaveTyped DEF TypeInv
  <1> QED
    BY <1>1, <1>2, <1>3, EmptyTyped
    DEF TypeInv, TypeOK, JournalHeld, Phases

\* Deleting an ingest's stale chunks keeps the types.
LEMMA DeleteStaleTyped ==
    ASSUME TypeInv, DeleteStale
    PROVE  TypeInv'
  <1>1. CASE DeleteIntent(cur.erase, FALSE) /\ UNCHANGED ops
    BY <1>1, DeleteIntentTyped DEF TypeInv, TypeOK, IsOperation
  <1>2. CASE ~(DeleteIntent(cur.erase, FALSE) /\ UNCHANGED ops)
    BY <1>2, EmptyTyped
    DEF DeleteStale, TypeInv, TypeOK, JournalHeld, Phases, ghosts
  <1> QED
    BY <1>1, <1>2

\* Erasing documents keeps the types.
LEMMA EraseTyped ==
    ASSUME TypeInv, Erase
    PROVE  TypeInv'
  <1>1. IsMap(docs', Version) /\ faults' \in 0 .. MaxFaults
    BY DeleteTyped DEF Erase, TypeInv
  <1>2. IsOperation(cur')
    BY EmptyTyped DEF Erase, TypeInv, TypeOK
  <1> QED
    BY <1>1, <1>2
    DEF Erase, TypeInv, TypeOK, JournalHeld, Phases, ghosts

\* Removing one record of a delete keeps the types.
LEMMA RemoveTypedStep ==
    ASSUME TypeInv, NEW i \in Id, Remove(i)
    PROVE  TypeInv'
  <1> DEFINE R == remove_state_record(mem.records, i)
  <1>1. IsMap(R, Meta)
    BY RemoveTyped DEF TypeInv, TypeOK, IsState
  <1>2. mem' = [mem EXCEPT !.records = R, !.pdel = @ \ {i}]
    BY DEF Remove
  <1> HIDE DEF R
  <1>3. IsState(mem')
    BY <1>1, <1>2 DEF TypeInv, TypeOK, IsState
  <1>4. IsOperation(cur')
    BY DEF Remove, TypeInv, TypeOK, IsOperation
  <1> QED
    BY <1>3, <1>4 DEF Remove, TypeInv, TypeOK, JournalHeld, Phases, ghosts

\* Saving a finished delete keeps the types.
LEMMA DeleteSaveTyped ==
    ASSUME TypeInv, DeleteSave
    PROVE  TypeInv'
  <1>1. IsState(disk') /\ faults' \in 0 .. MaxFaults
    BY SaveTyped DEF DeleteSave, TypeInv, TypeOK
  <1>2. owed' \in [Id -> Debts]
    <2>1. CASE owed' = Settle(cur.found, [i \in cur.found |-> "gone"])
      BY <2>1, SettleTyped DEF TypeInv, Debts
    <2>2. CASE UNCHANGED owed
      BY <2>2 DEF TypeInv, TypeOK
    <2> QED
      BY <2>1, <2>2 DEF DeleteSave
  <1> QED
    BY <1>1, <1>2, EmptyTyped
    DEF DeleteSave, TypeInv, TypeOK, JournalHeld, Phases

\* The operation of a delete that has its ids.
LEMMA ErasingTyped ==
    ASSUME NEW E, E \subseteq Id, NEW F, F \subseteq Id,
           NEW c, c = [NoOperation EXCEPT !.erase = E, !.found = F]
    PROVE  IsOperation(c) /\ c.erase = E /\ c.found = F
  <1>1. IsMap(EmptyMap, Nat)
    BY EmptyTyped
  <1> QED
    BY <1>1 DEF IsOperation, NoOperation

\* RecoverDeletesOf either finishes the recovery or takes up the journaled
\* deletes.
LEMMA RecoverDeletesTyped ==
    ASSUME TypeOK, NEW s, IsState(s), RecoverDeletesOf(s)
    PROVE  IsOperation(cur') /\ pc' \in {"idle", "recover_erase"}
  <1>1. CASE s.pdel = {}
    BY <1>1, EmptyTyped DEF RecoverDeletesOf
  <1>2. CASE s.pdel # {}
    <2> DEFINE P == s.pdel
               F == s.pdel \cap DOMAIN docs
               c == [NoOperation EXCEPT !.erase = P, !.found = F]
    <2>1. cur' = c /\ pc' = "recover_erase"
      BY <1>2 DEF RecoverDeletesOf
    <2>2. P \subseteq Id /\ F \subseteq Id
      BY DEF IsState
    <2> HIDE DEF P, F
    <2>3. IsOperation(c)
      BY <2>2, ErasingTyped
    <2> QED
      BY <2>1, <2>3
  <1> QED
    BY <1>1, <1>2

\* Loading state.json keeps the types, and the journal it holds is the batch.
LEMMA OpenTyped ==
    ASSUME TypeInv, Open
    PROVE  TypeInv'
  <1>1. /\ mem' = disk /\ IsState(disk) /\ IsState(mem')
        /\ UNCHANGED <<disk, docs, owed, orphans, ops, refused, crashes, faults>>
    BY DEF Open, TypeInv, TypeOK, ghosts
  <1>2. CASE DOMAIN disk.pups = {}
    <2>1. IsOperation(cur') /\ pc' \in {"idle", "recover_erase"}
      BY <1>1, <1>2, RecoverDeletesTyped DEF Open, TypeInv
    <2> QED
      BY <1>1, <2>1 DEF TypeInv, TypeOK, JournalHeld, Phases
  <1>3. CASE DOMAIN disk.pups # {}
    <2> DEFINE order == [i \in DOMAIN disk.pups |-> i]
    <2>1. IsMap(order, Nat) /\ Batch(order) = DOMAIN disk.pups
      BY <1>1, IdAssumption DEF IsState, IsMap, Batch
    <2>2. cur' = [NoOperation EXCEPT !.order = order] /\ pc' = "recover_write"
      BY <1>3 DEF Open
    <2> HIDE DEF order
    <2>3. IsOperation(cur') /\ cur'.order = order
      BY <2>1, <2>2, EmptyTyped DEF IsOperation, NoOperation
    <2> QED
      BY <1>1, <2>1, <2>2, <2>3 DEF TypeInv, TypeOK, JournalHeld, Phases
  <1> QED
    BY <1>2, <1>3

\* Writing the journaled documents on open keeps the types.
LEMMA RecoverWriteTyped ==
    ASSUME TypeInv, RecoverWrite
    PROVE  TypeInv'
  <1>1. IsMap(docs', Version) /\ faults' \in 0 .. MaxFaults
    BY WriteTyped
    DEF RecoverWrite, TypeInv, TypeOK, IsState, UpsertRefused, GraphRefuses
  <1> QED
    BY <1>1, DropTyped
    DEF RecoverWrite, TypeInv, TypeOK, JournalHeld, Phases, ghosts

\* Applying the journal on open keeps the types.
LEMMA RecoverFinalizeTyped ==
    ASSUME TypeInv, RecoverFinalize
    PROVE  TypeInv'
  <1> DEFINE s == Applied(mem, cur.order)
  <1>1. /\ TypeOK /\ IsState(mem)
        /\ Batch(cur.order) \subseteq DOMAIN mem.pups
    BY BatchTyped DEF RecoverFinalize, TypeInv, TypeOK
  <1>2. Valid(s) => IsState(s)
    BY <1>1, AppliedTyped
  <1>3. /\ UNCHANGED <<docs, owed, ops, refused, crashes>>
        /\ orphans' \in SUBSET Id
    BY <1>1 DEF RecoverFinalize, TypeOK
  <1>4. CASE save_state(s) /\ mem' = s /\ RecoverDeletesOf(s)
    <2>1. IsState(s)
      BY <1>2, <1>4 DEF save_state
    <2>2. IsState(disk') /\ faults' \in 0 .. MaxFaults
      BY <1>1, <1>4, <2>1, SaveTyped
    <2>3. IsOperation(cur') /\ pc' \in {"idle", "recover_erase"}
      BY <1>1, <1>4, <2>1, RecoverDeletesTyped
    <2> HIDE DEF s
    <2> QED
      BY <1>1, <1>3, <1>4, <2>1, <2>2, <2>3
      DEF TypeInv, TypeOK, JournalHeld, Phases
  <1>5. CASE save_fails(s) /\ Drop
    <2>1. IsState(disk')
      BY <1>1, <1>2, <1>5 DEF save_fails, TypeOK
    <2>2. faults' \in 0 .. MaxFaults
      BY <1>1, <1>5, BoundAssumption DEF save_fails, TypeOK
    <2> HIDE DEF s
    <2> QED
      BY <1>1, <1>3, <1>5, <2>1, <2>2, DropTyped
      DEF TypeInv, TypeOK, JournalHeld, Phases
  <1>6. CASE Drop /\ UNCHANGED <<disk, faults>>
    BY <1>1, <1>3, <1>6, DropTyped
    DEF TypeInv, TypeOK, JournalHeld, Phases
  <1> QED
    BY <1>4, <1>5, <1>6 DEF RecoverFinalize

\* Erasing the journaled deletes on open keeps the types.
LEMMA RecoverEraseTyped ==
    ASSUME TypeInv, RecoverErase
    PROVE  TypeInv'
  <1>1. IsMap(docs', Version) /\ faults' \in 0 .. MaxFaults
    BY DeleteTyped DEF RecoverErase, TypeInv, TypeOK, GraphRefuses
  <1> QED
    BY <1>1, DropTyped
    DEF RecoverErase, TypeInv, TypeOK, JournalHeld, Phases, ghosts

\* Saving the recovered deletes keeps the types.
LEMMA RecoverSaveTyped ==
    ASSUME TypeInv, RecoverSave
    PROVE  TypeInv'
  <1>1. IsState(disk') /\ faults' \in 0 .. MaxFaults
    BY SaveTyped DEF RecoverSave, TypeInv, TypeOK
  <1> QED
    BY <1>1, DropTyped, EmptyTyped
    DEF RecoverSave, TypeInv, TypeOK, JournalHeld, Phases, ghosts

\* A crash, with the torn write it leaves, keeps the types.
LEMMA CrashTyped ==
    ASSUME TypeInv, Crash
    PROVE  TypeInv'
  <1>1. IsMap(docs', Version)
    <2>1. CASE pc \in {"journaled", "recover_write"}
      <3>1. PICK W \in SUBSET Batch(cur.order) : docs' = Upserted(W, mem.pups)
        BY <2>1 DEF Crash
      <3>2. W \subseteq DOMAIN mem.pups /\ IsMap(mem.pups, Pending)
        BY <2>1, BatchTyped
      <3> QED
        BY <3>1, <3>2, UpsertedTyped DEF TypeInv
    <2>2. CASE pc \in {"erasing", "recover_erase", "purging"}
      <3>1. PICK W \in SUBSET cur.found : docs' = Without(W)
        BY <2>2 DEF Crash
      <3> QED
        BY <3>1, WithoutTyped DEF TypeInv
    <2>3. CASE pc \notin {"journaled", "recover_write", "erasing",
                          "recover_erase", "purging"}
      BY <2>3 DEF Crash, TypeInv, TypeOK
    <2> QED
      BY <2>1, <2>2, <2>3
  <1>2. crashes' \in 0 .. MaxCrashes
    BY BoundAssumption DEF Crash, TypeInv, TypeOK
  <1>3. orphans' \in SUBSET Id
    BY DEF Crash, TypeInv, TypeOK, IsOperation
  <1> QED
    BY <1>1, <1>2, <1>3, DropTyped
    DEF Crash, TypeInv, TypeOK, JournalHeld, Phases

\* Every step keeps the types.
LEMMA NextTyped ==
    ASSUME TypeInv, [Next]_vars
    PROVE  TypeInv'
  <1>1. CASE Request
    <2>1. ASSUME NEW ids \in SUBSET Id, NEW tombstone \in BOOLEAN,
                 Delete(ids, tombstone)
          PROVE  TypeInv'
      <3>1. ops' \in 0 .. MaxOps
        BY <2>1, BoundAssumption DEF Delete, TypeInv, TypeOK
      <3> QED
        BY <2>1, <3>1, DeleteIntentTyped DEF Delete
    <2> QED
      BY <1>1, <2>1, RequestCases, CommitTyped, SetLockedTyped, PurgeTyped
      DEF TypeInv
  <1>2. CASE Progress
    BY <1>2, WriteStepTyped, FinalizeTyped, ImportTombstonesTyped,
       DeleteStaleTyped, EraseTyped, DeleteSaveTyped, PurgeDocumentsTyped,
       PurgeStateTyped, RemoveTypedStep
    DEF Progress
  <1>3. CASE Recovery
    BY <1>3, OpenTyped, RecoverWriteTyped, RecoverFinalizeTyped,
       RecoverEraseTyped, RecoverSaveTyped
    DEF Recovery
  <1>4. CASE Crash
    BY <1>4, CrashTyped
  <1>5. CASE UNCHANGED vars
    BY <1>5 DEF vars, ghosts, TypeInv, TypeOK, JournalHeld
  <1> QED
    BY <1>1, <1>2, <1>3, <1>4, <1>5 DEF Next

\* The inductive invariant of the types holds.
LEMMA TypeInvHolds == Spec => []TypeInv
  BY InitTyped, NextTyped, PTL DEF Spec

\* In every reachable state the variables have their types, and a handler that
\* is past the journal write finds its batch in the journal in memory.
THEOREM TypesHold == Spec => []TypeOK
  <1>1. TypeInv => TypeOK
    BY DEF TypeInv
  <1> QED
    BY <1>1, TypeInvHolds, PTL
-----------------------------------------------------------------------------
(***************************************************************************)
(* The relations.  RelationsValid is inductive once the types are known:   *)
(* a saved state was validated, and the one change that is made before it  *)
(* is validated, the removal of a record, keeps the relations valid        *)
(* (RemoveValid).                                                          *)
(***************************************************************************)
LEMMA EmptyValid == validate_relations(EmptyMap)
  BY EmptyTyped
  DEF validate_relations, NoDangling, Symmetric, Acyclic

\* The first state's relations are valid.
LEMMA InitValid == Init => RelationsValid
  BY EmptyValid DEF Init, RelationsValid, EmptyState

\* Whether it succeeds or fails, a save leaves valid relations on disk.
LEMMA SaveValid ==
    ASSUME RelationsValid, NEW s, save_state(s) \/ save_fails(s)
    PROVE  validate_relations(disk'.records)
  BY DEF RelationsValid, save_state, save_fails, Valid

\* A dropped engine holds no relations.
LEMMA DropValid ==
    ASSUME Drop
    PROVE  validate_relations(mem'.records)
  BY EmptyValid DEF Drop, EmptyState

\* A delete's intent touches no relation.
LEMMA DeleteIntentValid ==
    ASSUME TypeInv, RelationsValid, NEW ids \in SUBSET Id,
           NEW tombstone \in BOOLEAN, DeleteIntent(ids, tombstone)
    PROVE  RelationsValid'
  <1> DEFINE T == IF tombstone THEN mem.tombs \cup Tombstones(Found(ids))
                  ELSE mem.tombs
             P == mem.pdel \cup Found(ids)
             s == [mem EXCEPT !.tombs = T, !.pdel = P]
  <1>1. (save_state(s) \/ save_fails(s)) /\ mem' = s
    BY DEF DeleteIntent
  <1> HIDE DEF T, P
  <1>2. s.records = mem.records
    BY DEF TypeInv, TypeOK, IsState
  <1> HIDE DEF s
  <1> QED
    BY <1>1, <1>2, SaveValid DEF RelationsValid

\* No request's first durable write breaks the relations.
LEMMA RequestValid ==
    ASSUME TypeInv, RelationsValid, Request
    PROVE  RelationsValid'
  <1>1. CASE CommitsBatch
    <2>1. PICK j, order, imported, stale :
             /\ IsMap(j, Pending)
             /\ commit_pending_upserts(j, order, imported, stale)
      BY <1>1 DEF CommitsBatch
    <2> DEFINE s == [mem EXCEPT !.pups = [i \in DOMAIN @ \cup DOMAIN j |->
                                            IF i \in DOMAIN j THEN j[i] ELSE @[i]]]
    <2>2. s.records = mem.records
      BY <2>1, JournaledTyped DEF TypeInv, TypeOK
    <2>3. /\ save_state(s) \/ save_fails(s)
          /\ mem' = s \/ mem' = mem
      BY <2>1 DEF commit_pending_upserts
    <2> HIDE DEF s
    <2> QED
      BY <2>2, <2>3, SaveValid DEF RelationsValid
  <1>2. ASSUME NEW i \in Id, NEW lock \in BOOLEAN, SetLocked(i, lock)
        PROVE  RelationsValid'
    <2> DEFINE s == [mem EXCEPT !.records[i].locked = lock]
    <2>1. \/ save_state(s) /\ mem' = s
          \/ save_fails(s) /\ mem' = mem
      BY <1>2 DEF SetLocked
    <2> HIDE DEF s
    <2> QED
      BY <2>1, SaveValid DEF RelationsValid, save_state, Valid
  <1>3. ASSUME NEW keep \in BOOLEAN, Purge(keep)
        PROVE  RelationsValid'
    BY <1>3 DEF Purge, RelationsValid
  <1> QED
    BY <1>1, <1>2, <1>3, DeleteIntentValid, RequestCases DEF TypeInv, Delete

\* No later step of a handler breaks them.
LEMMA ProgressValid ==
    ASSUME TypeInv, RelationsValid, Progress
    PROVE  RelationsValid'
  <1>1. CASE Write \/ Erase \/ PurgeDocuments
    BY <1>1 DEF Write, Erase, PurgeDocuments, RelationsValid
  <1>2. CASE Finalize
    <2> DEFINE s == Applied(mem, cur.order)
    <2>1. \/ save_state(s) /\ mem' = s
          \/ save_fails(s) /\ mem' = mem
      BY <1>2 DEF Finalize
    <2> HIDE DEF s
    <2> QED
      BY <2>1, SaveValid DEF RelationsValid, save_state, Valid
  <1>3. CASE ImportTombstones
    <2> DEFINE s == [mem EXCEPT !.tombs = @ \cup cur.imported]
    <2>1. (save_state(s) \/ save_fails(s)) /\ mem' = s
      BY <1>3 DEF ImportTombstones
    <2>2. s.records = mem.records
      BY DEF TypeInv, TypeOK, IsState
    <2> HIDE DEF s
    <2> QED
      BY <2>1, <2>2, SaveValid DEF RelationsValid
  <1>4. CASE DeleteStale
    <2>1. CASE DeleteIntent(cur.erase, FALSE)
      BY <2>1, DeleteIntentValid DEF TypeInv, TypeOK, IsOperation
    <2>2. CASE ~DeleteIntent(cur.erase, FALSE)
      BY <1>4, <2>2 DEF DeleteStale, RelationsValid
    <2> QED
      BY <2>1, <2>2
  <1>5. CASE DeleteSave
    BY <1>5, SaveValid DEF DeleteSave, RelationsValid
  <1>6. CASE PurgeState
    <2> DEFINE T == IF cur.keep THEN mem.tombs ELSE {}
               s == [EmptyState EXCEPT !.tombs = T]
    <2>1. (save_state(s) \/ save_fails(s)) /\ mem' = s
      BY <1>6 DEF PurgeState
    <2> HIDE DEF T
    <2>2. s.records = EmptyMap
      BY DEF EmptyState
    <2> HIDE DEF s
    <2> QED
      BY <2>1, <2>2, SaveValid, EmptyValid DEF RelationsValid
  <1>7. ASSUME NEW i \in Id, Remove(i)
        PROVE  RelationsValid'
    <2> DEFINE R == remove_state_record(mem.records, i)
    <2>1. validate_relations(R)
      BY RemoveValid DEF RelationsValid, TypeInv, TypeOK, IsState
    <2>2. mem' = [mem EXCEPT !.records = R, !.pdel = @ \ {i}] /\ UNCHANGED disk
      BY <1>7 DEF Remove
    <2> HIDE DEF R
    <2>3. mem'.records = R
      BY <2>2 DEF TypeInv, TypeOK, IsState
    <2> QED
      BY <2>1, <2>2, <2>3 DEF RelationsValid
  <1> QED
    BY <1>1, <1>2, <1>3, <1>4, <1>5, <1>6, <1>7 DEF Progress

\* No step of the recovery breaks them.
LEMMA RecoveryValid ==
    ASSUME TypeInv, RelationsValid, Recovery
    PROVE  RelationsValid'
  <1>1. CASE Open
    BY <1>1 DEF Open, RelationsValid
  <1>2. CASE RecoverWrite
    BY <1>2, DropValid DEF RecoverWrite, RelationsValid
  <1>3. CASE RecoverFinalize
    <2> DEFINE s == Applied(mem, cur.order)
    <2>1. \/ save_state(s) /\ mem' = s
          \/ save_fails(s) /\ Drop
          \/ UNCHANGED disk /\ Drop
      BY <1>3 DEF RecoverFinalize
    <2> HIDE DEF s
    <2> QED
      BY <2>1, SaveValid, DropValid DEF RelationsValid, save_state, Valid
  <1>4. CASE RecoverErase
    BY <1>4, DropValid DEF RecoverErase, RelationsValid
  <1>5. CASE RecoverSave
    BY <1>5, SaveValid, DropValid DEF RecoverSave, RelationsValid
  <1> QED
    BY <1>1, <1>2, <1>3, <1>4, <1>5 DEF Recovery

\* No step breaks them.
LEMMA NextValid ==
    ASSUME TypeInv, RelationsValid, [Next]_vars
    PROVE  RelationsValid'
  <1>1. CASE Crash
    BY <1>1, DropValid DEF Crash, RelationsValid
  <1>2. CASE UNCHANGED vars
    BY <1>2 DEF vars, RelationsValid
  <1> QED
    BY <1>1, <1>2, RequestValid, ProgressValid, RecoveryValid DEF Next

\* The engine never holds, and never leaves on disk, a state whose relations
\* dangle, disagree or form a cycle, whatever is deleted out of the middle of a
\* supersession chain and wherever a write fails or the process dies.
THEOREM RelationsHold == Spec => []RelationsValid
  BY InitValid, NextValid, TypeInvHolds, PTL DEF Spec

\* The cycle check that every save and every open rely on is right about the
\* records of every reachable state, and about those in which any one successor
\* is wrong.
THEOREM WalksHold == Spec => []WalkDecidesAcyclic
  <1>1. ASSUME TypeInv PROVE WalkDecidesAcyclic
    <2> DEFINE q == mem.records
    <2>1. IsMap(q, Meta)
      BY <1>1 DEF TypeInv, TypeOK, IsState
    <2>2. ASSUME NEW x \in DOMAIN q, NEW y \in DOMAIN q
          PROVE  IsMap([q EXCEPT ![x].by = y], Meta)
      <3>1. y \in Id /\ q[x] \in Meta /\ [q[x] EXCEPT !.by = y] \in Meta
        BY <2>1 DEF IsMap, Meta
      <3> QED
        BY <2>1, <3>1 DEF IsMap
    <2>3. ASSUME NEW r, IsMap(r, Meta) PROVE WalkDecides(r)
      <3>1. IsFiniteSet(DOMAIN r)
        BY <2>3, IdIsFinite, FS_Subset DEF IsMap
      <3> QED
        BY <2>3, <3>1, WalkDecidesCycles
    <2> QED
      BY <2>1, <2>2, <2>3 DEF WalkDecidesAcyclic, Relinked
  <1> QED
    BY <1>1, TypeInvHolds, PTL
-----------------------------------------------------------------------------
(***************************************************************************)
(* The documents.  A crash during a write loses the journal in memory: the *)
(* batch has to be in the journal on disk by then (JournalSaved).  A       *)
(* record may leave the state only after its document left the collection  *)
(* (ErasedFirst).                                                          *)
(***************************************************************************)
JournalSaved ==
    /\ pc \in {"journaled", "recover_write"} =>
          Batch(cur.order) \subseteq DOMAIN disk.pups
    /\ pc = "recover_write" => DOMAIN mem.pups \subseteq Batch(cur.order)

ErasedFirst ==
    /\ pc \in {"erasing", "recover_erase"} =>
          cur.erase \cap DOMAIN docs \subseteq cur.found
    /\ pc \in {"removing", "recover_remove"} => cur.erase \cap DOMAIN docs = {}
    /\ pc = "purging" => DOMAIN docs \subseteq cur.found
    /\ pc = "purged" => DOMAIN docs = {}

Known(s) == DOMAIN s.records \cup DOMAIN s.pups

\* DocumentsAccounted in these terms, with what makes it inductive.
DocInv ==
    /\ DOMAIN docs \subseteq Known(disk)
    /\ pc # "closed" => DOMAIN docs \subseteq Known(mem)
    /\ JournalSaved
    /\ ErasedFirst

\* The empty collection is accounted for.
LEMMA InitAccounted == Init => DocInv
  BY EmptyTyped DEF Init, DocInv, JournalSaved, ErasedFirst, Known

\* A save of a state that knows the documents leaves them known on disk.
LEMMA SaveAccounted ==
    ASSUME DocInv, NEW s, DOMAIN docs \subseteq Known(s),
           save_state(s) \/ save_fails(s)
    PROVE  DOMAIN docs \subseteq Known(disk')
  BY DEF DocInv, save_state, save_fails

\* A delete removes at least what it reports as deleted.
LEMMA DeleteAccounted ==
    ASSUME NEW F
    PROVE  /\ DeleteDocuments(F) => DOMAIN docs' = DOMAIN docs \ F
           /\ DeleteDocumentsFails(F) => DOMAIN docs' \subseteq DOMAIN docs
  BY DEF DeleteDocuments, DeleteDocumentsFails, Without

\* Applying a batch moves its ids from the journal to the records.
LEMMA AppliedAccounted ==
    ASSUME TypeInv, pc \in {"written", "recover_finalize"},
           Valid(Applied(mem, cur.order))
    PROVE  Known(Applied(mem, cur.order)) = Known(mem)
  <1>1. IsState(mem) /\ Batch(cur.order) \subseteq DOMAIN mem.pups
    BY BatchTyped DEF TypeInv, TypeOK
  <1> QED
    BY <1>1, AppliedTyped DEF Known

\* A delete's intent covers every document it will erase.
LEMMA DeleteIntentAccounted ==
    ASSUME TypeInv, DocInv, pc # "closed", NEW ids \in SUBSET Id,
           NEW tombstone \in BOOLEAN, DeleteIntent(ids, tombstone)
    PROVE  DocInv'
  <1> DEFINE F == Found(ids)
             T == IF tombstone THEN mem.tombs \cup Tombstones(F) ELSE mem.tombs
             P == mem.pdel \cup F
             s == [mem EXCEPT !.tombs = T, !.pdel = P]
  <1>1. /\ save_state(s) \/ save_fails(s)
        /\ mem' = s /\ UNCHANGED docs
        /\ \/ pc' = "idle"
           \/ /\ pc' = "erasing"
              /\ cur' = [NoOperation EXCEPT !.erase = F, !.found = F]
    BY DEF DeleteIntent
  <1>2. F \subseteq Id
    BY DEF Found
  <1> HIDE DEF T, P, F
  <1>3. Known(s) = Known(mem)
    BY DEF Known, TypeInv, TypeOK, IsState
  <1> HIDE DEF s
  <1>4. DOMAIN docs \subseteq Known(disk')
    BY <1>1, <1>3, SaveAccounted DEF DocInv
  <1>5. pc' = "erasing" => cur'.erase = F /\ cur'.found = F
    BY <1>1, <1>2, ErasingTyped
  <1> QED
    BY <1>1, <1>3, <1>4, <1>5 DEF DocInv, JournalSaved, ErasedFirst, Known

\* A request's first durable write keeps the documents accounted for.
LEMMA RequestAccounted ==
    ASSUME TypeInv, DocInv, Request
    PROVE  DocInv'
  <1>0. pc = "idle"
    BY DEF Request
  <1>1. CASE CommitsBatch
    <2>1. PICK j, order, imported, stale :
             /\ IsMap(j, Pending)
             /\ DOMAIN order = DOMAIN j
             /\ commit_pending_upserts(j, order, imported, stale)
      BY <1>1 DEF CommitsBatch
    <2> DEFINE s == [mem EXCEPT !.pups = [i \in DOMAIN @ \cup DOMAIN j |->
                                            IF i \in DOMAIN j THEN j[i] ELSE @[i]]]
               c == [NoOperation EXCEPT !.order = order, !.imported = imported,
                                        !.erase = stale]
    <2>2. /\ s.records = mem.records
          /\ DOMAIN s.pups = DOMAIN mem.pups \cup DOMAIN j
      BY <2>1, JournaledTyped DEF TypeInv, TypeOK
    <2>3. \/ save_state(s) /\ mem' = s /\ pc' = "journaled" /\ cur' = c
          \/ save_fails(s) /\ UNCHANGED <<mem, pc, cur>>
      BY <2>1 DEF commit_pending_upserts
    <2>4. UNCHANGED docs
      BY <2>1 DEF commit_pending_upserts
    <2>5. cur' = c => cur'.order = order
      BY DEF NoOperation
    <2> HIDE DEF s, c
    <2>6. DOMAIN docs \subseteq Known(s)
      BY <1>0, <2>2 DEF DocInv, Known
    <2>7. DOMAIN docs \subseteq Known(disk')
      BY <2>3, <2>6, SaveAccounted
    <2>8. CASE save_state(s) /\ mem' = s /\ pc' = "journaled" /\ cur' = c
      <3>1. disk' = s
        BY <2>8 DEF save_state
      <3> QED
        BY <2>1, <2>2, <2>4, <2>5, <2>6, <2>7, <2>8, <3>1
        DEF DocInv, JournalSaved, ErasedFirst, Known, Batch
    <2>9. CASE UNCHANGED <<mem, pc, cur>>
      BY <1>0, <2>4, <2>7, <2>9 DEF DocInv, JournalSaved, ErasedFirst
    <2> QED
      BY <2>3, <2>8, <2>9
  <1>2. ASSUME NEW i \in Id, NEW lock \in BOOLEAN, SetLocked(i, lock)
        PROVE  DocInv'
    <2> DEFINE R == [mem.records EXCEPT ![i] = [mem.records[i] EXCEPT !.locked = lock]]
               s == [mem EXCEPT !.records = R]
    <2>1. /\ save_state(s) \/ save_fails(s)
          /\ mem' = s \/ mem' = mem
          /\ UNCHANGED <<docs, pc, cur>>
      BY <1>2 DEF SetLocked
    <2>2. DOMAIN R = DOMAIN mem.records
      OBVIOUS
    <2> HIDE DEF R
    <2>3. Known(s) = Known(mem)
      BY <2>2 DEF Known, TypeInv, TypeOK, IsState
    <2> HIDE DEF s
    <2> QED
      BY <1>0, <2>1, <2>3, SaveAccounted DEF DocInv, JournalSaved, ErasedFirst
  <1>3. ASSUME NEW keep \in BOOLEAN, Purge(keep)
        PROVE  DocInv'
    <2>1. cur'.found = DOMAIN docs
      BY <1>3 DEF Purge, NoOperation
    <2> QED
      BY <1>0, <1>3, <2>1 DEF Purge, DocInv, JournalSaved, ErasedFirst
  <1> QED
    BY <1>0, <1>1, <1>2, <1>3, DeleteIntentAccounted, RequestCases
    DEF TypeInv, Delete

\* The documents of a batch are known from its journal entries.
LEMMA WriteAccounted ==
    ASSUME TypeInv, DocInv, NEW B, pc \in {"journaled", "recover_write"},
           B = Batch(cur.order) \/ (pc = "recover_write" /\ B = DOMAIN mem.pups),
           \/ WriteDocuments(mem.pups, B) \/ WriteDocumentsFails(mem.pups, B)
           \/ UpsertRefused(mem.pups, B)
    PROVE  /\ DOMAIN docs' \subseteq Known(disk)
           /\ DOMAIN docs' \subseteq Known(mem)
  <1>1. /\ IsMap(mem.pups, Pending) /\ TypeOK
        /\ Batch(cur.order) \subseteq DOMAIN mem.pups
    BY BatchTyped DEF TypeInv
  <1>2. B \subseteq DOMAIN mem.pups /\ B \subseteq DOMAIN disk.pups
    BY <1>1 DEF DocInv, JournalSaved
  <1>3. DOMAIN docs' \subseteq DOMAIN docs \cup B
    BY <1>1, <1>2, WriteTyped DEF UpsertRefused, GraphRefuses
  <1> QED
    BY <1>2, <1>3 DEF DocInv, Known

\* So does every later step of a handler.
LEMMA ProgressAccounted ==
    ASSUME TypeInv, DocInv, Progress
    PROVE  DocInv'
  <1>1. CASE Write
    <2>1. DOMAIN docs' \subseteq Known(disk) /\ DOMAIN docs' \subseteq Known(mem)
      BY <1>1, WriteAccounted DEF Write
    <2> QED
      BY <1>1, <2>1 DEF Write, DocInv, JournalSaved, ErasedFirst
  <1>2. CASE Finalize
    <2> DEFINE s == Applied(mem, cur.order)
    <2>1. /\ \/ save_state(s) /\ mem' = s
             \/ save_fails(s) /\ mem' = mem
          /\ UNCHANGED docs
          /\ pc = "written" /\ pc' \in {"tombstones", "delete", "idle"}
      BY <1>2 DEF Finalize, AfterCommit
    <2>2. Valid(s) => Known(s) = Known(mem)
      BY <2>1, AppliedAccounted
    <2> HIDE DEF s
    <2>3. DOMAIN docs' \subseteq Known(disk')
      BY <2>1, <2>2 DEF DocInv, save_state, save_fails
    <2> QED
      BY <2>1, <2>2, <2>3
      DEF DocInv, JournalSaved, ErasedFirst, save_state
  <1>3. CASE ImportTombstones
    <2> DEFINE s == [mem EXCEPT !.tombs = @ \cup cur.imported]
    <2>1. /\ save_state(s) \/ save_fails(s)
          /\ mem' = s /\ UNCHANGED docs
          /\ pc = "tombstones" /\ pc' = "idle"
      BY <1>3 DEF ImportTombstones
    <2>2. Known(s) = Known(mem)
      BY DEF Known, TypeInv, TypeOK, IsState
    <2> HIDE DEF s
    <2> QED
      BY <2>1, <2>2, SaveAccounted DEF DocInv, JournalSaved, ErasedFirst
  <1>4. CASE DeleteStale
    <2>1. CASE DeleteIntent(cur.erase, FALSE)
      BY <1>4, <2>1, DeleteIntentAccounted
      DEF DeleteStale, TypeInv, TypeOK, IsOperation
    <2>2. CASE ~DeleteIntent(cur.erase, FALSE)
      BY <1>4, <2>2 DEF DeleteStale, DocInv, JournalSaved, ErasedFirst
    <2> QED
      BY <2>1, <2>2
  <1>5. CASE Erase
    <2>1. CASE DeleteDocuments(cur.found) /\ pc' = "removing" /\ UNCHANGED cur
      BY <1>5, <2>1, DeleteAccounted
      DEF Erase, DocInv, JournalSaved, ErasedFirst
    <2>2. CASE DeleteDocumentsFails(cur.found) /\ pc' = "idle"
      BY <1>5, <2>2, DeleteAccounted
      DEF Erase, DocInv, JournalSaved, ErasedFirst
    <2> QED
      BY <1>5, <2>1, <2>2 DEF Erase
  <1>6. ASSUME NEW i \in Id, Remove(i)
        PROVE  DocInv'
    <2> DEFINE R == remove_state_record(mem.records, i)
    <2>1. /\ pc \in {"removing", "recover_remove"} /\ i \in cur.erase
          /\ mem' = [mem EXCEPT !.records = R, !.pdel = @ \ {i}]
          /\ cur' = [cur EXCEPT !.erase = @ \ {i}]
          /\ pc' \in {pc, "delete_save", "recover_save"}
          /\ UNCHANGED <<disk, docs>>
      BY <1>6 DEF Remove
    <2>2. DOMAIN mem.records \ {i} \subseteq DOMAIN R
      BY DEF remove_state_record
    <2> HIDE DEF R
    <2>3. mem'.records = R /\ mem'.pups = mem.pups
      BY <2>1 DEF TypeInv, TypeOK, IsState
    <2>4. cur'.erase = cur.erase \ {i}
      BY <2>1 DEF TypeInv, TypeOK, IsOperation
    <2>5. i \notin DOMAIN docs
      BY <2>1 DEF DocInv, ErasedFirst
    <2> QED
      BY <2>1, <2>2, <2>3, <2>4, <2>5
      DEF DocInv, JournalSaved, ErasedFirst, Known
  <1>7. CASE DeleteSave
    <2>1. DOMAIN docs \subseteq Known(mem)
      BY <1>7 DEF DeleteSave, DocInv
    <2> QED
      BY <1>7, <2>1, SaveAccounted
      DEF DeleteSave, DocInv, JournalSaved, ErasedFirst
  <1>8. CASE PurgeDocuments
    <2>1. CASE DeleteDocuments(cur.found) /\ pc' = "purged"
      BY <1>8, <2>1, DeleteAccounted
      DEF PurgeDocuments, DocInv, JournalSaved, ErasedFirst
    <2>2. CASE DeleteDocumentsFails(cur.found) /\ pc' = "idle"
      BY <1>8, <2>2, DeleteAccounted
      DEF PurgeDocuments, DocInv, JournalSaved, ErasedFirst
    <2> QED
      BY <1>8, <2>1, <2>2 DEF PurgeDocuments
  <1>9. CASE PurgeState
    <2>1. DOMAIN docs = {} /\ UNCHANGED docs /\ pc' = "idle"
      BY <1>9 DEF PurgeState, DocInv, ErasedFirst
    <2> QED
      BY <2>1 DEF DocInv, JournalSaved, ErasedFirst
  <1> QED
    BY <1>1, <1>2, <1>3, <1>4, <1>5, <1>6, <1>7, <1>8, <1>9 DEF Progress

\* The recovery of deletes erases every document before its record.
LEMMA RecoverDeletesAccounted ==
    ASSUME NEW s, IsState(s), RecoverDeletesOf(s), UNCHANGED docs
    PROVE  ErasedFirst' /\ pc' \in {"idle", "recover_erase"}
  <1>1. CASE s.pdel = {}
    BY <1>1 DEF RecoverDeletesOf, ErasedFirst
  <1>2. CASE s.pdel # {}
    <2> DEFINE P == s.pdel
               F == s.pdel \cap DOMAIN docs
    <2>1. /\ cur' = [NoOperation EXCEPT !.erase = P, !.found = F]
          /\ pc' = "recover_erase"
      BY <1>2 DEF RecoverDeletesOf
    <2>2. P \subseteq Id /\ F \subseteq Id /\ F = P \cap DOMAIN docs
      BY DEF IsState
    <2> HIDE DEF P, F
    <2>3. cur'.erase = P /\ cur'.found = F
      BY <2>1 DEF NoOperation
    <2> QED
      BY <2>1, <2>2, <2>3 DEF ErasedFirst
  <1> QED
    BY <1>1, <1>2

\* Every step of the recovery keeps the documents accounted for.
LEMMA RecoveryAccounted ==
    ASSUME TypeInv, DocInv, Recovery
    PROVE  DocInv'
  <1>0. Drop => pc' = "closed"
    BY DEF Drop
  <1>1. CASE Open
    <2>1. /\ mem' = disk /\ IsState(disk) /\ UNCHANGED <<disk, docs>>
      BY <1>1 DEF Open, TypeInv, TypeOK
    <2>2. CASE DOMAIN disk.pups = {}
      <3>1. ErasedFirst' /\ pc' \in {"idle", "recover_erase"}
        BY <1>1, <2>1, <2>2, RecoverDeletesAccounted DEF Open
      <3> QED
        BY <2>1, <3>1 DEF DocInv, JournalSaved
    <2>3. CASE DOMAIN disk.pups # {}
      <3>1. /\ pc' = "recover_write"
            /\ cur'.order = [i \in DOMAIN disk.pups |-> i]
        BY <1>1, <2>3 DEF Open, NoOperation
      <3> QED
        BY <2>1, <3>1 DEF DocInv, JournalSaved, ErasedFirst, Batch
    <2> QED
      BY <2>2, <2>3
  <1>2. CASE RecoverWrite
    <2>1. DOMAIN docs' \subseteq Known(disk) /\ DOMAIN docs' \subseteq Known(mem)
      BY <1>2, WriteAccounted DEF RecoverWrite
    <2> QED
      BY <1>0, <1>2, <2>1 DEF RecoverWrite, DocInv, JournalSaved, ErasedFirst
  <1>3. CASE RecoverFinalize
    <2> DEFINE s == Applied(mem, cur.order)
    <2>1. /\ \/ save_state(s) /\ mem' = s /\ RecoverDeletesOf(s)
             \/ save_fails(s) /\ Drop
             \/ UNCHANGED disk /\ Drop
          /\ UNCHANGED docs
          /\ pc = "recover_finalize"
      BY <1>3 DEF RecoverFinalize
    <2>2. Valid(s) => Known(s) = Known(mem) /\ IsState(s)
      BY <2>1, AppliedAccounted, AppliedTyped, BatchTyped DEF TypeInv, TypeOK
    <2> HIDE DEF s
    <2>3. DOMAIN docs' \subseteq Known(disk')
      BY <2>1, <2>2 DEF DocInv, save_state, save_fails
    <2>4. CASE save_state(s) /\ mem' = s /\ RecoverDeletesOf(s)
      <3>1. ErasedFirst' /\ pc' \in {"idle", "recover_erase"}
        BY <2>1, <2>2, <2>4, RecoverDeletesAccounted DEF save_state
      <3> QED
        BY <2>1, <2>2, <2>3, <2>4, <3>1 DEF DocInv, JournalSaved, save_state
    <2>5. CASE Drop
      BY <1>0, <2>3, <2>5 DEF DocInv, JournalSaved, ErasedFirst
    <2> QED
      BY <2>1, <2>4, <2>5
  <1>4. CASE RecoverErase
    <2>1. CASE DeleteDocuments(cur.found) /\ pc' = "recover_remove"
               /\ UNCHANGED <<mem, cur>>
      BY <1>4, <2>1, DeleteAccounted
      DEF RecoverErase, DocInv, JournalSaved, ErasedFirst
    <2>2. CASE DeleteDocumentsFails(cur.found) /\ Drop
      BY <1>0, <1>4, <2>2, DeleteAccounted
      DEF RecoverErase, DocInv, JournalSaved, ErasedFirst
    <2>3. CASE GraphRefuses /\ Drop
      BY <1>0, <1>4, <2>3
      DEF RecoverErase, GraphRefuses, DocInv, JournalSaved, ErasedFirst
    <2> QED
      BY <1>4, <2>1, <2>2, <2>3 DEF RecoverErase
  <1>5. CASE RecoverSave
    <2>1. DOMAIN docs \subseteq Known(mem)
      BY <1>5 DEF RecoverSave, DocInv
    <2> QED
      BY <1>0, <1>5, <2>1, SaveAccounted
      DEF RecoverSave, DocInv, JournalSaved, ErasedFirst
  <1> QED
    BY <1>1, <1>2, <1>3, <1>4, <1>5 DEF Recovery

\* So does a crash in the middle of a write or a delete.
LEMMA CrashAccounted ==
    ASSUME TypeInv, DocInv, Crash
    PROVE  DocInv'
  <1>1. pc' = "closed" /\ UNCHANGED disk
    BY DEF Crash, Drop
  <1>2. DOMAIN docs' \subseteq Known(disk)
    <2>1. CASE pc \in {"journaled", "recover_write"}
      <3>1. PICK W \in SUBSET Batch(cur.order) : docs' = Upserted(W, mem.pups)
        BY <2>1 DEF Crash
      <3>2. DOMAIN docs' = DOMAIN docs \cup W
        BY <3>1 DEF Upserted
      <3>3. W \subseteq DOMAIN disk.pups
        BY <2>1, <3>1 DEF DocInv, JournalSaved
      <3> QED
        BY <3>2, <3>3 DEF DocInv, Known
    <2>2. CASE pc \in {"erasing", "recover_erase", "purging"}
      <3>1. PICK W \in SUBSET cur.found : docs' = Without(W)
        BY <2>2 DEF Crash
      <3> QED
        BY <3>1 DEF Without, DocInv
    <2>3. CASE pc \notin {"journaled", "recover_write", "erasing",
                          "recover_erase", "purging"}
      BY <2>3 DEF Crash, DocInv
    <2> QED
      BY <2>1, <2>2, <2>3
  <1> QED
    BY <1>1, <1>2 DEF DocInv, JournalSaved, ErasedFirst

\* Every step keeps the documents accounted for.
LEMMA NextAccounted ==
    ASSUME TypeInv, DocInv, [Next]_vars
    PROVE  DocInv'
  <1>1. CASE UNCHANGED vars
    BY <1>1 DEF vars, DocInv, JournalSaved, ErasedFirst, Known
  <1> QED
    BY <1>1, RequestAccounted, ProgressAccounted, RecoveryAccounted,
       CrashAccounted
    DEF Next

\* At every instant, a crash included, every document in the collection is
\* known to state.json, as a record or as a journaled upsert: no document is
\* lost track of between the collection and the state.
THEOREM DocumentsHold == Spec => []DocumentsAccounted
  <1>1. DocInv => DocumentsAccounted
    BY DEF DocInv, DocumentsAccounted, Known
  <1> QED
    BY <1>1, InitAccounted, NextAccounted, TypeInvHolds, PTL DEF Spec
-----------------------------------------------------------------------------
(***************************************************************************)
(* The records.  A record without a document is one whose delete is still  *)
(* journaled, or whose document a purge removed.  A delete erases only     *)
(* documents of journaled ids, and a batch becomes records only when all   *)
(* its documents are in: both are needed for the step that follows.        *)
(***************************************************************************)
HaveDocuments(s) == DOMAIN s.records \subseteq DOMAIN docs \cup orphans \cup s.pdel

RecordInv ==
    /\ HaveDocuments(disk)
    /\ pc # "closed" => HaveDocuments(mem)
    /\ pc \in {"erasing", "recover_erase"} =>
          cur.found \subseteq disk.pdel \cap mem.pdel
    /\ pc \in {"written", "recover_finalize"} =>
          Batch(cur.order) \subseteq DOMAIN docs

\* The first state has no records.
LEMMA InitRecorded == Init => RecordInv
  BY EmptyTyped DEF Init, RecordInv, HaveDocuments

\* A save leaves the old state or the saved one on disk.
LEMMA SaveRecorded ==
    ASSUME RecordInv, NEW s, Valid(s) => HaveDocuments(s),
           save_state(s) \/ save_fails(s),
           DOMAIN docs \cup orphans \subseteq DOMAIN docs' \cup orphans'
    PROVE  HaveDocuments(disk)'
  BY DEF RecordInv, HaveDocuments, save_state, save_fails

\* A step that removes no document and touches neither copy of the state.
LEMMA KeepRecorded ==
    ASSUME RecordInv, UNCHANGED disk, mem' = mem \/ pc' = "closed",
           pc' = "closed" \/ pc # "closed",
           DOMAIN docs \cup orphans \subseteq DOMAIN docs' \cup orphans'
    PROVE  /\ HaveDocuments(disk)'
           /\ pc' # "closed" => HaveDocuments(mem)'
  BY DEF RecordInv, HaveDocuments

\* A write of a batch only adds documents, and all of them when it succeeds.
LEMMA WriteRecorded ==
    ASSUME NEW j, NEW B
    PROVE  /\ WriteDocuments(j, B) => DOMAIN docs' = DOMAIN docs \cup B
           /\ WriteDocumentsFails(j, B) => DOMAIN docs \subseteq DOMAIN docs'
  BY DEF WriteDocuments, WriteDocumentsFails, Upserted

\* A delete of documents, done or failed, removes none but those.
LEMMA DeleteRecorded ==
    ASSUME NEW F, DeleteDocuments(F) \/ DeleteDocumentsFails(F)
    PROVE  DOMAIN docs \subseteq DOMAIN docs' \cup F
  BY DEF DeleteDocuments, DeleteDocumentsFails, Without

\* Erasing the documents of journaled deletes.
LEMMA EraseRecorded ==
    ASSUME RecordInv, pc \in {"erasing", "recover_erase"},
           DeleteDocuments(cur.found) \/ DeleteDocumentsFails(cur.found),
           UNCHANGED <<disk, orphans>>, mem' = mem \/ pc' = "closed"
    PROVE  /\ HaveDocuments(disk)'
           /\ pc' # "closed" => HaveDocuments(mem)'
  BY DeleteRecorded DEF RecordInv, HaveDocuments

\* The batch applied has its documents.
LEMMA AppliedRecorded ==
    ASSUME TypeInv, RecordInv, pc \in {"written", "recover_finalize"},
           Valid(Applied(mem, cur.order))
    PROVE  HaveDocuments(Applied(mem, cur.order))
  <1> DEFINE s == Applied(mem, cur.order)
  <1>1. IsState(mem) /\ Batch(cur.order) \subseteq DOMAIN mem.pups
    BY BatchTyped DEF TypeInv, TypeOK
  <1>2. DOMAIN s.records = DOMAIN mem.records \cup Batch(cur.order)
    BY <1>1, AppliedTyped
  <1>3. s.pdel = mem.pdel
    BY <1>1 DEF Applied, IsState
  <1> HIDE DEF s
  <1>4. HaveDocuments(s)
    BY <1>2, <1>3 DEF RecordInv, HaveDocuments
  <1> QED
    BY <1>4 DEF s

\* The intent of a delete journals what it will erase, on disk and in memory.
LEMMA DeleteIntentRecorded ==
    ASSUME TypeInv, RecordInv, pc # "closed", NEW ids \in SUBSET Id,
           NEW tombstone \in BOOLEAN, DeleteIntent(ids, tombstone)
    PROVE  RecordInv'
  <1> DEFINE F == Found(ids)
             T == IF tombstone THEN mem.tombs \cup Tombstones(F) ELSE mem.tombs
             P == mem.pdel \cup F
             s == [mem EXCEPT !.tombs = T, !.pdel = P]
  <1>1. /\ \/ save_state(s)
           \/ save_fails(s) /\ pc' = "idle"
        /\ mem' = s /\ UNCHANGED <<docs, orphans>>
        /\ \/ pc' = "idle"
           \/ /\ pc' = "erasing"
              /\ cur' = [NoOperation EXCEPT !.erase = F, !.found = F]
    BY DEF DeleteIntent
  <1>2. F \subseteq Id /\ F \subseteq P /\ mem.pdel \subseteq P
    BY DEF Found
  <1> HIDE DEF T, P, F
  <1>3. s.records = mem.records /\ s.pdel = P
    BY DEF TypeInv, TypeOK, IsState
  <1> HIDE DEF s
  <1>4. HaveDocuments(s)
    BY <1>2, <1>3 DEF RecordInv, HaveDocuments
  <1>5. HaveDocuments(disk)' /\ HaveDocuments(mem)'
    <2>1. HaveDocuments(disk)'
      BY <1>1, <1>4, SaveRecorded
    <2> QED
      BY <1>1, <1>4, <2>1 DEF HaveDocuments
  <1>6. pc' = "erasing" => cur'.found = F /\ disk' = s /\ mem' = s
    BY <1>1, <1>2, ErasingTyped DEF save_state
  <1> QED
    BY <1>1, <1>2, <1>3, <1>5, <1>6 DEF RecordInv

\* A request's first durable write leaves every record accounted for.
LEMMA RequestRecorded ==
    ASSUME TypeInv, RecordInv, Request
    PROVE  RecordInv'
  <1>0. pc = "idle"
    BY DEF Request
  <1>1. CASE CommitsBatch
    <2>1. PICK j, order, imported, stale :
             /\ IsMap(j, Pending)
             /\ commit_pending_upserts(j, order, imported, stale)
      BY <1>1 DEF CommitsBatch
    <2> DEFINE s == [mem EXCEPT !.pups = [i \in DOMAIN @ \cup DOMAIN j |->
                                            IF i \in DOMAIN j THEN j[i] ELSE @[i]]]
    <2>2. s.records = mem.records /\ s.pdel = mem.pdel
      BY DEF TypeInv, TypeOK, IsState
    <2>3. /\ save_state(s) \/ save_fails(s)
          /\ mem' \in {s, mem} /\ pc' \in {"idle", "journaled"}
          /\ UNCHANGED <<docs, orphans>>
      BY <1>0, <2>1 DEF commit_pending_upserts
    <2> HIDE DEF s
    <2>4. HaveDocuments(s)
      BY <1>0, <2>2 DEF RecordInv, HaveDocuments
    <2>5. HaveDocuments(disk)'
      BY <2>3, <2>4, SaveRecorded
    <2> QED
      BY <1>0, <2>2, <2>3, <2>5 DEF RecordInv, HaveDocuments
  <1>2. ASSUME NEW i \in Id, NEW lock \in BOOLEAN, SetLocked(i, lock)
        PROVE  RecordInv'
    <2> DEFINE R == [mem.records EXCEPT ![i] = [mem.records[i] EXCEPT !.locked = lock]]
               s == [mem EXCEPT !.records = R]
    <2>1. /\ save_state(s) \/ save_fails(s)
          /\ mem' = s \/ mem' = mem
          /\ UNCHANGED <<docs, pc, cur, orphans>>
      BY <1>2 DEF SetLocked, ghosts
    <2>2. DOMAIN R = DOMAIN mem.records
      OBVIOUS
    <2> HIDE DEF R
    <2>3. s.records = R /\ s.pdel = mem.pdel
      BY DEF TypeInv, TypeOK, IsState
    <2> HIDE DEF s
    <2>4. HaveDocuments(s)
      BY <1>0, <2>2, <2>3 DEF RecordInv, HaveDocuments
    <2>5. HaveDocuments(disk)'
      BY <2>1, <2>4, SaveRecorded
    <2> QED
      BY <1>0, <2>1, <2>2, <2>3, <2>5 DEF RecordInv, HaveDocuments
  <1>3. ASSUME NEW keep \in BOOLEAN, Purge(keep)
        PROVE  RecordInv'
    BY <1>0, <1>3 DEF Purge, RecordInv, HaveDocuments
  <1> QED
    BY <1>0, <1>1, <1>2, <1>3, DeleteIntentRecorded, RequestCases
    DEF TypeInv, Delete

\* So does every later step of a handler.
LEMMA ProgressRecorded ==
    ASSUME TypeInv, DocInv, RecordInv, Progress
    PROVE  RecordInv'
  <1>1. CASE Write
    <2>1. CASE WriteDocuments(mem.pups, Batch(cur.order)) /\ pc' = "written"
               /\ UNCHANGED cur
      <3>1. DOMAIN docs' = DOMAIN docs \cup Batch(cur.order)
        BY <2>1, WriteRecorded
      <3> QED
        BY <1>1, <2>1, <3>1 DEF Write, ghosts, RecordInv, HaveDocuments, Batch
    <2>2. CASE WriteDocumentsFails(mem.pups, Batch(cur.order)) /\ pc' = "idle"
      <3>1. DOMAIN docs \subseteq DOMAIN docs'
        BY <2>2, WriteRecorded
      <3> QED
        BY <1>1, <2>2, <3>1 DEF Write, ghosts, RecordInv, HaveDocuments
    <2>3. CASE UNCHANGED docs /\ pc' = "idle"
      BY <1>1, <2>3 DEF Write, ghosts, RecordInv, HaveDocuments
    <2> QED
      BY <1>1, <2>1, <2>2, <2>3 DEF Write, UpsertRefused, GraphRefuses
  <1>2. CASE Finalize
    <2> DEFINE s == Applied(mem, cur.order)
    <2>1. /\ \/ save_state(s) /\ mem' = s /\ orphans' = orphans \ Batch(cur.order)
             \/ save_fails(s) /\ mem' = mem /\ orphans' = orphans
          /\ UNCHANGED docs
          /\ pc = "written" /\ pc' \in {"tombstones", "delete", "idle"}
      BY <1>2 DEF Finalize, AfterCommit, ghosts
    <2>2. Valid(s) => HaveDocuments(s)
      BY <2>1, AppliedRecorded
    <2> HIDE DEF s
    <2>3. DOMAIN docs \cup orphans \subseteq DOMAIN docs' \cup orphans'
      BY <2>1 DEF RecordInv
    <2>4. HaveDocuments(disk)'
      BY <2>1, <2>2, <2>3, SaveRecorded
    <2>5. HaveDocuments(mem)'
      BY <2>1, <2>2, <2>3 DEF RecordInv, HaveDocuments, save_state
    <2> QED
      BY <2>1, <2>4, <2>5 DEF RecordInv
  <1>3. CASE ImportTombstones
    <2> DEFINE s == [mem EXCEPT !.tombs = @ \cup cur.imported]
    <2>1. /\ save_state(s) \/ save_fails(s)
          /\ mem' = s /\ UNCHANGED <<docs, orphans>>
          /\ pc = "tombstones" /\ pc' = "idle"
      BY <1>3 DEF ImportTombstones, ghosts
    <2>2. s.records = mem.records /\ s.pdel = mem.pdel
      BY DEF TypeInv, TypeOK, IsState
    <2> HIDE DEF s
    <2>3. HaveDocuments(s)
      BY <2>1, <2>2 DEF RecordInv, HaveDocuments
    <2>4. HaveDocuments(disk)'
      BY <2>1, <2>3, SaveRecorded
    <2> QED
      BY <2>1, <2>3, <2>4 DEF RecordInv, HaveDocuments
  <1>4. CASE DeleteStale
    <2>1. CASE DeleteIntent(cur.erase, FALSE)
      BY <1>4, <2>1, DeleteIntentRecorded
      DEF DeleteStale, TypeInv, TypeOK, IsOperation
    <2>2. CASE ~DeleteIntent(cur.erase, FALSE)
      BY <1>4, <2>2 DEF DeleteStale, ghosts, RecordInv, HaveDocuments
    <2> QED
      BY <2>1, <2>2
  <1>5. CASE Erase
    <2>1. HaveDocuments(disk)' /\ HaveDocuments(mem)'
      BY <1>5, EraseRecorded DEF Erase, ghosts
    <2> QED
      BY <1>5, <2>1 DEF Erase, RecordInv
  <1>6. ASSUME NEW i \in Id, Remove(i)
        PROVE  RecordInv'
    <2> DEFINE R == remove_state_record(mem.records, i)
    <2>1. /\ pc \in {"removing", "recover_remove"} /\ i \in cur.erase
          /\ mem' = [mem EXCEPT !.records = R, !.pdel = @ \ {i}]
          /\ pc' \in {pc, "delete_save", "recover_save"}
          /\ UNCHANGED <<disk, docs, orphans>>
      BY <1>6 DEF Remove, ghosts
    <2>2. DOMAIN R = DOMAIN mem.records \ {i}
      BY DEF remove_state_record
    <2> HIDE DEF R
    <2>3. mem'.records = R /\ mem'.pdel = mem.pdel \ {i}
      BY <2>1 DEF TypeInv, TypeOK, IsState
    <2> QED
      BY <2>1, <2>2, <2>3 DEF RecordInv, HaveDocuments
  <1>7. CASE DeleteSave
    <2>1. HaveDocuments(mem) /\ UNCHANGED <<docs, orphans>>
      BY <1>7 DEF DeleteSave, RecordInv
    <2>2. HaveDocuments(disk)'
      BY <1>7, <2>1, SaveRecorded DEF DeleteSave
    <2> QED
      BY <1>7, <2>1, <2>2 DEF DeleteSave, RecordInv, HaveDocuments
  <1>8. CASE PurgeDocuments
    <2>1. DOMAIN docs \subseteq DOMAIN docs' \cup cur.found
      BY <1>8, DeleteRecorded DEF PurgeDocuments
    <2>2. /\ DOMAIN docs \cup orphans \subseteq DOMAIN docs' \cup orphans'
          /\ UNCHANGED <<mem, disk>> /\ pc = "purging"
          /\ pc' \in {"purged", "idle"}
      BY <1>8, <2>1 DEF PurgeDocuments
    <2> QED
      BY <2>2 DEF RecordInv, HaveDocuments
  <1>9. CASE PurgeState
    <2> DEFINE s == [EmptyState EXCEPT !.tombs = IF cur.keep THEN mem.tombs ELSE {}]
    <2>1. /\ \/ save_state(s)
             \/ save_fails(s) /\ UNCHANGED orphans
          /\ mem' = s /\ UNCHANGED docs /\ pc' = "idle"
      BY <1>9 DEF PurgeState, ghosts
    <2>2. s.records = EmptyMap
      BY DEF EmptyState
    <2> HIDE DEF s
    <2>3. DOMAIN s.records = {}
      BY <2>2, EmptyTyped
    <2>4. disk' = s \/ (disk' = disk /\ UNCHANGED orphans)
      BY <2>1 DEF save_state, save_fails
    <2> QED
      BY <2>1, <2>3, <2>4 DEF RecordInv, HaveDocuments
  <1> QED
    BY <1>1, <1>2, <1>3, <1>4, <1>5, <1>6, <1>7, <1>8, <1>9 DEF Progress

\* The recovery of deletes erases documents of journaled ids.
LEMMA RecoverDeletesRecorded ==
    ASSUME NEW s, IsState(s), RecoverDeletesOf(s)
    PROVE  /\ pc' \in {"idle", "recover_erase"}
           /\ pc' = "recover_erase" =>
                /\ cur'.erase = s.pdel
                /\ cur'.found = s.pdel \cap DOMAIN docs
  <1>1. CASE s.pdel = {}
    BY <1>1 DEF RecoverDeletesOf
  <1>2. CASE s.pdel # {}
    <2> DEFINE P == s.pdel
               F == s.pdel \cap DOMAIN docs
    <2>1. /\ cur' = [NoOperation EXCEPT !.erase = P, !.found = F]
          /\ pc' = "recover_erase"
      BY <1>2 DEF RecoverDeletesOf
    <2>2. P \subseteq Id /\ F \subseteq Id /\ F = P \cap DOMAIN docs
      BY DEF IsState
    <2> HIDE DEF P, F
    <2>3. cur'.erase = P /\ cur'.found = F
      BY <2>1 DEF NoOperation
    <2> QED
      BY <2>1, <2>2, <2>3 DEF P
  <1> QED
    BY <1>1, <1>2

\* Every step of the recovery leaves the records accounted for.
LEMMA RecoveryRecorded ==
    ASSUME TypeInv, DocInv, RecordInv, Recovery
    PROVE  RecordInv'
  <1>0. Drop => pc' = "closed"
    BY DEF Drop
  <1>1. CASE Open
    <2>1. /\ mem' = disk /\ IsState(disk) /\ UNCHANGED <<disk, docs, orphans>>
      BY <1>1 DEF Open, ghosts, TypeInv, TypeOK
    <2>2. CASE DOMAIN disk.pups = {}
      <3>1. /\ pc' \in {"idle", "recover_erase"}
            /\ pc' = "recover_erase" => cur'.found \subseteq disk.pdel
        BY <1>1, <2>1, <2>2, RecoverDeletesRecorded DEF Open
      <3> QED
        BY <2>1, <3>1 DEF RecordInv, HaveDocuments
    <2>3. CASE DOMAIN disk.pups # {}
      <3>1. pc' = "recover_write"
        BY <1>1, <2>3 DEF Open
      <3> QED
        BY <2>1, <3>1 DEF RecordInv, HaveDocuments
    <2> QED
      BY <2>2, <2>3
  <1>2. CASE RecoverWrite
    <2> DEFINE B == DOMAIN mem.pups
    <2>1. CASE WriteDocuments(mem.pups, B) /\ pc' = "recover_finalize"
               /\ UNCHANGED <<mem, cur>>
      <3>1. DOMAIN docs' = DOMAIN docs \cup B
        BY <2>1, WriteRecorded
      <3>2. Batch(cur.order) \subseteq B
        BY <1>2, BatchTyped DEF RecoverWrite
      <3> HIDE DEF B
      <3> QED
        BY <1>2, <2>1, <3>1, <3>2
        DEF RecoverWrite, ghosts, RecordInv, HaveDocuments, Batch
    <2>2. CASE WriteDocumentsFails(mem.pups, B) /\ Drop
      <3>1. DOMAIN docs \subseteq DOMAIN docs'
        BY <2>2, WriteRecorded
      <3> QED
        BY <1>0, <1>2, <2>2, <3>1
        DEF RecoverWrite, ghosts, RecordInv, HaveDocuments
    <2>3. CASE UNCHANGED docs /\ Drop
      BY <1>0, <1>2, <2>3 DEF RecoverWrite, ghosts, RecordInv, HaveDocuments
    <2> QED
      BY <1>2, <2>1, <2>2, <2>3 DEF RecoverWrite, UpsertRefused, GraphRefuses
  <1>3. CASE RecoverFinalize
    <2> DEFINE s == Applied(mem, cur.order)
    <2>1. /\ \/ /\ save_state(s) /\ mem' = s /\ RecoverDeletesOf(s)
                /\ orphans' = orphans \ Batch(cur.order)
             \/ save_fails(s) /\ Drop /\ UNCHANGED orphans
             \/ Drop /\ UNCHANGED <<disk, orphans>>
          /\ UNCHANGED docs
          /\ pc = "recover_finalize"
      BY <1>3 DEF RecoverFinalize
    <2>2. Valid(s) => HaveDocuments(s) /\ IsState(s)
      BY <2>1, AppliedRecorded, AppliedTyped, BatchTyped DEF TypeInv, TypeOK
    <2> HIDE DEF s
    <2>3. DOMAIN docs \cup orphans \subseteq DOMAIN docs' \cup orphans'
      BY <2>1 DEF RecordInv
    <2>4. HaveDocuments(disk)'
      BY <2>1, <2>2, <2>3, SaveRecorded DEF RecordInv, HaveDocuments
    <2>5. CASE save_state(s) /\ mem' = s /\ RecoverDeletesOf(s)
      <3>1. disk' = s /\ HaveDocuments(s) /\ IsState(s)
        BY <2>2, <2>5 DEF save_state
      <3>2. /\ pc' \in {"idle", "recover_erase"}
            /\ pc' = "recover_erase" => cur'.found \subseteq s.pdel
        BY <2>5, <3>1, RecoverDeletesRecorded
      <3> QED
        BY <2>3, <2>4, <2>5, <3>1, <3>2 DEF RecordInv, HaveDocuments
    <2>6. CASE Drop
      BY <1>0, <2>4, <2>6 DEF RecordInv
    <2> QED
      BY <2>1, <2>5, <2>6
  <1>4. CASE RecoverErase
    <2>1. /\ HaveDocuments(disk)'
          /\ pc' # "closed" => HaveDocuments(mem)'
      <3>1. CASE UNCHANGED docs /\ Drop
        BY <1>0, <1>4, <3>1 DEF RecoverErase, ghosts, RecordInv, HaveDocuments
      <3> QED
        BY <1>0, <1>4, <3>1, EraseRecorded DEF RecoverErase, GraphRefuses, ghosts
    <2> QED
      BY <1>0, <1>4, <2>1 DEF RecoverErase, RecordInv
  <1>5. CASE RecoverSave
    <2>1. HaveDocuments(mem) /\ UNCHANGED <<docs, orphans>>
      BY <1>5 DEF RecoverSave, ghosts, RecordInv
    <2>2. HaveDocuments(disk)'
      BY <1>5, <2>1, SaveRecorded DEF RecoverSave
    <2> QED
      BY <1>0, <1>5, <2>1, <2>2 DEF RecoverSave, RecordInv, HaveDocuments
  <1> QED
    BY <1>1, <1>2, <1>3, <1>4, <1>5 DEF Recovery

\* So does a crash in the middle of a write or a delete.
LEMMA CrashRecorded ==
    ASSUME TypeInv, DocInv, RecordInv, Crash
    PROVE  RecordInv'
  <1>1. pc' = "closed" /\ UNCHANGED disk
    BY DEF Crash, Drop
  <1>2. HaveDocuments(disk)'
    <2>1. CASE pc \in {"journaled", "recover_write"}
      <3>1. PICK W \in SUBSET Batch(cur.order) : docs' = Upserted(W, mem.pups)
        BY <2>1 DEF Crash
      <3>2. DOMAIN docs \subseteq DOMAIN docs' /\ UNCHANGED orphans
        BY <2>1, <3>1 DEF Crash, Upserted
      <3> QED
        BY <1>1, <3>2 DEF RecordInv, HaveDocuments
    <2>2. CASE pc \in {"erasing", "recover_erase", "purging"}
      <3>1. PICK W \in SUBSET cur.found : docs' = Without(W)
        BY <2>2 DEF Crash
      <3>2. DOMAIN docs' = DOMAIN docs \ W
        BY <3>1 DEF Without
      <3>3. orphans' = IF pc = "purging" THEN orphans \cup cur.found ELSE orphans
        BY DEF Crash
      <3> QED
        BY <1>1, <2>2, <3>2, <3>3 DEF RecordInv, HaveDocuments
    <2>3. CASE pc \notin {"journaled", "recover_write", "erasing",
                          "recover_erase", "purging"}
      BY <1>1, <2>3 DEF Crash, RecordInv, HaveDocuments
    <2> QED
      BY <2>1, <2>2, <2>3
  <1> QED
    BY <1>1, <1>2 DEF RecordInv

\* Every step leaves the records accounted for.
LEMMA NextRecorded ==
    ASSUME TypeInv, DocInv, RecordInv, [Next]_vars
    PROVE  RecordInv'
  <1>1. CASE UNCHANGED vars
    BY <1>1 DEF vars, ghosts, RecordInv, HaveDocuments
  <1> QED
    BY <1>1, RequestRecorded, ProgressRecorded, RecoveryRecorded, CrashRecorded
    DEF Next

\* Between operations every record has its document, unless its delete is still
\* journaled or a purge was cut short: whatever order the writes of
\* commit_pending_upserts and delete_internal fail in, and wherever the process
\* dies, no memory is listed whose text is gone.
THEOREM RecordsHold == Spec => []RecordsHaveDocuments
  <1>1. RecordInv => RecordsHaveDocuments
    BY DEF RecordInv, RecordsHaveDocuments, HaveDocuments
  <1> QED
    BY <1>1, InitRecorded, NextRecorded, InitAccounted, NextAccounted,
       TypeInvHolds, PTL DEF Spec
-----------------------------------------------------------------------------
(***************************************************************************)
(* What callers were promised.  It holds until a durable write fails: a    *)
(* delete that failed midway stays journaled while the engine is open, and *)
(* a later commit of that id does not withdraw it.  Until then the state   *)
(* in memory is the one on disk except while records are being removed     *)
(* (Removing), no delete is journaled between two operations, and no id    *)
(* that is owed a version has an intent of either kind.  A batch the graph *)
(* refused stays in the journal behind that; as long as there is none, at  *)
(* most one operation is journaled (Single).                               *)
(***************************************************************************)
Quiet == {"idle", "tombstones", "delete", "purging", "purged"}
Committing == {"journaled", "written", "recover_write", "recover_finalize"}
Deleting == {"erasing", "recover_erase"}
Removing == {"removing", "recover_remove", "delete_save", "recover_save"}

NoUpserts == DOMAIN disk.pups = {}

Owing ==
    \A i \in Id :
        /\ owed[i] \in Version =>
             /\ i \in DOMAIN disk.records /\ i \in DOMAIN docs
             /\ docs[i] = owed[i]
             /\ i \notin disk.pdel /\ i \notin DOMAIN disk.pups
        /\ owed[i] = "kept" =>
             /\ i \in DOMAIN disk.records /\ i \in DOMAIN docs
             /\ i \notin disk.pdel
        /\ ~refused /\ owed[i] = "gone" =>
             i \notin DOMAIN docs /\ i \notin DOMAIN disk.pups

Single ==
    /\ NoUpserts \/ disk.pdel = {}
    /\ pc \in Quiet \cup Deleting \cup Removing => NoUpserts
    /\ pc \in Committing =>
          DOMAIN disk.pups = Batch(cur.order) /\ disk.pdel = {}

InStep ==
    /\ pc \in Quiet => mem = disk /\ disk.pdel = {}
    /\ pc \in Committing => mem = disk /\ Batch(cur.order) \subseteq DOMAIN disk.pups
    /\ pc \in {"journaled", "written"} => disk.pdel = {}
    /\ pc \in {"recover_write", "recover_finalize"} =>
          DOMAIN disk.pups = Batch(cur.order)
    /\ pc \in {"written", "recover_finalize"} =>
          \A i \in Batch(cur.order) :
              i \in DOMAIN docs /\ docs[i] = disk.pups[i].ver
    /\ pc \in Deleting =>
          /\ mem = disk
          /\ cur.erase = disk.pdel /\ cur.found \subseteq disk.pdel
    /\ pc \in Removing =>
          /\ mem.pups = disk.pups
          /\ cur.erase \cup cur.found \subseteq disk.pdel
          /\ mem.pdel \subseteq cur.erase
          /\ cur.found \cap DOMAIN docs = {}
          /\ DOMAIN disk.records \ disk.pdel \subseteq DOMAIN mem.records
    /\ pc \in {"delete_save", "recover_save"} => cur.erase = {}
    /\ pc \in {"purging", "purged"} => \A i \in Id : owed[i] = "open"
    /\ ~refused => Single

PromiseInv == faults = 0 => Owing /\ InStep

\* A step that ends without a failed write had none.
LEMMA NoFault ==
    ASSUME TypeOK, faults' = 0
    PROVE  /\ \A s : ~save_fails(s)
           /\ \A j, B : ~WriteDocumentsFails(j, B)
           /\ \A F : ~DeleteDocumentsFails(F)
  BY BoundAssumption
  DEF TypeOK, save_fails, WriteDocumentsFails, DeleteDocumentsFails

\* Failed writes are counted and never forgotten.
LEMMA FaultsGrow ==
    ASSUME TypeOK, [Next]_vars, faults' = 0
    PROVE  faults = 0
  <1>1. /\ \A s : ~save_fails(s)
        /\ \A j, B : ~WriteDocumentsFails(j, B)
        /\ \A F : ~DeleteDocumentsFails(F)
    BY NoFault
  <1>2. ASSUME NEW ids, NEW tombstone, DeleteIntent(ids, tombstone)
        PROVE  UNCHANGED faults
    BY <1>1, <1>2 DEF DeleteIntent, save_state
  <1>3. CASE Request
    <2>1. CASE CommitsBatch
      BY <1>1, <2>1 DEF CommitsBatch, commit_pending_upserts, save_state
    <2>2. ASSUME NEW i \in Id, NEW lock \in BOOLEAN, SetLocked(i, lock)
          PROVE  UNCHANGED faults
      BY <1>1, <2>2 DEF SetLocked, save_state
    <2> QED
      BY <1>2, <1>3, <2>1, <2>2, RequestCases DEF Delete, Purge
  <1>4. CASE Progress
    <2>1. CASE Write \/ Erase \/ PurgeDocuments
      BY <1>1, <2>1
      DEF Write, Erase, PurgeDocuments, WriteDocuments, DeleteDocuments,
          UpsertRefused, GraphRefuses
    <2>2. CASE Finalize \/ ImportTombstones \/ DeleteSave \/ PurgeState
      BY <1>1, <2>2
      DEF Finalize, ImportTombstones, DeleteSave, PurgeState, save_state
    <2>3. CASE DeleteStale
      BY <1>2, <2>3 DEF DeleteStale
    <2>4. ASSUME NEW i \in Id, Remove(i)
          PROVE  UNCHANGED faults
      BY <2>4 DEF Remove
    <2> QED
      BY <1>4, <2>1, <2>2, <2>3, <2>4 DEF Progress
  <1>5. CASE Recovery
    BY <1>1, <1>5
    DEF Recovery, Open, RecoverWrite, RecoverFinalize, RecoverErase,
        RecoverSave, WriteDocuments, DeleteDocuments, save_state,
        UpsertRefused, GraphRefuses
  <1>6. CASE Crash \/ UNCHANGED vars
    BY <1>6 DEF Crash, vars
  <1> QED
    BY <1>3, <1>4, <1>5, <1>6 DEF Next

\* A batch that was left in the journal is never forgotten.
LEMMA RefusalRemembered ==
    ASSUME TypeOK, [Next]_vars, ~refused'
    PROVE  ~refused
  <1>1. ASSUME NEW ids, NEW tombstone, DeleteIntent(ids, tombstone)
        PROVE  UNCHANGED refused
    BY <1>1 DEF DeleteIntent
  <1>2. CASE Request
    BY <1>1, <1>2, RequestCases
    DEF CommitsBatch, commit_pending_upserts, SetLocked, Delete, Purge
  <1>3. CASE Progress
    BY <1>1, <1>3
    DEF Progress, Write, Finalize, ImportTombstones, DeleteStale, Erase,
        DeleteSave, PurgeDocuments, PurgeState, Remove
  <1>4. CASE Recovery
    BY <1>4
    DEF Recovery, Open, RecoverWrite, RecoverFinalize, RecoverErase,
        RecoverSave
  <1>5. CASE Crash \/ UNCHANGED vars
    BY <1>5 DEF Crash, vars
  <1> QED
    BY <1>2, <1>3, <1>4, <1>5 DEF Next

\* Nothing is promised about the first state.
LEMMA InitPromised == Init => Owing /\ InStep
  BY EmptyTyped, DebtAssumption
  DEF Init, Owing, InStep, Single, NoUpserts, Quiet, Committing, Deleting,
      Removing, EmptyState

\* The batch applied is a state without the intent of the batch.
LEMMA AppliedPromised ==
    ASSUME TypeInv, InStep, pc \in {"written", "recover_finalize"},
           Valid(Applied(mem, cur.order))
    PROVE  LET s == Applied(mem, cur.order)
           IN /\ IsState(s)
              /\ DOMAIN s.records = DOMAIN disk.records \cup Batch(cur.order)
              /\ DOMAIN s.pups = DOMAIN disk.pups \ Batch(cur.order)
              /\ s.pdel = disk.pdel
  <1>1. IsState(mem) /\ Batch(cur.order) \subseteq DOMAIN mem.pups
    BY BatchTyped DEF TypeInv, TypeOK
  <1>2. mem = disk
    BY DEF InStep, Committing
  <1>3. Applied(mem, cur.order).pdel = mem.pdel
    BY <1>1 DEF Applied, IsState
  <1> QED
    BY <1>1, <1>2, <1>3, AppliedTyped

\* The documents of a whole batch carry the versions of its entries.
LEMMA WritePromised ==
    ASSUME NEW j, NEW B, WriteDocuments(j, B)
    PROVE  /\ DOMAIN docs' = DOMAIN docs \cup B
           /\ \A i \in B : docs'[i] = j[i].ver
           /\ \A i \in DOMAIN docs \ B : docs'[i] = docs[i]
  BY DEF WriteDocuments, Upserted

\* A delete of documents leaves the others as they are.
LEMMA DeletePromised ==
    ASSUME NEW F, DeleteDocuments(F)
    PROVE  /\ DOMAIN docs' = DOMAIN docs \ F
           /\ \A i \in DOMAIN docs \ F : docs'[i] = docs[i]
  BY DEF DeleteDocuments, Without

\* The intent of a delete suspends what is owed about the ids it names.
LEMMA DeleteIntentPromised ==
    ASSUME TypeInv, Owing, InStep, faults' = 0, pc \in {"idle", "delete"},
           NEW ids \in SUBSET Id, NEW tombstone \in BOOLEAN,
           DeleteIntent(ids, tombstone)
    PROVE  Owing' /\ InStep'
  <1> DEFINE F == Found(ids)
             T == IF tombstone THEN mem.tombs \cup Tombstones(F) ELSE mem.tombs
             P == mem.pdel \cup F
             s == [mem EXCEPT !.tombs = T, !.pdel = P]
  <1>1. /\ save_state(s) /\ mem' = s /\ UNCHANGED docs
        /\ owed' = Settle(F, [i \in F |-> "open"])
        /\ pc' = IF F = {} THEN "idle" ELSE "erasing"
        /\ cur' = IF F = {} THEN NoOperation
                  ELSE [NoOperation EXCEPT !.erase = F, !.found = F]
        /\ UNCHANGED refused
    BY NoFault DEF DeleteIntent, TypeInv
  <1>2. mem = disk /\ disk.pdel = {} /\ (~refused => NoUpserts)
    BY DEF InStep, Single, Quiet
  <1>3. F \subseteq Id /\ P = F
    BY <1>2 DEF Found
  <1>4. \A i \in Id : owed'[i] = IF i \in F THEN "open" ELSE owed[i]
    BY <1>1 DEF Settle
  <1> HIDE DEF T, P, F
  <1>5. s.records = mem.records /\ s.pdel = F /\ s.pups = mem.pups
    BY <1>3 DEF TypeInv, TypeOK, IsState
  <1>6. disk' = s
    BY <1>1 DEF save_state
  <1>7. pc' = "erasing" => cur'.erase = F /\ cur'.found = F
    BY <1>1, <1>3, ErasingTyped
  <1> HIDE DEF s
  <1>8. disk'.pdel = F /\ disk'.records = disk.records
        /\ disk'.pups = disk.pups
    BY <1>2, <1>5, <1>6
  <1>9. Owing'
    BY <1>1, <1>2, <1>4, <1>8, DebtAssumption DEF Owing
  <1>10. InStep'
    BY <1>1, <1>2, <1>6, <1>7, <1>8
    DEF InStep, Single, NoUpserts, Quiet, Committing, Deleting, Removing
  <1> QED
    BY <1>9, <1>10

\* A request keeps the promises.
LEMMA RequestPromised ==
    ASSUME TypeInv, Owing, InStep, faults' = 0, Request
    PROVE  Owing' /\ InStep'
  <1>0. pc = "idle" /\ mem = disk /\ disk.pdel = {} /\ (~refused => NoUpserts)
    BY DEF Request, InStep, Single, Quiet
  <1>1. CASE CommitsBatch
    <2>1. PICK j, order, imported, stale :
             /\ IsMap(j, Pending)
             /\ DOMAIN order = DOMAIN j
             /\ commit_pending_upserts(j, order, imported, stale)
      BY <1>1 DEF CommitsBatch
    <2> DEFINE s == [mem EXCEPT !.pups = [i \in DOMAIN @ \cup DOMAIN j |->
                                            IF i \in DOMAIN j THEN j[i] ELSE @[i]]]
               c == [NoOperation EXCEPT !.order = order, !.imported = imported,
                                        !.erase = stale]
    <2>2. /\ save_state(s) /\ mem' = s /\ pc' = "journaled" /\ cur' = c
          /\ owed' = Suspend(DOMAIN j) /\ UNCHANGED <<docs, refused>>
      BY <2>1, NoFault DEF commit_pending_upserts, TypeInv
    <2>3. c.order = order
      BY DEF NoOperation
    <2>4. /\ s.records = mem.records
          /\ DOMAIN s.pups = DOMAIN mem.pups \cup DOMAIN j
      BY <2>1, JournaledTyped DEF TypeInv, TypeOK
    <2>5. s.pdel = mem.pdel
      BY DEF TypeInv, TypeOK, IsState
    <2>6. disk' = s
      BY <2>2 DEF save_state
    <2>7. \A i \in Id :
            owed'[i] = IF i \notin DOMAIN j THEN owed[i]
                       ELSE IF owed[i] \in Version \cup {"kept"} THEN "kept"
                       ELSE "open"
      BY <2>2 DEF Suspend
    <2> HIDE DEF s, c
    <2>8. /\ disk'.records = disk.records /\ disk'.pdel = {}
          /\ DOMAIN disk'.pups = DOMAIN disk.pups \cup DOMAIN j
      BY <1>0, <2>4, <2>5, <2>6
    <2>9. Owing'
      BY <1>0, <2>2, <2>7, <2>8, DebtAssumption DEF Owing
    <2>10. InStep'
      BY <1>0, <2>1, <2>2, <2>3, <2>6, <2>8
      DEF InStep, Single, NoUpserts, Quiet, Committing, Deleting, Removing, Batch
    <2> QED
      BY <2>9, <2>10
  <1>2. ASSUME NEW i \in Id, NEW lock \in BOOLEAN, SetLocked(i, lock)
        PROVE  Owing' /\ InStep'
    <2> DEFINE R == [mem.records EXCEPT ![i] = [mem.records[i] EXCEPT !.locked = lock]]
               s == [mem EXCEPT !.records = R]
    <2>1. /\ save_state(s) /\ mem' = s
          /\ UNCHANGED <<docs, pc, cur, owed, refused>>
      BY <1>2, NoFault DEF SetLocked, ghosts, TypeInv
    <2>2. DOMAIN R = DOMAIN mem.records
      OBVIOUS
    <2> HIDE DEF R
    <2>3. s.records = R /\ s.pdel = mem.pdel /\ s.pups = mem.pups
      BY DEF TypeInv, TypeOK, IsState
    <2>4. disk' = s
      BY <2>1 DEF save_state
    <2> HIDE DEF s
    <2>5. /\ DOMAIN disk'.records = DOMAIN disk.records /\ disk'.pdel = {}
          /\ disk'.pups = disk.pups /\ mem' = disk'
      BY <1>0, <2>1, <2>2, <2>3, <2>4
    <2>6. Owing'
      BY <1>0, <2>1, <2>5 DEF Owing
    <2>7. InStep'
      BY <1>0, <2>1, <2>5
      DEF InStep, Single, NoUpserts, Quiet, Committing, Deleting, Removing
    <2> QED
      BY <2>6, <2>7
  <1>3. ASSUME NEW keep \in BOOLEAN, Purge(keep)
        PROVE  Owing' /\ InStep'
    <2>1. /\ UNCHANGED <<mem, disk, docs, refused>> /\ pc' = "purging"
          /\ \A i \in Id : owed'[i] = "open"
      BY <1>3 DEF Purge
    <2>2. Owing'
      BY <2>1, DebtAssumption DEF Owing
    <2>3. InStep'
      BY <1>0, <2>1
      DEF InStep, Single, NoUpserts, Quiet, Committing, Deleting, Removing
    <2> QED
      BY <2>2, <2>3
  <1> QED
    BY <1>0, <1>1, <1>2, <1>3, DeleteIntentPromised, RequestCases
    DEF TypeInv, Delete
\* Erasing the documents of a delete touches nothing that is owed.
LEMMA ErasePromised ==
    ASSUME TypeInv, Owing, InStep, pc \in Deleting,
           DeleteDocuments(cur.found),
           UNCHANGED <<mem, disk, cur, owed, refused>>,
           pc' \in {"removing", "recover_remove"}
    PROVE  Owing' /\ InStep'
  <1>1. /\ DOMAIN docs' = DOMAIN docs \ cur.found
        /\ \A i \in DOMAIN docs \ cur.found : docs'[i] = docs[i]
    BY DeletePromised
  <1>2. /\ mem = disk
        /\ cur.erase = disk.pdel /\ cur.found \subseteq disk.pdel
        /\ ~refused => NoUpserts
    BY DEF InStep, Single
  <1>3. Owing'
    BY <1>1, <1>2 DEF Owing
  <1>4. InStep'
    BY <1>1, <1>2
    DEF InStep, Single, NoUpserts, Quiet, Committing, Deleting, Removing
  <1> QED
    BY <1>3, <1>4

\* Writing the documents of a batch touches nothing that is owed.
LEMMA WriteStepPromised ==
    ASSUME TypeInv, Owing, InStep, pc \in {"journaled", "recover_write"},
           WriteDocuments(mem.pups, Batch(cur.order)),
           UNCHANGED <<mem, disk, cur, owed, refused>>,
           pc' = IF pc = "journaled" THEN "written" ELSE "recover_finalize"
    PROVE  Owing' /\ InStep'
  <1> DEFINE B == Batch(cur.order)
  <1>1. mem = disk /\ B \subseteq DOMAIN disk.pups
    BY DEF InStep, Committing
  <1>2. /\ DOMAIN docs' = DOMAIN docs \cup B
        /\ \A i \in B : docs'[i] = disk.pups[i].ver
        /\ \A i \in DOMAIN docs \ B : docs'[i] = docs[i]
    BY <1>1, WritePromised
  <1>3. UNCHANGED B
    BY DEF Batch
  <1> HIDE DEF B
  <1>4. Owing'
    BY <1>1, <1>2 DEF Owing
  <1>5. InStep'
    <2>1. \A i \in B : i \in DOMAIN docs' /\ docs'[i] = disk'.pups[i].ver
      BY <1>2
    <2> QED
      BY <1>1, <1>3, <2>1
      DEF InStep, Single, NoUpserts, Quiet, Committing, Deleting, Removing, B
  <1> QED
    BY <1>4, <1>5

\* A save of the state without the removed records pays what is owed.
LEMMA RemovedPromised ==
    ASSUME TypeInv, Owing, InStep, pc \in {"delete_save", "recover_save"},
           save_state(mem), UNCHANGED <<mem, docs, refused>>, pc' = "idle",
           \/ UNCHANGED owed
           \/ owed' = Settle(cur.found, [i \in cur.found |-> "gone"])
    PROVE  Owing' /\ InStep'
  <1>1. /\ DOMAIN disk.records \ disk.pdel \subseteq DOMAIN mem.records
        /\ mem.pdel = {} /\ mem.pups = disk.pups
        /\ cur.found \cap DOMAIN docs = {}
        /\ ~refused => NoUpserts
    BY DEF InStep, Single, Removing
  <1>2. disk' = mem
    BY DEF save_state
  <1>3. \A i \in Id : owed'[i] = owed[i] \/ (i \in cur.found /\ owed'[i] = "gone")
    BY DEF Settle
  <1>4. Owing'
    BY <1>1, <1>2, <1>3, DebtAssumption DEF Owing, NoUpserts
  <1>5. InStep'
    BY <1>1, <1>2
    DEF InStep, Single, NoUpserts, Quiet, Committing, Deleting, Removing
  <1> QED
    BY <1>4, <1>5

\* Every later step of a handler keeps the promises, or makes new ones.
LEMMA ProgressPromised ==
    ASSUME TypeInv, DocInv, Owing, InStep, faults' = 0, Progress
    PROVE  Owing' /\ InStep'
  <1>0. /\ \A s : ~save_fails(s)
        /\ \A j, B : ~WriteDocumentsFails(j, B)
        /\ \A F : ~DeleteDocumentsFails(F)
    BY NoFault DEF TypeInv
  <1>1. CASE Write
    <2>1. CASE WriteDocuments(mem.pups, Batch(cur.order)) /\ pc' = "written"
               /\ UNCHANGED <<cur, refused>>
      BY <1>1, <2>1, WriteStepPromised DEF Write, ghosts
    <2>2. CASE UNCHANGED docs /\ pc' = "idle" /\ refused' = TRUE
      <3>1. pc = "journaled" /\ UNCHANGED <<mem, disk, owed>>
        BY <1>1 DEF Write, ghosts
      <3> QED
        BY <2>2, <3>1
        DEF Owing, InStep, Quiet, Committing, Deleting, Removing
    <2> QED
      BY <1>0, <1>1, <2>1, <2>2 DEF Write, UpsertRefused, GraphRefuses
  <1>2. CASE Finalize
    <2> DEFINE s == Applied(mem, cur.order)
               B == Batch(cur.order)
    <2>1. /\ save_state(s) /\ mem' = s /\ UNCHANGED <<docs, refused>>
          /\ owed' = Settle(B, [i \in B |-> mem.pups[i].ver])
          /\ pc = "written" /\ pc' \in {"tombstones", "delete", "idle"}
      BY <1>0, <1>2 DEF Finalize, AfterCommit
    <2>2. /\ DOMAIN s.records = DOMAIN disk.records \cup B
          /\ DOMAIN s.pups = DOMAIN disk.pups \ B /\ s.pdel = disk.pdel
      BY <2>1, AppliedPromised DEF save_state
    <2>3. /\ mem = disk /\ B \subseteq DOMAIN disk.pups /\ disk.pdel = {}
          /\ \A i \in B : i \in DOMAIN docs /\ docs[i] = disk.pups[i].ver
          /\ ~refused => DOMAIN disk.pups = B
      BY <2>1 DEF InStep, Single, Committing
    <2>4. disk' = s
      BY <2>1 DEF save_state
    <2>5. \A i \in Id : owed'[i] = IF i \in B THEN disk.pups[i].ver ELSE owed[i]
      BY <2>1, <2>3 DEF Settle
    <2>6. \A i \in B : disk.pups[i].ver \in Version
      BY <2>3 DEF TypeInv, TypeOK, IsState, IsMap, Pending
    <2> HIDE DEF s, B
    <2>7. Owing'
      BY <2>1, <2>2, <2>3, <2>4, <2>5, <2>6, DebtAssumption DEF Owing
    <2>8. InStep'
      BY <2>1, <2>2, <2>3, <2>4
      DEF InStep, Single, NoUpserts, Quiet, Committing, Deleting, Removing
    <2> QED
      BY <2>7, <2>8
  <1>3. CASE ImportTombstones
    <2> DEFINE s == [mem EXCEPT !.tombs = @ \cup cur.imported]
    <2>1. /\ save_state(s) /\ mem' = s /\ UNCHANGED <<docs, owed, refused>>
          /\ pc = "tombstones" /\ pc' = "idle"
      BY <1>0, <1>3 DEF ImportTombstones, ghosts
    <2>2. mem = disk /\ disk.pdel = {} /\ (~refused => NoUpserts)
      BY <2>1 DEF InStep, Single, Quiet
    <2>3. s.records = mem.records /\ s.pdel = mem.pdel /\ s.pups = mem.pups
      BY DEF TypeInv, TypeOK, IsState
    <2>4. disk' = s
      BY <2>1 DEF save_state
    <2> HIDE DEF s
    <2>5. Owing'
      BY <2>1, <2>2, <2>3, <2>4 DEF Owing
    <2>6. InStep'
      BY <2>1, <2>2, <2>3, <2>4
      DEF InStep, Single, NoUpserts, Quiet, Committing, Deleting, Removing
    <2> QED
      BY <2>5, <2>6
  <1>4. CASE DeleteStale
    <2>1. CASE DeleteIntent(cur.erase, FALSE)
      BY <1>4, <2>1, DeleteIntentPromised
      DEF DeleteStale, TypeInv, TypeOK, IsOperation
    <2>2. CASE ~DeleteIntent(cur.erase, FALSE)
      BY <1>4, <2>2
      DEF DeleteStale, ghosts, Owing, InStep, Single, NoUpserts, Quiet,
          Committing, Deleting, Removing
    <2> QED
      BY <2>1, <2>2
  <1>5. CASE Erase
    BY <1>0, <1>5, ErasePromised DEF Erase, ghosts, Deleting
  <1>6. ASSUME NEW i \in Id, Remove(i)
        PROVE  Owing' /\ InStep'
    <2> DEFINE R == remove_state_record(mem.records, i)
    <2>1. /\ pc \in {"removing", "recover_remove"} /\ i \in cur.erase
          /\ mem' = [mem EXCEPT !.records = R, !.pdel = @ \ {i}]
          /\ cur' = [cur EXCEPT !.erase = @ \ {i}]
          /\ \/ pc' = pc
             \/ pc' \in {"delete_save", "recover_save"} /\ cur.erase = {i}
          /\ UNCHANGED <<disk, docs, owed, refused>>
      BY <1>6 DEF Remove, ghosts
    <2>2. DOMAIN R = DOMAIN mem.records \ {i}
      BY DEF remove_state_record
    <2> HIDE DEF R
    <2>3. /\ mem'.records = R /\ mem'.pdel = mem.pdel \ {i}
          /\ mem'.pups = mem.pups
      BY <2>1 DEF TypeInv, TypeOK, IsState
    <2>4. cur'.erase = cur.erase \ {i} /\ cur'.found = cur.found
      BY <2>1 DEF TypeInv, TypeOK, IsOperation
    <2>5. Owing'
      BY <2>1 DEF Owing
    <2>6. InStep'
      BY <2>1, <2>2, <2>3, <2>4
      DEF InStep, Single, NoUpserts, Quiet, Committing, Deleting, Removing
    <2> QED
      BY <2>5, <2>6
  <1>7. CASE DeleteSave
    BY <1>0, <1>7, RemovedPromised DEF DeleteSave
  <1>8. CASE PurgeDocuments
    <2>1. /\ UNCHANGED <<mem, disk, owed, refused>>
          /\ pc = "purging" /\ pc' = "purged"
      BY <1>0, <1>8 DEF PurgeDocuments
    <2>2. \A i \in Id : owed[i] = "open"
      BY <2>1 DEF InStep
    <2>3. Owing'
      BY <2>1, <2>2, DebtAssumption DEF Owing
    <2>4. InStep'
      BY <2>1, <2>2
      DEF InStep, Single, NoUpserts, Quiet, Committing, Deleting, Removing
    <2> QED
      BY <2>3, <2>4
  <1>9. CASE PurgeState
    <2> DEFINE s == [EmptyState EXCEPT !.tombs = IF cur.keep THEN mem.tombs ELSE {}]
    <2>1. /\ save_state(s) /\ mem' = s /\ UNCHANGED <<docs, refused>> /\ pc' = "idle"
          /\ owed' = [i \in Id |-> "gone"] /\ pc = "purged"
      BY <1>0, <1>9 DEF PurgeState
    <2>2. s.pups = EmptyMap /\ s.pdel = {}
      BY DEF EmptyState
    <2> HIDE DEF s
    <2>3. DOMAIN s.pups = {} /\ disk' = s /\ DOMAIN docs = {}
      BY <2>1, <2>2, EmptyTyped DEF save_state, DocInv, ErasedFirst
    <2>4. Owing'
      BY <2>1, <2>3, DebtAssumption DEF Owing
    <2>5. InStep'
      BY <2>1, <2>2, <2>3
      DEF InStep, Single, NoUpserts, Quiet, Committing, Deleting, Removing
    <2> QED
      BY <2>4, <2>5
  <1> QED
    BY <1>1, <1>2, <1>3, <1>4, <1>5, <1>6, <1>7, <1>8, <1>9 DEF Progress

\* A recovery that is broken off leaves what it found.
LEMMA RecoveryDropped ==
    ASSUME Owing, InStep, Drop, UNCHANGED <<disk, docs, owed, refused>>
    PROVE  Owing' /\ InStep'
  BY DEF Drop, Owing, InStep, Single, NoUpserts, Quiet, Committing, Deleting,
         Removing

\* The recovery redoes what was journaled, and nothing owed was.
LEMMA RecoveryPromised ==
    ASSUME TypeInv, DocInv, Owing, InStep, faults' = 0, Recovery
    PROVE  Owing' /\ InStep'
  <1>0. /\ \A s : ~save_fails(s)
        /\ \A j, B : ~WriteDocumentsFails(j, B)
        /\ \A F : ~DeleteDocumentsFails(F)
    BY NoFault DEF TypeInv
  <1>1. CASE Open
    <2>1. /\ mem' = disk /\ IsState(disk)
          /\ UNCHANGED <<disk, docs, owed, refused>>
      BY <1>1 DEF Open, ghosts, TypeInv, TypeOK
    <2>2. Owing'
      BY <2>1 DEF Owing
    <2>3. CASE DOMAIN disk.pups = {}
      <3>1. CASE disk.pdel = {}
        BY <1>1, <2>1, <2>2, <2>3, <3>1
        DEF Open, RecoverDeletesOf, InStep, Single, NoUpserts, Quiet,
            Committing, Deleting, Removing
      <3>2. CASE disk.pdel # {}
        <4>1. pc' = "recover_erase"
          BY <1>1, <2>3, <3>2 DEF Open, RecoverDeletesOf
        <4>2. cur'.erase = disk.pdel /\ cur'.found \subseteq disk.pdel
          BY <1>1, <2>1, <2>3, <4>1, RecoverDeletesRecorded DEF Open
        <4> QED
          BY <2>1, <2>2, <2>3, <4>1, <4>2
          DEF InStep, Single, NoUpserts, Quiet, Committing, Deleting, Removing
      <3> QED
        BY <3>1, <3>2
    <2>4. CASE DOMAIN disk.pups # {}
      <3>1. pc' = "recover_write" /\ Batch(cur'.order) = DOMAIN disk.pups
        BY <1>1, <2>4 DEF Open, NoOperation, Batch
      <3> QED
        BY <2>1, <2>2, <2>4, <3>1
        DEF InStep, Single, NoUpserts, Quiet, Committing, Deleting, Removing, Batch
    <2> QED
      BY <2>3, <2>4
  <1>2. CASE RecoverWrite
    <2>1. DOMAIN mem.pups = Batch(cur.order) /\ pc = "recover_write"
      BY <1>2 DEF RecoverWrite, InStep, Committing
    <2>2. CASE UNCHANGED docs /\ Drop
      BY <1>2, <2>2, RecoveryDropped DEF RecoverWrite, ghosts
    <2> QED
      BY <1>0, <1>2, <2>1, <2>2, WriteStepPromised
      DEF RecoverWrite, ghosts, UpsertRefused, GraphRefuses
  <1>3. CASE RecoverFinalize
    <2> DEFINE s == Applied(mem, cur.order)
               B == Batch(cur.order)
    <2>1. /\ \/ save_state(s) /\ mem' = s /\ RecoverDeletesOf(s)
             \/ Drop /\ UNCHANGED disk
          /\ UNCHANGED <<docs, owed, refused>>
          /\ pc = "recover_finalize"
      BY <1>0, <1>3 DEF RecoverFinalize
    <2>2. DOMAIN disk.pups = B /\ (~refused => disk.pdel = {})
      BY <2>1 DEF InStep, Single, Committing
    <2>3. Valid(s) => /\ IsState(s)
                      /\ DOMAIN s.records = DOMAIN disk.records \cup B
                      /\ DOMAIN s.pups = {} /\ s.pdel = disk.pdel
      BY <2>1, <2>2, AppliedPromised
    <2> HIDE DEF s, B
    <2>4. CASE save_state(s) /\ mem' = s /\ RecoverDeletesOf(s)
      <3>1. /\ DOMAIN s.records = DOMAIN disk.records \cup B
            /\ DOMAIN s.pups = {} /\ s.pdel = disk.pdel
            /\ disk' = s
        BY <2>3, <2>4 DEF save_state
      <3>2. /\ pc' \in {"idle", "recover_erase"}
            /\ pc' = "idle" => s.pdel = {}
            /\ pc' = "recover_erase" =>
                 cur'.erase = s.pdel /\ cur'.found \subseteq s.pdel
        <4>1. IsState(s)
          BY <2>3, <2>4 DEF save_state
        <4>2. pc' = "idle" => s.pdel = {}
          BY <2>4 DEF RecoverDeletesOf
        <4> QED
          BY <2>4, <4>1, <4>2, RecoverDeletesRecorded
      <3>3. Owing'
        BY <2>1, <2>2, <3>1 DEF Owing
      <3>4. InStep'
        BY <2>1, <2>2, <2>4, <3>1, <3>2
        DEF InStep, Single, NoUpserts, Quiet, Committing, Deleting, Removing
      <3> QED
        BY <3>3, <3>4
    <2>5. CASE Drop /\ UNCHANGED disk
      BY <2>1, <2>5, RecoveryDropped
    <2> QED
      BY <2>1, <2>4, <2>5
  <1>4. CASE RecoverErase
    BY <1>0, <1>4, ErasePromised, RecoveryDropped
    DEF RecoverErase, GraphRefuses, ghosts, Deleting
  <1>5. CASE RecoverSave
    BY <1>0, <1>5, RemovedPromised DEF RecoverSave, ghosts
  <1> QED
    BY <1>1, <1>2, <1>3, <1>4, <1>5 DEF Recovery

\* A crash tears only what is journaled.
LEMMA CrashPromised ==
    ASSUME TypeInv, Owing, InStep, Crash
    PROVE  Owing' /\ InStep'
  <1>1. pc' = "closed" /\ UNCHANGED <<disk, owed, refused>>
    BY DEF Crash, Drop
  <1>2. Owing'
    <2>1. CASE pc \in {"journaled", "recover_write"}
      <3>1. PICK W \in SUBSET Batch(cur.order) : docs' = Upserted(W, mem.pups)
        BY <2>1 DEF Crash
      <3>2. /\ DOMAIN docs' = DOMAIN docs \cup W
            /\ \A i \in DOMAIN docs \ W : docs'[i] = docs[i]
        BY <3>1 DEF Upserted
      <3>3. W \subseteq DOMAIN disk.pups
        BY <2>1, <3>1 DEF InStep, Committing
      <3> QED
        BY <1>1, <3>2, <3>3 DEF Owing
    <2>2. CASE pc \in {"erasing", "recover_erase"}
      <3>1. PICK W \in SUBSET cur.found : docs' = Without(W)
        BY <2>2 DEF Crash
      <3>2. /\ DOMAIN docs' = DOMAIN docs \ W
            /\ \A i \in DOMAIN docs \ W : docs'[i] = docs[i]
        BY <3>1 DEF Without
      <3>3. W \subseteq disk.pdel
        BY <2>2, <3>1 DEF InStep, Deleting
      <3> QED
        BY <1>1, <3>2, <3>3 DEF Owing
    <2>3. CASE pc = "purging"
      <3>1. \A i \in Id : owed[i] = "open"
        BY <2>3 DEF InStep
      <3> QED
        BY <1>1, <3>1, DebtAssumption DEF Owing
    <2>4. CASE pc \notin {"journaled", "recover_write", "erasing",
                          "recover_erase", "purging"}
      BY <1>1, <2>4 DEF Crash, Owing
    <2> QED
      BY <2>1, <2>2, <2>3, <2>4
  <1>3. InStep'
    BY <1>1 DEF InStep, Single, NoUpserts, Quiet, Committing, Deleting, Removing
  <1> QED
    BY <1>2, <1>3

\* Every step of which no write fails keeps the promises.
LEMMA NextPromised ==
    ASSUME TypeInv, DocInv, PromiseInv, [Next]_vars
    PROVE  PromiseInv'
  <1> SUFFICES ASSUME faults' = 0
               PROVE  Owing' /\ InStep'
    BY DEF PromiseInv
  <1>1. Owing /\ InStep
    BY FaultsGrow DEF PromiseInv, TypeInv
  <1>2. CASE UNCHANGED vars
    BY <1>1, <1>2
    DEF vars, ghosts, Owing, InStep, Single, NoUpserts, Quiet, Committing,
        Deleting, Removing
  <1> QED
    BY <1>1, <1>2, RequestPromised, ProgressPromised, RecoveryPromised,
       CrashPromised
    DEF Next

\* The promises hold in every state before the first failed write.
LEMMA PromiseInvHolds == Spec => []PromiseInv
  <1>1. Init => PromiseInv
    BY InitPromised DEF PromiseInv
  <1> QED
    BY <1>1, NextPromised, InitAccounted, NextAccounted, TypeInvHolds, PTL
    DEF Spec

\* As long as no durable write has failed, and wherever the process dies or the
\* graph refuses an erasure, a memory whose commit was acknowledged is there in its
\* last committed version: what prepare, finalize and the replay on open owe their
\* callers.
THEOREM CommitsHold == Spec => [](faults = 0 => CommittedSurvives)
  <1>1. PromiseInv => (faults = 0 => CommittedSurvives)
    BY DEF PromiseInv, CommittedSurvives, Owing, InStep, Quiet
  <1> QED
    BY <1>1, PromiseInvHolds, PTL

\* As long as no durable write has failed, and wherever the process dies, a
\* memory whose delete was acknowledged does not come back by itself: no
\* journaled upsert is left that a recovery would replay.  A batch that the graph
\* refused is such an upsert, and the property says so.
THEOREM DeletesHold == Spec => [](faults = 0 => DeletedStaysDeleted)
  <1>1. PromiseInv => (faults = 0 => DeletedStaysDeleted)
    BY DEF PromiseInv, DeletedStaysDeleted, Owing
  <1> QED
    BY <1>1, PromiseInvHolds, PTL

-----------------------------------------------------------------------------
(***************************************************************************)
(* The journal.  A commit tries its batch on a copy of the state, in the   *)
(* order of the request; a recovery applies what it finds in the order of  *)
(* the ids, to the state that was saved with it.  No step between the two  *)
(* changes either (InStep), and the order does not matter (AnyOrder).      *)
(***************************************************************************)
JournalInv == faults = 0 => JournalReplays

\* A state that was validated and has no journal can be opened.
LEMMA NothingLeft ==
    ASSUME NEW s, IsState(s), Valid(s), DOMAIN s.pups = {}, disk' = s
    PROVE  JournalReplays'
  BY NothingReplays DEF JournalReplays, Valid, IsState

\* Between two operations nothing is journaled.
LEMMA SavedUnjournaled ==
    ASSUME TypeInv, TypeInv', InStep, faults' = 0, ~refused, NEW s, save_state(s),
           DOMAIN s.pups = {}
    PROVE  JournalReplays'
  <1>1. disk' = s /\ Valid(s)
    BY DEF save_state
  <1>2. IsState(disk')
    BY DEF TypeInv, TypeOK
  <1> QED
    BY <1>1, <1>2, NothingLeft

\* A delete journals no upsert.
LEMMA IntentReplays ==
    ASSUME TypeInv, TypeInv', InStep, faults' = 0, ~refused,
           pc \in {"idle", "delete"}, NEW ids, NEW tombstone, DeleteIntent(ids, tombstone)
    PROVE  JournalReplays'
  <1> DEFINE F == Found(ids)
             T == IF tombstone THEN mem.tombs \cup Tombstones(F) ELSE mem.tombs
             P == mem.pdel \cup F
             s == [mem EXCEPT !.tombs = T, !.pdel = P]
  <1>1. save_state(s)
    BY NoFault DEF DeleteIntent, TypeInv
  <1> HIDE DEF T, P, F
  <1>2. s.pups = mem.pups
    BY DEF TypeInv, TypeOK, IsState
  <1>3. DOMAIN s.pups = {}
    BY <1>2 DEF InStep, Single, Quiet, NoUpserts
  <1> HIDE DEF s
  <1> QED
    BY <1>1, <1>3, SavedUnjournaled

\* What a request journals was tried.
LEMMA RequestReplays ==
    ASSUME SnapshotsMutual, TypeInv, TypeInv', InStep, JournalReplays,
           faults' = 0, ~refused, Request
    PROVE  JournalReplays'
  <1>0. pc = "idle" /\ mem = disk /\ NoUpserts
    BY DEF Request, InStep, Single, Quiet
  <1>1. CASE CommitsBatch
    <2>1. PICK j, order, imported, stale :
             /\ IsMap(j, Pending) /\ IsMap(order, Nat)
             /\ DOMAIN order = DOMAIN j /\ OrderFree(j, order)
             /\ commit_pending_upserts(j, order, imported, stale)
      BY <1>1 DEF CommitsBatch
    <2> DEFINE P == [i \in DOMAIN mem.pups \cup DOMAIN j |->
                        IF i \in DOMAIN j THEN j[i] ELSE mem.pups[i]]
               s == [mem EXCEPT !.pups = P]
               ids == [i \in DOMAIN j |-> i]
    <2>2. save_state(s) /\ Replays(mem.records, j, order)
      BY <2>1, NoFault DEF commit_pending_upserts, Admissible, TypeInv
    <2>3. P = j
      BY <1>0, <2>1 DEF NoUpserts, IsMap
    <2> HIDE DEF P
    <2>4. s.records = mem.records /\ s.pups = j
      BY <2>3 DEF TypeInv, TypeOK, IsState
    <2>5. disk' = s
      BY <2>2 DEF save_state
    <2> HIDE DEF s
    <2>6. Replays(mem.records, j, ids)
      <3>1. CASE order = ids
        BY <2>2, <3>1
      <3>2. CASE MutualConflicts(j)
        <4>1. IsMap(ids, Nat) /\ DOMAIN ids = DOMAIN j
          BY <2>1, IdAssumption DEF IsMap
        <4>2. IsMap(mem.records, Meta)
          BY DEF TypeInv, TypeOK, IsState
        <4> HIDE DEF ids
        <4> QED
          BY <2>1, <2>2, <3>2, <4>1, <4>2, AnyOrder
      <3> QED
        BY <2>1, <3>1, <3>2 DEF OrderFree
    <2> QED
      BY <2>4, <2>5, <2>6 DEF JournalReplays
  <1>2. ASSUME NEW i \in Id, NEW lock \in BOOLEAN, SetLocked(i, lock)
        PROVE  JournalReplays'
    <2> DEFINE R == [mem.records EXCEPT ![i] = [mem.records[i] EXCEPT !.locked = lock]]
               s == [mem EXCEPT !.records = R]
    <2>1. save_state(s)
      BY <1>2, NoFault DEF SetLocked, TypeInv
    <2> HIDE DEF R
    <2>2. s.pups = mem.pups
      BY DEF TypeInv, TypeOK, IsState
    <2> HIDE DEF s
    <2> QED
      BY <1>0, <2>1, <2>2, SavedUnjournaled DEF NoUpserts
  <1>3. ASSUME NEW keep \in BOOLEAN, Purge(keep)
        PROVE  JournalReplays'
    BY <1>3 DEF Purge, JournalReplays
  <1> QED
    BY <1>0, <1>1, <1>2, <1>3, IntentReplays, RequestCases DEF TypeInv, Delete

\* A later step leaves the journal alone or saves a state without one.
LEMMA ProgressReplays ==
    ASSUME TypeInv, TypeInv', InStep, JournalReplays, faults' = 0, ~refused,
           Progress
    PROVE  JournalReplays'
  <1>0. \A s : ~save_fails(s)
    BY NoFault DEF TypeInv
  <1>1. CASE UNCHANGED disk
    BY <1>1 DEF JournalReplays
  <1>2. CASE Finalize
    <2> DEFINE s == Applied(mem, cur.order)
    <2>1. save_state(s) /\ pc = "written"
      BY <1>0, <1>2 DEF Finalize
    <2>2. DOMAIN s.pups = {}
      BY <2>1, AppliedPromised DEF save_state, InStep, Single, Committing
    <2> HIDE DEF s
    <2> QED
      BY <2>1, <2>2, SavedUnjournaled
  <1>3. CASE ImportTombstones
    <2> DEFINE T == mem.tombs \cup cur.imported
               s == [mem EXCEPT !.tombs = T]
    <2>1. save_state(s) /\ pc = "tombstones"
      BY <1>0, <1>3 DEF ImportTombstones
    <2>2. s.pups = mem.pups
      BY DEF TypeInv, TypeOK, IsState
    <2>3. DOMAIN s.pups = {}
      BY <2>1, <2>2 DEF InStep, Single, Quiet, NoUpserts
    <2> HIDE DEF s
    <2> QED
      BY <2>1, <2>3, SavedUnjournaled
  <1>4. CASE DeleteStale
    BY <1>1, <1>4, IntentReplays DEF DeleteStale
  <1>5. CASE DeleteSave
    BY <1>0, <1>5, SavedUnjournaled
    DEF DeleteSave, InStep, Single, NoUpserts, Removing
  <1>6. CASE PurgeState
    <2> DEFINE T == IF cur.keep THEN mem.tombs ELSE {}
               s == [EmptyState EXCEPT !.tombs = T]
    <2>1. save_state(s)
      BY <1>0, <1>6 DEF PurgeState
    <2> HIDE DEF T
    <2>2. DOMAIN s.pups = {}
      BY DEF EmptyState, EmptyMap
    <2> HIDE DEF s
    <2> QED
      BY <2>1, <2>2, SavedUnjournaled
  <1>7. CASE Write \/ Erase \/ PurgeDocuments
    BY <1>1, <1>7 DEF Write, Erase, PurgeDocuments
  <1>8. ASSUME NEW i \in Id, Remove(i)
        PROVE  JournalReplays'
    BY <1>1, <1>8 DEF Remove
  <1> QED
    BY <1>2, <1>3, <1>4, <1>5, <1>6, <1>7, <1>8 DEF Progress

\* A recovery saves the batch applied, or the state after its deletes.
LEMMA RecoveryReplays ==
    ASSUME TypeInv, TypeInv', InStep, JournalReplays, faults' = 0, ~refused,
           Recovery
    PROVE  JournalReplays'
  <1>0. \A s : ~save_fails(s)
    BY NoFault DEF TypeInv
  <1>1. CASE UNCHANGED disk
    BY <1>1 DEF JournalReplays
  <1>2. CASE Open \/ RecoverWrite \/ RecoverErase
    BY <1>1, <1>2 DEF Open, RecoverWrite, RecoverErase
  <1>3. CASE RecoverFinalize
    <2> DEFINE s == Applied(mem, cur.order)
    <2>1. (save_state(s) \/ UNCHANGED disk) /\ pc = "recover_finalize"
      BY <1>0, <1>3 DEF RecoverFinalize
    <2>2. Valid(s) => DOMAIN s.pups = {}
      BY <2>1, AppliedPromised DEF InStep, Committing
    <2> HIDE DEF s
    <2>3. CASE save_state(s)
      BY <2>2, <2>3, SavedUnjournaled DEF save_state
    <2> QED
      BY <1>1, <2>1, <2>3
  <1>4. CASE RecoverSave
    BY <1>0, <1>4, SavedUnjournaled
    DEF RecoverSave, InStep, Single, NoUpserts, Removing
  <1> QED
    BY <1>2, <1>3, <1>4 DEF Recovery

\* Every step of which no write fails leaves a journal that can be replayed.
LEMMA NextReplays ==
    ASSUME SnapshotsMutual, TypeInv, TypeInv', PromiseInv, JournalInv, [Next]_vars
    PROVE  JournalInv'
  <1> SUFFICES ASSUME faults' = 0, ~refused'
               PROVE  JournalReplays'
    BY DEF JournalInv, JournalReplays
  <1>1. InStep /\ JournalReplays /\ ~refused
    BY FaultsGrow, RefusalRemembered DEF PromiseInv, JournalInv, TypeInv
  <1>2. CASE UNCHANGED vars
    BY <1>1, <1>2 DEF vars, JournalReplays
  <1>3. CASE Crash
    BY <1>1, <1>3 DEF Crash, JournalReplays
  <1> QED
    BY <1>1, <1>2, <1>3, RequestReplays, ProgressReplays, RecoveryReplays
    DEF Next

\* As long as no durable write has failed, whatever the process leaves in
\* state.json when it dies can be opened: the recovery applies the journaled
\* batch, in an order of its own, to a state that save accepts.  The snapshots
\* that are imported have to agree on their conflicts, as exported ones do; a
\* batch that the graph refused is excepted, as the property says.
THEOREM JournalHolds ==
    SnapshotsMutual => (Spec => [](faults = 0 => JournalReplays))
  <1> SUFFICES ASSUME SnapshotsMutual
               PROVE  Spec => [](faults = 0 => JournalReplays)
    OBVIOUS
  <1>1. Init => JournalInv
    <2>1. ASSUME Init PROVE JournalReplays
      <3>1. IsMap(EmptyMap, Meta)
        BY EmptyTyped DEF EmptyState, IsState
      <3>2. disk.records = EmptyMap /\ disk.pups = EmptyMap
        BY <2>1 DEF Init, EmptyState
      <3>3. Replays(EmptyMap, EmptyMap, [i \in DOMAIN EmptyMap |-> i])
        BY <3>1, EmptyValid, NothingReplays DEF EmptyMap
      <3> QED
        BY <3>2, <3>3 DEF JournalReplays
    <2> QED
      BY <2>1 DEF JournalInv
  <1>2. JournalInv => (faults = 0 => JournalReplays)
    BY DEF JournalInv
  <1> QED
    BY <1>1, <1>2, NextReplays, TypeInvHolds, PromiseInvHolds, PTL DEF Spec
-----------------------------------------------------------------------------
(***************************************************************************)
(* Locks.  A lock is checked when an upsert or a delete is requested, and  *)
(* documents are written later, perhaps by a recovery.  What keeps them is *)
(* that no locked memory with a document is named by the journal, but for  *)
(* one that had lost its document in a purge and got it from the batch.    *)
(***************************************************************************)
LocksKept ==
    \A i \in DOMAIN docs \cap DOMAIN disk.records :
        disk.records[i].locked =>
            /\ i \notin disk.pdel
            /\ i \in DOMAIN disk.pups => docs[i] = disk.pups[i].ver

LockInv == faults = 0 /\ ~refused => LocksKept

\* Where nothing is journaled there is nothing to keep.
LEMMA NothingJournaled ==
    ASSUME DOMAIN disk'.pups = {}, disk'.pdel = {}
    PROVE  LocksKept'
  BY DEF LocksKept

\* Documents of the batch are written, or ones with an intent are deleted.
LEMMA DocumentsLocked ==
    ASSUME InStep, LocksKept, ~refused, UNCHANGED disk,
           \/ \E W \in SUBSET DOMAIN disk.pups : docs' = Upserted(W, disk.pups)
           \/ \E W : docs' = Without(W)
    PROVE  LocksKept'
  <1>1. ASSUME NEW W \in SUBSET DOMAIN disk.pups, docs' = Upserted(W, disk.pups)
        PROVE  LocksKept'
    <2>1. /\ DOMAIN docs' = DOMAIN docs \cup W
          /\ \A i \in W : docs'[i] = disk'.pups[i].ver
          /\ \A i \in DOMAIN docs \ W : docs'[i] = docs[i]
      BY <1>1 DEF Upserted
    <2>2. SUFFICES ASSUME NEW i \in DOMAIN docs' \cap DOMAIN disk'.records,
                          disk'.records[i].locked
                   PROVE  /\ i \notin disk'.pdel
                          /\ i \in DOMAIN disk'.pups => docs'[i] = disk'.pups[i].ver
      BY DEF LocksKept
    <2>3. CASE i \in W
      BY <2>1, <2>3 DEF InStep, Single, NoUpserts
    <2>4. CASE i \notin W
      BY <2>1, <2>2, <2>4 DEF LocksKept
    <2> QED
      BY <2>3, <2>4
  <1>2. ASSUME NEW W, docs' = Without(W)
        PROVE  LocksKept'
    <2>1. /\ DOMAIN docs' = DOMAIN docs \ W
          /\ \A i \in DOMAIN docs \ W : docs'[i] = docs[i]
      BY <1>2 DEF Without
    <2> QED
      BY <2>1 DEF LocksKept
  <1> QED
    BY <1>1, <1>2

\* The intent of a delete names no locked memory.
LEMMA IntentLocked ==
    ASSUME TypeInv, InStep, faults' = 0, ~refused, pc \in {"idle", "delete"},
           NEW ids, NEW tombstone, DeleteIntent(ids, tombstone)
    PROVE  LocksKept'
  <1> DEFINE F == Found(ids)
             T == IF tombstone THEN mem.tombs \cup Tombstones(F) ELSE mem.tombs
             P == mem.pdel \cup F
             s == [mem EXCEPT !.tombs = T, !.pdel = P]
  <1>1. save_state(s) /\ UNCHANGED docs
    BY NoFault DEF DeleteIntent, TypeInv
  <1>2. mem = disk /\ NoUpserts /\ disk.pdel = {}
    BY DEF InStep, Single, Quiet
  <1>3. P = F /\ \A i \in F : i \in DOMAIN mem.records /\ ~mem.records[i].locked
    BY <1>2 DEF DeleteIntent, MayDelete, Found
  <1> HIDE DEF T, P, F
  <1>4. s.records = mem.records /\ s.pdel = F /\ s.pups = mem.pups
    BY <1>3 DEF TypeInv, TypeOK, IsState
  <1>5. disk' = s
    BY <1>1 DEF save_state
  <1> HIDE DEF s
  <1> QED
    BY <1>1, <1>2, <1>3, <1>4, <1>5 DEF LocksKept, NoUpserts

\* A request journals what spares the locked memories.
LEMMA RequestLocked ==
    ASSUME TypeInv, InStep, LocksKept, faults' = 0, ~refused, Request
    PROVE  LocksKept'
  <1>0. pc = "idle" /\ mem = disk /\ NoUpserts /\ disk.pdel = {}
    BY DEF Request, InStep, Single, Quiet
  <1>1. CASE CommitsBatch
    <2>1. PICK j, order, imported, stale :
             /\ IsMap(j, Pending) /\ SparesLocked(j)
             /\ commit_pending_upserts(j, order, imported, stale)
      BY <1>1 DEF CommitsBatch
    <2> DEFINE s == [mem EXCEPT !.pups = [i \in DOMAIN @ \cup DOMAIN j |->
                                            IF i \in DOMAIN j THEN j[i] ELSE @[i]]]
    <2>2. save_state(s) /\ UNCHANGED docs
      BY <2>1, NoFault DEF commit_pending_upserts, TypeInv
    <2>3. s.records = mem.records /\ DOMAIN s.pups = DOMAIN j
      BY <1>0, <2>1, JournaledTyped DEF TypeInv, TypeOK, NoUpserts
    <2>4. s.pdel = mem.pdel
      BY DEF TypeInv, TypeOK, IsState
    <2>5. disk' = s
      BY <2>2 DEF save_state
    <2> HIDE DEF s
    <2> QED
      BY <1>0, <2>1, <2>2, <2>3, <2>4, <2>5 DEF LocksKept, SparesLocked
  <1>2. ASSUME NEW i \in Id, NEW lock \in BOOLEAN, SetLocked(i, lock)
        PROVE  LocksKept'
    <2> DEFINE R == [mem.records EXCEPT ![i] = [mem.records[i] EXCEPT !.locked = lock]]
               s == [mem EXCEPT !.records = R]
    <2>1. save_state(s)
      BY <1>2, NoFault DEF SetLocked, TypeInv
    <2> HIDE DEF R
    <2>2. s.pdel = mem.pdel /\ s.pups = mem.pups
      BY DEF TypeInv, TypeOK, IsState
    <2>3. disk' = s
      BY <2>1 DEF save_state
    <2> HIDE DEF s
    <2> QED
      BY <1>0, <2>2, <2>3, NothingJournaled DEF NoUpserts
  <1>3. ASSUME NEW keep \in BOOLEAN, Purge(keep)
        PROVE  LocksKept'
    BY <1>3 DEF Purge, LocksKept
  <1> QED
    BY <1>0, <1>1, <1>2, <1>3, IntentLocked, RequestCases DEF TypeInv, Delete

\* A later step of a handler writes or deletes what the journal names, or
\* saves a state with an empty journal.
LEMMA ProgressLocked ==
    ASSUME TypeInv, InStep, LocksKept, faults' = 0, ~refused, ~refused',
           Progress
    PROVE  LocksKept'
  <1>0. /\ \A s : ~save_fails(s)
        /\ \A j, B : ~WriteDocumentsFails(j, B)
        /\ \A F : ~DeleteDocumentsFails(F)
    BY NoFault DEF TypeInv
  <1>1. CASE Write
    <2>1. /\ docs' = Upserted(Batch(cur.order), disk.pups) /\ UNCHANGED disk
          /\ Batch(cur.order) = DOMAIN disk.pups
      BY <1>0, <1>1 DEF Write, WriteDocuments, InStep, Single, Committing
    <2> QED
      BY <2>1, DocumentsLocked
  <1>2. CASE Finalize
    <2> DEFINE s == Applied(mem, cur.order)
    <2>1. save_state(s) /\ pc = "written"
      BY <1>0, <1>2 DEF Finalize
    <2>2. DOMAIN s.pups = {} /\ s.pdel = {}
      BY <2>1, AppliedPromised DEF save_state, InStep, Single, Committing
    <2>3. disk' = s
      BY <2>1 DEF save_state
    <2> HIDE DEF s
    <2> QED
      BY <2>2, <2>3, NothingJournaled
  <1>3. CASE ImportTombstones
    <2> DEFINE T == mem.tombs \cup cur.imported
               s == [mem EXCEPT !.tombs = T]
    <2>1. save_state(s) /\ pc = "tombstones"
      BY <1>0, <1>3 DEF ImportTombstones
    <2>2. s.pdel = mem.pdel /\ s.pups = mem.pups
      BY DEF TypeInv, TypeOK, IsState
    <2>3. disk' = s /\ mem = disk /\ NoUpserts /\ disk.pdel = {}
      BY <2>1 DEF save_state, InStep, Single, Quiet
    <2> HIDE DEF s
    <2> QED
      BY <2>2, <2>3, NothingJournaled DEF NoUpserts
  <1>4. CASE DeleteStale
    <2>1. CASE UNCHANGED <<disk, docs>>
      BY <2>1 DEF LocksKept
    <2> QED
      BY <1>4, <2>1, IntentLocked DEF DeleteStale
  <1>5. CASE Erase \/ PurgeDocuments
    BY <1>0, <1>5, DocumentsLocked DEF Erase, PurgeDocuments, DeleteDocuments
  <1>6. CASE DeleteSave
    BY <1>0, <1>6, NothingJournaled
    DEF DeleteSave, save_state, InStep, Single, NoUpserts, Removing
  <1>7. CASE PurgeState
    <2>1. disk'.pdel = {} /\ disk'.pups = EmptyMap
      BY <1>0, <1>7 DEF PurgeState, save_state, EmptyState
    <2> QED
      BY <2>1, NothingJournaled DEF EmptyMap
  <1>8. ASSUME NEW i \in Id, Remove(i)
        PROVE  LocksKept'
    BY <1>8 DEF Remove, LocksKept
  <1> QED
    BY <1>1, <1>2, <1>3, <1>4, <1>5, <1>6, <1>7, <1>8 DEF Progress

\* So does a recovery.
LEMMA RecoveryLocked ==
    ASSUME TypeInv, InStep, LocksKept, faults' = 0, ~refused, ~refused',
           Recovery
    PROVE  LocksKept'
  <1>0. /\ \A s : ~save_fails(s)
        /\ \A j, B : ~WriteDocumentsFails(j, B)
        /\ \A F : ~DeleteDocumentsFails(F)
    BY NoFault DEF TypeInv
  <1>1. CASE Open
    BY <1>1 DEF Open, LocksKept
  <1>2. CASE RecoverWrite
    <2>1. /\ \/ docs' = Upserted(DOMAIN disk.pups, disk.pups)
             \/ UNCHANGED docs
          /\ UNCHANGED disk
      BY <1>0, <1>2
      DEF RecoverWrite, WriteDocuments, UpsertRefused, GraphRefuses, InStep,
          Committing
    <2>2. CASE UNCHANGED docs
      BY <2>1, <2>2 DEF LocksKept
    <2> QED
      BY <2>1, <2>2, DocumentsLocked
  <1>3. CASE RecoverFinalize
    <2> DEFINE s == Applied(mem, cur.order)
    <2>1. (save_state(s) \/ UNCHANGED disk) /\ UNCHANGED docs /\ pc = "recover_finalize"
      BY <1>0, <1>3 DEF RecoverFinalize
    <2>2. Valid(s) => DOMAIN s.pups = {} /\ s.pdel = {}
      BY <2>1, AppliedPromised DEF InStep, Single, Committing
    <2> HIDE DEF s
    <2>3. CASE save_state(s)
      BY <2>2, <2>3, NothingJournaled DEF save_state
    <2>4. CASE UNCHANGED disk
      BY <2>1, <2>4 DEF LocksKept
    <2> QED
      BY <2>1, <2>3, <2>4
  <1>4. CASE RecoverErase
    <2>1. CASE UNCHANGED <<docs, disk>>
      BY <2>1 DEF LocksKept
    <2> QED
      BY <1>0, <1>4, <2>1, DocumentsLocked
      DEF RecoverErase, DeleteDocuments, GraphRefuses
  <1>5. CASE RecoverSave
    BY <1>0, <1>5, NothingJournaled
    DEF RecoverSave, save_state, InStep, Single, NoUpserts, Removing
  <1> QED
    BY <1>1, <1>2, <1>3, <1>4, <1>5 DEF Recovery

\* What a crash tears is what the journal names.
LEMMA CrashLocked ==
    ASSUME TypeInv, InStep, LocksKept, ~refused, Crash
    PROVE  LocksKept'
  <1>1. UNCHANGED disk
    BY DEF Crash
  <1>2. CASE pc \in {"journaled", "recover_write"}
    <2>1. PICK W \in SUBSET Batch(cur.order) : docs' = Upserted(W, mem.pups)
      BY <1>2 DEF Crash
    <2>2. mem = disk /\ Batch(cur.order) = DOMAIN disk.pups
      BY <1>2 DEF InStep, Single, Committing
    <2> QED
      BY <1>1, <2>1, <2>2, DocumentsLocked
  <1>3. CASE pc \in {"erasing", "recover_erase", "purging"}
    BY <1>1, <1>3, DocumentsLocked DEF Crash
  <1>4. CASE pc \notin {"journaled", "recover_write", "erasing",
                        "recover_erase", "purging"}
    BY <1>1, <1>4 DEF Crash, LocksKept
  <1> QED
    BY <1>2, <1>3, <1>4

\* Every step of which no write fails keeps what the journal may name.
LEMMA NextLocked ==
    ASSUME TypeInv, PromiseInv, LockInv, [Next]_vars
    PROVE  LockInv'
  <1> SUFFICES ASSUME faults' = 0, ~refused'
               PROVE  LocksKept'
    BY DEF LockInv
  <1>1. InStep /\ LocksKept /\ ~refused
    BY FaultsGrow, RefusalRemembered DEF PromiseInv, LockInv, TypeInv
  <1>2. CASE UNCHANGED vars
    BY <1>1, <1>2 DEF vars, LocksKept
  <1> QED
    BY <1>1, <1>2, RequestLocked, ProgressLocked, RecoveryLocked, CrashLocked
    DEF Next

\* A locked memory and its document, over one step.
KeepsLocked ==
    \A i \in DOMAIN docs \cap DOMAIN mem.records :
        mem.records[i].locked /\ pc # "purging" /\ ~refused =>
            i \in DOMAIN docs' /\ docs'[i] = docs[i]

\* No step changes the document of a locked memory.
LEMMA StepKeepsLocked ==
    ASSUME TypeInv, PromiseInv, LockInv, [Next]_vars, faults' = 0
    PROVE  KeepsLocked
  <1> SUFFICES ASSUME ~refused
               PROVE  KeepsLocked
    BY DEF KeepsLocked
  <1>0. /\ InStep /\ LocksKept
        /\ \A j, B : ~WriteDocumentsFails(j, B)
        /\ \A F : ~DeleteDocumentsFails(F)
    BY FaultsGrow, NoFault DEF PromiseInv, LockInv, TypeInv
  <1>1. CASE UNCHANGED docs
    BY <1>1 DEF KeepsLocked
  <1>2. ASSUME pc \in {"journaled", "recover_write"},
               NEW W \in SUBSET Batch(cur.order), docs' = Upserted(W, mem.pups)
        PROVE  KeepsLocked
    <2>1. mem = disk /\ Batch(cur.order) = DOMAIN disk.pups
      BY <1>0, <1>2 DEF InStep, Single, Committing
    <2>2. /\ DOMAIN docs' = DOMAIN docs \cup W
          /\ \A i \in W : docs'[i] = disk.pups[i].ver
          /\ \A i \in DOMAIN docs \ W : docs'[i] = docs[i]
      BY <1>2, <2>1 DEF Upserted
    <2> QED
      BY <1>0, <2>1, <2>2 DEF KeepsLocked, LocksKept
  <1>3. ASSUME pc \in {"erasing", "recover_erase"},
               NEW W \in SUBSET cur.found, docs' = Without(W)
        PROVE  KeepsLocked
    <2>1. mem = disk /\ cur.found \subseteq disk.pdel
      BY <1>0, <1>3 DEF InStep, Deleting
    <2>2. /\ DOMAIN docs' = DOMAIN docs \ W
          /\ \A i \in DOMAIN docs \ W : docs'[i] = docs[i]
      BY <1>3 DEF Without
    <2> QED
      BY <1>0, <2>1, <2>2 DEF KeepsLocked, LocksKept
  <1>4. CASE pc = "purging"
    BY <1>4 DEF KeepsLocked
  <1>5. CASE Request
    <2>1. UNCHANGED docs
      BY <1>5, RequestCases
      DEF CommitsBatch, commit_pending_upserts, SetLocked, Delete, DeleteIntent,
          Purge, TypeInv
    <2> QED
      BY <1>1, <2>1
  <1>6. CASE Progress
    <2>1. CASE Write
      BY <1>0, <1>1, <1>2, <2>1
      DEF Write, WriteDocuments, UpsertRefused, GraphRefuses
    <2>2. CASE Erase
      BY <1>0, <1>3, <2>2 DEF Erase, DeleteDocuments
    <2>3. CASE PurgeDocuments
      BY <1>4, <2>3 DEF PurgeDocuments
    <2>4. CASE \/ Finalize \/ ImportTombstones \/ DeleteStale \/ DeleteSave
               \/ PurgeState \/ \E i \in Id : Remove(i)
      BY <1>1, <2>4
      DEF Finalize, ImportTombstones, DeleteStale, DeleteIntent, DeleteSave,
          PurgeState, Remove
    <2> QED
      BY <1>6, <2>1, <2>2, <2>3, <2>4 DEF Progress
  <1>7. CASE Recovery
    <2>1. CASE RecoverWrite
      <3>1. /\ pc = "recover_write"
            /\ \/ docs' = Upserted(DOMAIN mem.pups, mem.pups)
               \/ UNCHANGED docs
        BY <1>0, <2>1
        DEF RecoverWrite, WriteDocuments, UpsertRefused, GraphRefuses
      <3>2. DOMAIN mem.pups = Batch(cur.order)
        BY <1>0, <3>1 DEF InStep, Committing
      <3> QED
        BY <1>1, <1>2, <3>1, <3>2
    <2>2. CASE RecoverErase
      BY <1>0, <1>1, <1>3, <2>2 DEF RecoverErase, DeleteDocuments, GraphRefuses
    <2>3. CASE Open \/ RecoverFinalize \/ RecoverSave
      BY <1>1, <2>3 DEF Open, RecoverFinalize, RecoverSave
    <2> QED
      BY <1>7, <2>1, <2>2, <2>3 DEF Recovery
  <1>8. CASE Crash
    BY <1>1, <1>2, <1>3, <1>4, <1>8 DEF Crash
  <1> QED
    BY <1>1, <1>5, <1>6, <1>7, <1>8 DEF Next, vars

\* As long as no durable write fails, and wherever the process dies, the
\* document of a locked memory is changed by a purge only, or by the replay of a
\* batch the graph had refused before the lock was taken: the checks of
\* prepare_store_upsert, import_snapshot and ensure_delete_allowed are made once,
\* and neither a replay on open nor a delete that was journaled goes past them.
THEOREM LocksHold == MaxFaults = 0 => (Spec => LockedIsKept)
  <1> SUFFICES ASSUME MaxFaults = 0 PROVE Spec => LockedIsKept
    OBVIOUS
  <1>1. Init => LockInv
    BY DEF Init, LockInv, LocksKept, EmptyMap
  <1>2. TypeInv' => faults' = 0
    BY DEF TypeInv, TypeOK
  <1>3. /\ TypeInv /\ TypeInv' /\ PromiseInv /\ LockInv /\ [Next]_vars
        => [\A i \in DOMAIN docs \cap DOMAIN mem.records :
               mem.records[i].locked /\ pc # "purging" /\ ~refused =>
                   i \in DOMAIN docs' /\ docs'[i] = docs[i]]_vars
    BY <1>2, StepKeepsLocked DEF KeepsLocked
  <1> QED
    BY <1>1, <1>3, NextLocked, TypeInvHolds, PromiseInvHolds, PTL
    DEF Spec, LockedIsKept
=============================================================================

---------------------------- MODULE FileSyncProofs ----------------------------
(***************************************************************************)
(* What index_documents and sync_shared do, for every set of documents, of *)
(* Markdown files, contents and texts, and any number of edits, crashes,   *)
(* ingests, locks, deletes and purges:                                     *)
(*                                                                         *)
(*   IndexFollows      Spec => []IndexInv                                  *)
(*   IndexIsFaithful   Spec => []IndexMirrors                              *)
(*   RemovalIsGrounded Spec => OnlyGoneIsRemoved                           *)
(*   SyncFollows       Spec => []SyncInv                                   *)
(*   SyncIsConvergent  Spec => []SyncConverges                             *)
(*                                                                         *)
(* IndexInv says what is true between two turns of the index: the ids that *)
(* are to go are of documents that were read without them, or were not     *)
(* found; the manifest to come has what was read; and what the index has   *)
(* not come to yet is as it was when it began.                             *)
(*                                                                         *)
(* Two facts carry the second half.  After a commit a text that was        *)
(* accepted belongs to its one source (Owned), so that a second sync of    *)
(* the same files never replaces what it has just written; and unless a    *)
(* sync was cut short every source has one text at most (OneText), the one *)
(* that sync_shared finds for it.                                          *)
(***************************************************************************)
EXTENDS FileSync, TLAPS

-----------------------------------------------------------------------------
(* The invariant.                                                          *)

\* Every entry of a manifest lists the memories of its content.
Lists(f) == \A p \in DOMAIN f : f[p] = Entry(f[p].content, IdsOf(p, f[p].content))

\* The requests, by the local variables they have.
AtIndex ==
    at = [op |-> at.op, force |-> at.force, complete |-> at.complete, paths |-> at.paths,
          todo |-> at.todo, legacy |-> at.legacy, next |-> at.next, stale |-> at.stale,
          read |-> at.read, rejected |-> at.rejected]
AtOther ==
    \/ at = Idle \/ at = [op |-> "purge"]
    \/ at.op = "ingest" /\ at = [op |-> "ingest", stale |-> at.stale]
    \/ at.op = "sync" /\ at = [op |-> "sync", request |-> at.request,
                               existing |-> at.existing, gone |-> at.gone]
    \/ at.op = "replace" /\ at = [op |-> "replace", request |-> at.request, old |-> at.old]
    \/ at.op = "synced" /\ at = [op |-> "synced", request |-> at.request, again |-> at.again]

\* Each document that was found is to be done, was read or was rejected.
Sorted ==
    /\ at.paths = at.todo \cup DOMAIN at.read \cup at.rejected
    /\ at.todo \cap (DOMAIN at.read \cup at.rejected) = {}
    /\ DOMAIN at.read \cap at.rejected = {}
    /\ at.op # "index" => at.todo = {}
    /\ at.force \in BOOLEAN /\ at.complete \in BOOLEAN

\* What was read is stored, and in the manifest to come.
Stored ==
    \A p \in DOMAIN at.read :
        /\ p \in DOMAIN at.next
        /\ at.next[p] = Entry(at.read[p], IdsOf(p, at.read[p]))
        /\ IdsOf(p, at.read[p]) \subseteq chunks

\* What is to go has no ground to stay.
Grounded(k) ==
    \/ k[1] \in DOMAIN at.read /\ k \notin IdsOf(k[1], at.read[k[1]])
    \/ k[1] \notin at.paths /\ at.complete
StaleGrounded == \A k \in at.stale : Grounded(k)

\* What a document had and has no more is on its way out.
Leaving ==
    \A p \in DOMAIN at.read :
        at.force \/ ~(IdsOf(p, at.read[p]) \subseteq at.legacy) =>
            \A k \in chunks : k[1] = p => k \in IdsOf(p, at.read[p]) \/ k \in at.stale

\* What is of a document that was not read is as it was.
Untouched ==
    \A k \in chunks \cup at.legacy :
        k[1] \in at.todo \cup at.rejected => k \in chunks /\ k \in at.legacy

\* The manifest to come, before and after the missing documents leave it.
NextListed ==
    /\ Lists(at.next)
    /\ at.op = "index" =>
         /\ DOMAIN manifest \subseteq DOMAIN at.next
         /\ DOMAIN at.next \subseteq DOMAIN manifest \cup at.paths
         /\ \A p \in at.todo \cap DOMAIN manifest : at.next[p] = manifest[p]
    /\ at.op # "index" /\ at.complete => DOMAIN at.next \subseteq at.paths
    /\ at.op = "indexed" => manifest = at.next /\ at.stale = {}

Indexing == AtIndex /\ Sorted /\ Stored /\ StaleGrounded /\ Leaving /\ Untouched /\ NextListed

IndexInv ==
    /\ Lists(manifest)
    /\ \/ at.op \in {"index", "clean", "indexed"} /\ Indexing
       \/ AtOther

-----------------------------------------------------------------------------
(* Lemmas.                                                                 *)

\* A memory of a document has its path.
LEMMA IdsOfPath ==
    ASSUME NEW p, NEW content, NEW k \in IdsOf(p, content)
    PROVE  k[1] = p
  BY DEF IdsOf

\* The memories of an entry.
LEMMA EntryIds ==
    ASSUME NEW content, NEW ids
    PROVE  Entry(content, ids).memory_ids = ids
  BY DEF Entry

\* A manifest that gets one more right entry lists what it should.
LEMMA ListsWith ==
    ASSUME NEW f, Lists(f), NEW p, NEW content
    PROVE  Lists(With(f, p, Entry(content, IdsOf(p, content))))
  BY DEF Lists, Entry, With

\* A request of another kind is not an index.
LEMMA OtherOps ==
    ASSUME AtOther
    PROVE  at.op \notin {"index", "clean", "indexed"}
  BY DEF AtOther, Idle

LEMMA IndexingNow ==
    ASSUME IndexInv, at.op \in {"index", "clean", "indexed"}
    PROVE  Indexing
  BY OtherOps DEF IndexInv

LEMMA OtherNow ==
    ASSUME IndexInv, at.op \notin {"index", "clean", "indexed"}
    PROVE  AtOther
  BY DEF IndexInv

\* What a step that leaves the request and what it works on leaves true.
LEMMA Aside ==
    ASSUME IndexInv, UNCHANGED <<at, chunks, manifest>>
    PROVE  IndexInv'
  BY DEF IndexInv, Indexing, AtIndex, AtOther, Sorted, Stored, StaleGrounded, Grounded, Leaving,
         Untouched, NextListed, Lists

-----------------------------------------------------------------------------
(* The steps of the index.                                                 *)

LEMMA InitIndex == Init => IndexInv
  BY DEF Init, IndexInv, AtOther, Lists, Empty

LEMMA StartIndex ==
    ASSUME IndexInv, NEW force \in BOOLEAN, IndexStart(force)
    PROVE  IndexInv'
  <1>1. PICK complete \in BOOLEAN, paths \in SUBSET Paths :
            at' = [op |-> "index", force |-> force, complete |-> complete, paths |-> paths,
                   todo |-> paths, legacy |-> chunks, next |-> manifest, stale |-> {},
                   read |-> Empty, rejected |-> {}]
    BY DEF IndexStart
  <1>2. DOMAIN Empty = {}
    BY DEF Empty
  <1>3. UNCHANGED <<chunks, manifest>>
    BY DEF IndexStart, documents
  <1>4. Lists(manifest)
    BY DEF IndexInv
  <1>5. AtIndex' /\ Sorted'
    BY <1>1, <1>2 DEF AtIndex, Sorted
  <1>6. Stored' /\ StaleGrounded' /\ Leaving' /\ Untouched'
    BY <1>1, <1>2, <1>3 DEF Stored, StaleGrounded, Leaving, Untouched
  <1>7. NextListed'
    BY <1>1, <1>3, <1>4 DEF NextListed, Lists
  <1> QED
    BY <1>1, <1>3, <1>4, <1>5, <1>6, <1>7 DEF IndexInv, Indexing, Lists

\* A document whose manifest entry is current counts as read.
LEMMA CurrentIndex ==
    ASSUME IndexInv, at.op = "index", NEW p \in at.todo, is_current(p), ~at.force,
           at' = [at EXCEPT !.todo = @ \ {p}, !.read = With(@, p, files[p])],
           UNCHANGED <<chunks, manifest>>
    PROVE  IndexInv'
  <1>1. Indexing
    BY IndexingNow
  <1>2. at' = [op |-> at.op, force |-> at.force, complete |-> at.complete, paths |-> at.paths,
               todo |-> at.todo \ {p}, legacy |-> at.legacy, next |-> at.next,
               stale |-> at.stale, read |-> With(at.read, p, files[p]),
               rejected |-> at.rejected]
    BY <1>1 DEF Indexing, AtIndex
  <1>3. /\ DOMAIN at'.read = DOMAIN at.read \cup {p} /\ at'.read[p] = files[p]
        /\ \A q \in DOMAIN at.read \ {p} : at'.read[q] = at.read[q]
    <2>1. at'.read = With(at.read, p, files[p])
      BY <1>2
    <2>2. /\ DOMAIN With(at.read, p, files[p]) = DOMAIN at.read \cup {p}
          /\ With(at.read, p, files[p])[p] = files[p]
          /\ \A q \in DOMAIN at.read \ {p} : With(at.read, p, files[p])[q] = at.read[q]
      BY DEF With
    <2> QED
      BY <2>1, <2>2
  <1>4. p \notin DOMAIN at.read /\ p \notin at.rejected /\ p \in at.paths
    BY <1>1 DEF Indexing, Sorted
  <1>5. /\ p \in DOMAIN at.next /\ at.next[p] = Entry(files[p], IdsOf(p, files[p]))
        /\ IdsOf(p, files[p]) \subseteq chunks
    BY <1>1 DEF is_current, Indexing, NextListed, Lists, Entry
  <1>6. AtIndex' /\ Sorted'
    <2>1. AtIndex'
      BY <1>2 DEF AtIndex
    <2>2. Sorted'
      BY <1>1, <1>2, <1>3, <1>4 DEF Indexing, Sorted
    <2> QED
      BY <2>1, <2>2
  <1>7. Stored'
    BY <1>1, <1>2, <1>3, <1>4, <1>5 DEF Indexing, Stored
  <1>8. StaleGrounded'
    <2> SUFFICES ASSUME NEW k \in at.stale PROVE Grounded(k)'
      BY <1>2 DEF StaleGrounded
    <2>1. Grounded(k)
      BY <1>1 DEF Indexing, StaleGrounded
    <2> QED
      BY <2>1, <1>2, <1>3, <1>4 DEF Grounded
  <1>9. IdsOf(p, files[p]) \subseteq at.legacy
    BY <1>1, <1>5, IdsOfPath DEF Indexing, Untouched
  <1>10. Leaving'
    BY <1>1, <1>2, <1>3, <1>4, <1>9 DEF Indexing, Leaving
  <1>11. Untouched'
    BY <1>1, <1>2 DEF Indexing, Untouched
  <1>12. NextListed'
    BY <1>1, <1>2 DEF Indexing, NextListed, Lists
  <1> QED
    BY <1>1, <1>2, <1>6, <1>7, <1>8, <1>10, <1>11, <1>12 DEF IndexInv, Indexing, Lists

\* A document that is refused keeps what it had.
LEMMA RejectIndex ==
    ASSUME IndexInv, at.op = "index", NEW p \in at.todo,
           at' = [at EXCEPT !.todo = @ \ {p}, !.rejected = @ \cup {p}],
           UNCHANGED <<chunks, manifest>>
    PROVE  IndexInv'
  <1>1. Indexing
    BY IndexingNow
  <1>2. at' = [op |-> at.op, force |-> at.force, complete |-> at.complete, paths |-> at.paths,
               todo |-> at.todo \ {p}, legacy |-> at.legacy, next |-> at.next,
               stale |-> at.stale, read |-> at.read, rejected |-> at.rejected \cup {p}]
    BY <1>1 DEF Indexing, AtIndex
  <1>3. AtIndex' /\ Sorted'
    <2>1. AtIndex'
      BY <1>2 DEF AtIndex
    <2>2. Sorted'
      BY <1>1, <1>2 DEF Indexing, Sorted
    <2> QED
      BY <2>1, <2>2
  <1>4. Stored' /\ Leaving'
    BY <1>1, <1>2 DEF Indexing, Stored, Leaving
  <1>5. StaleGrounded'
    BY <1>1, <1>2 DEF Indexing, StaleGrounded, Grounded
  <1>6. Untouched' /\ NextListed'
    BY <1>1, <1>2 DEF Indexing, Untouched, NextListed, Lists
  <1> QED
    BY <1>1, <1>2, <1>3, <1>4, <1>5, <1>6 DEF IndexInv, Indexing, Lists

\* A document that is written anew: its old memories are to go.
LEMMA WriteIndex ==
    ASSUME IndexInv, at.op = "index", NEW p \in at.todo, NEW ids,
           ids = IdsOf(p, files[p]),
           chunks' = chunks \cup ids,
           at' = [at EXCEPT !.todo = @ \ {p}, !.read = With(@, p, files[p]),
                            !.stale = @ \cup (previous_ids(p) \ ids),
                            !.next = With(@, p, Entry(files[p], ids))],
           UNCHANGED manifest
    PROVE  IndexInv'
  <1>1. Indexing
    BY IndexingNow
  <1>2. at' = [op |-> at.op, force |-> at.force, complete |-> at.complete, paths |-> at.paths,
               todo |-> at.todo \ {p}, legacy |-> at.legacy,
               next |-> With(at.next, p, Entry(files[p], ids)),
               stale |-> at.stale \cup (previous_ids(p) \ ids),
               read |-> With(at.read, p, files[p]), rejected |-> at.rejected]
    BY <1>1 DEF Indexing, AtIndex
  <1>3. /\ DOMAIN at'.read = DOMAIN at.read \cup {p} /\ at'.read[p] = files[p]
        /\ \A q \in DOMAIN at.read \ {p} : at'.read[q] = at.read[q]
    <2>1. at'.read = With(at.read, p, files[p])
      BY <1>2
    <2>2. /\ DOMAIN With(at.read, p, files[p]) = DOMAIN at.read \cup {p}
          /\ With(at.read, p, files[p])[p] = files[p]
          /\ \A q \in DOMAIN at.read \ {p} : With(at.read, p, files[p])[q] = at.read[q]
      BY DEF With
    <2> QED
      BY <2>1, <2>2
  <1>4. /\ DOMAIN at'.next = DOMAIN at.next \cup {p} /\ at'.next[p] = Entry(files[p], ids)
        /\ \A q \in DOMAIN at.next \ {p} : at'.next[q] = at.next[q]
    <2>1. at'.next = With(at.next, p, Entry(files[p], ids))
      BY <1>2
    <2>2. /\ DOMAIN With(at.next, p, Entry(files[p], ids)) = DOMAIN at.next \cup {p}
          /\ With(at.next, p, Entry(files[p], ids))[p] = Entry(files[p], ids)
          /\ \A q \in DOMAIN at.next \ {p} : With(at.next, p, Entry(files[p], ids))[q] = at.next[q]
      BY DEF With
    <2> QED
      BY <2>1, <2>2
  <1>5. p \notin DOMAIN at.read /\ p \notin at.rejected /\ p \in at.paths
    BY <1>1 DEF Indexing, Sorted
  <1>6. \A k \in previous_ids(p) : k[1] = p
    BY <1>1, IdsOfPath DEF previous_ids, IndexInv, Lists, Entry
  <1>7. \A k \in ids : k[1] = p
    BY IdsOfPath
  <1>8. AtIndex' /\ Sorted'
    <2>1. AtIndex'
      BY <1>2 DEF AtIndex
    <2>2. Sorted'
      BY <1>1, <1>2, <1>3, <1>5 DEF Indexing, Sorted
    <2> QED
      BY <2>1, <2>2
  <1>9. Stored'
    BY <1>1, <1>2, <1>3, <1>4, <1>5 DEF Indexing, Stored
  <1>10. StaleGrounded'
    <2> SUFFICES ASSUME NEW k \in at.stale \cup (previous_ids(p) \ ids) PROVE Grounded(k)'
      BY <1>2 DEF StaleGrounded
    <2>1. CASE k \in at.stale
      <3>1. Grounded(k)
        BY <1>1, <2>1 DEF Indexing, StaleGrounded
      <3> QED
        BY <3>1, <1>2, <1>3, <1>5 DEF Grounded
    <2>2. CASE k \in previous_ids(p) \ ids
      BY <2>2, <1>2, <1>3, <1>6 DEF Grounded
    <2> QED
      BY <2>1, <2>2
  <1>11. Leaving'
    <2> SUFFICES ASSUME NEW q \in DOMAIN at'.read,
                        at.force \/ ~(IdsOf(q, at'.read[q]) \subseteq at.legacy),
                        NEW k \in chunks', k[1] = q
                 PROVE  k \in IdsOf(q, at'.read[q]) \/ k \in at'.stale
      BY <1>2 DEF Leaving
    <2>1. CASE q = p
      <3>1. k \in ids \/ k \in at.legacy
        BY <1>1, <2>1 DEF Indexing, Untouched
      <3>2. k \in ids \/ k \in previous_ids(p)
        BY <3>1, <2>1 DEF previous_ids
      <3> QED
        BY <3>2, <2>1, <1>2, <1>3
    <2>2. CASE q # p
      BY <2>2, <1>1, <1>2, <1>3, <1>7 DEF Indexing, Leaving
    <2> QED
      BY <2>1, <2>2
  <1>12. Untouched'
    BY <1>1, <1>2, <1>5, <1>7 DEF Indexing, Untouched
  <1>13. Lists(at'.next)
    BY <1>1, <1>2, ListsWith DEF Indexing, NextListed
  <1>14. NextListed'
    BY <1>1, <1>2, <1>4, <1>5, <1>13 DEF Indexing, NextListed, Lists
  <1> QED
    BY <1>1, <1>2, <1>8, <1>9, <1>10, <1>11, <1>12, <1>14 DEF IndexInv, Indexing, Lists

LEMMA FileIndex ==
    ASSUME IndexInv, NEW p, IndexFile(p)
    PROVE  IndexInv'
  <1>1. at.op = "index" /\ p \in at.todo /\ UNCHANGED manifest
    BY DEF IndexFile
  <1>2. CASE /\ ~at.force /\ is_current(p) /\ UNCHANGED chunks
             /\ at' = [[at EXCEPT !.todo = @ \ {p}] EXCEPT !.read = With(@, p, files[p])]
    BY <1>1, <1>2, CurrentIndex
  <1>3. CASE /\ at' = [[at EXCEPT !.todo = @ \ {p}] EXCEPT !.rejected = @ \cup {p}]
             /\ UNCHANGED chunks
    BY <1>1, <1>3, RejectIndex
  <1>4. CASE /\ chunks' = chunks \cup IdsOf(p, files[p])
             /\ at' = [[at EXCEPT !.todo = @ \ {p}] EXCEPT
                          !.read = With(@, p, files[p]),
                          !.stale = @ \cup (previous_ids(p) \ IdsOf(p, files[p])),
                          !.next = With(@, p, Entry(files[p], IdsOf(p, files[p])))]
    BY <1>1, <1>4, WriteIndex
  <1> QED
    BY <1>2, <1>3, <1>4 DEF IndexFile

\* The missing documents leave the manifest to come, their memories go.
LEMMA MissingIndex ==
    ASSUME IndexInv, IndexMissing
    PROVE  IndexInv'
  <1> DEFINE kept == Restrict(at.next, DOMAIN at.next \ missing_paths)
             gone == UNION {at.next[p].memory_ids : p \in missing_paths}
             retained == UNION {kept[p].memory_ids : p \in DOMAIN kept}
  <1>1. at.op = "index" /\ at.todo = {} /\ UNCHANGED <<chunks, manifest>>
    BY DEF IndexMissing, documents
  <1>2. Indexing
    BY <1>1, IndexingNow
  <1>3. at' = [op |-> "clean", force |-> at.force, complete |-> at.complete, paths |-> at.paths,
               todo |-> at.todo, legacy |-> at.legacy, next |-> kept,
               stale |-> (at.stale \cup gone) \ retained, read |-> at.read,
               rejected |-> at.rejected]
    <2>1. at' = [at EXCEPT !.op = "clean", !.next = kept,
                           !.stale = (at.stale \cup gone) \ retained]
      BY DEF IndexMissing
    <2> QED
      BY <2>1, <1>2 DEF Indexing, AtIndex
  <1>4. /\ DOMAIN kept = DOMAIN at.next \ missing_paths
        /\ \A p \in DOMAIN kept : kept[p] = at.next[p]
    BY DEF Restrict
  <1>5. missing_paths \subseteq DOMAIN at.next /\ missing_paths \cap at.paths = {}
    BY <1>1, <1>2 DEF Indexing, NextListed, missing_paths
  <1>6. \A p \in DOMAIN at.next : \A k \in at.next[p].memory_ids : k[1] = p
    <2> SUFFICES ASSUME NEW p \in DOMAIN at.next, NEW k \in at.next[p].memory_ids
                 PROVE  k[1] = p
      OBVIOUS
    <2>1. at.next[p].memory_ids = IdsOf(p, at.next[p].content)
      <3>1. at.next[p] = Entry(at.next[p].content, IdsOf(p, at.next[p].content))
        BY <1>2 DEF Indexing, NextListed, Lists
      <3> QED
        BY <3>1, EntryIds
    <2> QED
      BY <2>1, IdsOfPath
  <1>7. \A k \in gone : k[1] \notin at.paths /\ at.complete
    <2> SUFFICES ASSUME NEW p \in missing_paths, NEW k \in at.next[p].memory_ids
                 PROVE  k[1] \notin at.paths /\ at.complete
      OBVIOUS
    <2> QED
      BY <1>5, <1>6 DEF missing_paths
  <1>8. AtIndex'
    BY <1>3 DEF AtIndex
  <1>9. Sorted'
    BY <1>1, <1>2, <1>3 DEF Indexing, Sorted
  <1>10. Stored'
    <2>1. DOMAIN at.read \subseteq DOMAIN kept
      BY <1>2, <1>4, <1>5 DEF Indexing, Sorted, Stored
    <2> QED
      BY <2>1, <1>1, <1>2, <1>3, <1>4 DEF Indexing, Stored
  <1>11. StaleGrounded'
    <2> SUFFICES ASSUME NEW k \in at.stale \cup gone PROVE Grounded(k)'
      BY <1>3 DEF StaleGrounded
    <2>1. Grounded(k)
      BY <1>2, <1>7 DEF Indexing, StaleGrounded, Grounded
    <2> QED
      BY <2>1, <1>3 DEF Grounded
  <1>12. Leaving'
    <2> SUFFICES ASSUME NEW p \in DOMAIN at.read,
                        at.force \/ ~(IdsOf(p, at.read[p]) \subseteq at.legacy),
                        NEW k \in chunks, k[1] = p, k \notin IdsOf(p, at.read[p])
                 PROVE  k \in (at.stale \cup gone) \ retained
      BY <1>1, <1>3 DEF Leaving
    <2>1. k \in at.stale
      BY <1>2 DEF Indexing, Leaving
    <2>2. ASSUME NEW q \in DOMAIN kept, k \in kept[q].memory_ids PROVE FALSE
      <3>1. q = p
        BY <2>2, <1>4, <1>6
      <3>2. kept[p].memory_ids = IdsOf(p, at.read[p])
        <4>1. kept[p] = at.next[p]
          BY <1>4, <2>2, <3>1
        <4>2. at.next[p] = Entry(at.read[p], IdsOf(p, at.read[p]))
          BY <1>2 DEF Indexing, Stored
        <4> HIDE DEF kept
        <4> QED
          BY <4>1, <4>2 DEF Entry
      <3> QED
        BY <2>2, <3>1, <3>2
    <2> QED
      BY <2>1, <2>2
  <1>13. Untouched'
    BY <1>1, <1>2, <1>3 DEF Indexing, Untouched
  <1>14. NextListed'
    <2>1. Lists(kept)
      BY <1>2, <1>4 DEF Indexing, NextListed, Lists
    <2>2. at.complete => DOMAIN kept \subseteq at.paths
      BY <1>1, <1>2, <1>4 DEF Indexing, NextListed, missing_paths
    <2> HIDE DEF kept, gone, retained
    <2> QED
      BY <2>1, <2>2, <1>3 DEF NextListed, Lists
  <1> HIDE DEF kept, gone, retained
  <1> QED
    BY <1>1, <1>2, <1>3, <1>8, <1>9, <1>10, <1>11, <1>12, <1>13, <1>14
    DEF IndexInv, Indexing, Lists

\* A batch goes, or a locked memory ends the request.
LEMMA CleanIndex ==
    ASSUME IndexInv, IndexClean
    PROVE  IndexInv'
  <1>1. at.op = "clean" /\ UNCHANGED manifest
    BY DEF IndexClean
  <1>2. Indexing
    BY <1>1, IndexingNow
  <1>3. CASE at' = Idle
    BY <1>1, <1>3 DEF IndexInv, AtOther, Lists
  <1>4. ASSUME NEW batch \in SUBSET at.stale, chunks' = chunks \ batch,
               at' = [at EXCEPT !.stale = @ \ batch]
        PROVE  IndexInv'
    <2>1. at' = [op |-> at.op, force |-> at.force, complete |-> at.complete, paths |-> at.paths,
                 todo |-> at.todo, legacy |-> at.legacy, next |-> at.next,
                 stale |-> at.stale \ batch, read |-> at.read, rejected |-> at.rejected]
      BY <1>2, <1>4 DEF Indexing, AtIndex
    <2>2. AtIndex'
      BY <2>1 DEF AtIndex
    <2>3. Sorted'
      BY <1>2, <2>1 DEF Indexing, Sorted
    <2>4. \A k \in batch : Grounded(k)
      BY <1>2, <1>4 DEF Indexing, StaleGrounded
    <2>5. Stored'
      <3> SUFFICES ASSUME NEW p \in DOMAIN at.read
                   PROVE  /\ p \in DOMAIN at.next
                          /\ at.next[p] = Entry(at.read[p], IdsOf(p, at.read[p]))
                          /\ IdsOf(p, at.read[p]) \subseteq chunks'
        BY <2>1 DEF Stored
      <3>1. p \in at.paths
        BY <1>2 DEF Indexing, Sorted
      <3>2. \A k \in IdsOf(p, at.read[p]) : k \notin batch
        BY <2>4, <3>1, IdsOfPath DEF Grounded
      <3> QED
        BY <1>2, <1>4, <3>2 DEF Indexing, Stored
    <2>6. StaleGrounded'
      BY <1>2, <2>1 DEF Indexing, StaleGrounded, Grounded
    <2>7. Leaving'
      BY <1>2, <1>4, <2>1 DEF Indexing, Leaving
    <2>8. Untouched'
      <3> SUFFICES ASSUME NEW k \in chunks \cup at.legacy, k[1] \in at.todo \cup at.rejected
                   PROVE  k \in chunks' /\ k \in at.legacy
        BY <1>4, <2>1 DEF Untouched
      <3>1. k[1] \in at.paths /\ k[1] \notin DOMAIN at.read
        BY <1>2 DEF Indexing, Sorted
      <3>2. k \notin batch
        BY <2>4, <3>1 DEF Grounded
      <3> QED
        BY <1>2, <1>4, <3>2 DEF Indexing, Untouched
    <2>9. NextListed'
      BY <1>1, <1>2, <2>1 DEF Indexing, NextListed, Lists
    <2> QED
      BY <1>1, <1>2, <2>1, <2>2, <2>3, <2>5, <2>6, <2>7, <2>8, <2>9
      DEF IndexInv, Indexing, Lists
  <1> QED
    BY <1>3, <1>4 DEF IndexClean, Batch, Deletes

\* The manifest becomes what it was to become.
LEMMA SaveIndex ==
    ASSUME IndexInv, IndexSave
    PROVE  IndexInv'
  <1>1. /\ at.op = "clean" /\ at.stale = {} /\ UNCHANGED chunks
        /\ manifest' = at.next /\ at' = [at EXCEPT !.op = "indexed"]
    BY DEF IndexSave
  <1>2. Indexing
    BY <1>1, IndexingNow
  <1>3. at' = [op |-> "indexed", force |-> at.force, complete |-> at.complete,
               paths |-> at.paths, todo |-> at.todo, legacy |-> at.legacy,
               next |-> at.next, stale |-> at.stale, read |-> at.read,
               rejected |-> at.rejected]
    BY <1>1, <1>2 DEF Indexing, AtIndex
  <1>4. AtIndex'
    BY <1>3 DEF AtIndex
  <1>5. Sorted' /\ Stored'
    BY <1>1, <1>2, <1>3 DEF Indexing, Sorted, Stored
  <1>6. StaleGrounded' /\ Leaving' /\ Untouched'
    BY <1>1, <1>2, <1>3 DEF Indexing, StaleGrounded, Leaving, Untouched
  <1>7. NextListed'
    BY <1>1, <1>2, <1>3 DEF Indexing, NextListed, Lists
  <1>8. Lists(manifest)'
    BY <1>1, <1>2 DEF Indexing, NextListed, Lists
  <1> QED
    BY <1>3, <1>4, <1>5, <1>6, <1>7, <1>8 DEF IndexInv, Indexing

-----------------------------------------------------------------------------
(* The other steps, and the theorems.                                      *)

\* No other operation runs while the index does, and none but the index and a
\* purge changes the manifest.
LEMMA OtherSteps ==
    ASSUME IndexInv,
           \/ Sync \/ IngestClean \/ PurgeIndex \/ Answered \/ Purge \/ Crash
           \/ \E p \in Paths : ingest(p)
           \/ \E k \in chunks : DeleteChunk(k) \/ SetLocked(k)
    PROVE  IndexInv'
  <1>1. Lists(manifest) /\ Lists(Empty)
    BY DEF IndexInv, Lists, Empty
  <1>2. CASE AtOther' /\ (UNCHANGED manifest \/ manifest' = Empty)
    BY <1>1, <1>2 DEF IndexInv, Lists
  <1>3. CASE Sync
    <2>1. at.op \notin {"index", "clean", "indexed"} /\ UNCHANGED manifest
      BY <1>3 DEF Sync, SyncStart, SyncRemove, SyncCommit, SyncReplace, SyncEnd, Idle, documents
    <2>2. AtOther
      BY <2>1, OtherNow
    <2>3. AtOther'
      <3>1. CASE SyncStart
        BY <3>1 DEF SyncStart, AtOther
      <3>2. CASE SyncRemove
        BY <3>2, <2>2 DEF SyncRemove, AtOther, Idle
      <3>3. CASE SyncCommit
        BY <3>3 DEF SyncCommit, AtOther
      <3>4. CASE SyncReplace
        BY <3>4, <2>2 DEF SyncReplace, AtOther, Idle
      <3>5. CASE SyncEnd
        BY <3>5 DEF SyncEnd, AtOther
      <3> QED
        BY <1>3, <3>1, <3>2, <3>3, <3>4, <3>5 DEF Sync
    <2> QED
      BY <2>1, <2>3, <1>2
  <1>4. CASE IngestClean
    <2>1. at.op = "ingest" /\ UNCHANGED manifest
      BY <1>4 DEF IngestClean
    <2>2. AtOther
      BY <2>1, OtherNow
    <2>3. AtOther'
      BY <1>4, <2>1, <2>2 DEF IngestClean, AtOther, Idle
    <2> QED
      BY <2>1, <2>3, <1>2
  <1>5. CASE PurgeIndex \/ Answered \/ Purge \/ Crash
    BY <1>2, <1>5 DEF PurgeIndex, Answered, Purge, Crash, AtOther, documents
  <1>6. CASE \E p \in Paths : ingest(p)
    BY <1>2, <1>6 DEF ingest, AtOther
  <1>7. CASE \E k \in chunks : DeleteChunk(k) \/ SetLocked(k)
    BY <1>2, <1>7 DEF DeleteChunk, SetLocked, AtOther
  <1> QED
    BY <1>3, <1>4, <1>5, <1>6, <1>7

\* Every step preserves the invariant.
LEMMA StepIndex ==
    ASSUME IndexInv, [Next]_vars
    PROVE  IndexInv'
  <1>1. CASE UNCHANGED vars
    BY <1>1, Aside DEF vars
  <1>2. CASE Index
    BY <1>2, MissingIndex, CleanIndex, SaveIndex DEF Index
  <1>3. CASE \E force \in BOOLEAN : IndexStart(force)
    BY <1>3, StartIndex
  <1>4. CASE \E p \in Paths : IndexFile(p)
    BY <1>4, FileIndex
  <1>5. CASE \E p \in Paths : Edit(p)
    BY <1>5, Aside DEF Edit, documents
  <1> QED
    BY <1>1, <1>2, <1>3, <1>4, <1>5, OtherSteps DEF Next

\* Between two turns of index_documents its local variables are true to what it
\* has done: what is stored, what is to go and what it has not come to.
THEOREM IndexFollows == Spec => []IndexInv
  <1>1. Init => IndexInv
    BY InitIndex
  <1>2. IndexInv /\ [Next]_vars => IndexInv'
    BY StepIndex
  <1> QED
    BY <1>1, <1>2, PTL DEF Spec

\* index_documents leaves each document indexed as it was read, one that was
\* rejected as it was, and, after a complete walk, nothing of one that is gone.
THEOREM IndexIsFaithful == Spec => []IndexMirrors
  <1>1. IndexInv => IndexMirrors
    <2> SUFFICES ASSUME IndexInv, at.op = "indexed" PROVE IndexMirrors
      BY DEF IndexMirrors
    <2>1. Indexing
      BY IndexingNow
    <2>2. manifest = at.next /\ at.stale = {} /\ at.todo = {}
      BY <2>1 DEF Indexing, NextListed, Sorted
    <2>3. ASSUME NEW p \in DOMAIN at.read
          PROVE  LET ids == IdsOf(p, at.read[p]) IN
                 /\ manifest[p] = Entry(at.read[p], ids)
                 /\ ids \subseteq chunks
                 /\ at.force \/ ~(ids \subseteq at.legacy) => ingested_memory_ids_by_path(p) = ids
      <3>1. /\ manifest[p] = Entry(at.read[p], IdsOf(p, at.read[p]))
            /\ IdsOf(p, at.read[p]) \subseteq chunks
        BY <2>1, <2>2 DEF Indexing, Stored
      <3>2. ASSUME at.force \/ ~(IdsOf(p, at.read[p]) \subseteq at.legacy)
            PROVE  ingested_memory_ids_by_path(p) = IdsOf(p, at.read[p])
        BY <2>1, <2>2, <3>1, <3>2, IdsOfPath DEF Indexing, Leaving, ingested_memory_ids_by_path
      <3> QED
        BY <3>1, <3>2
    <2>4. ASSUME NEW p \in at.rejected
          PROVE  {k \in at.legacy : k[1] = p} = ingested_memory_ids_by_path(p)
      BY <2>1 DEF Indexing, Untouched, ingested_memory_ids_by_path
    <2>5. at.complete => DOMAIN manifest \subseteq at.paths
      BY <2>1, <2>2 DEF Indexing, NextListed
    <2> QED
      BY <2>3, <2>4, <2>5 DEF IndexMirrors
  <1> QED
    BY <1>1, IndexFollows, PTL

\* index_documents deletes a chunk only when its document was read without it and
\* what it says now is stored, or when a complete walk has not found the document.
THEOREM RemovalIsGrounded == Spec => OnlyGoneIsRemoved
  <1> DEFINE Kept ==
        \A k \in chunks \ chunks' : at.op \in {"index", "clean"} =>
          \/ k[1] \in DOMAIN at.read /\ k \notin IdsOf(k[1], at.read[k[1]])
                                     /\ IdsOf(k[1], at.read[k[1]]) \subseteq chunks'
          \/ k[1] \notin at.paths /\ at.complete
  <1>1. IndexInv /\ [Next]_vars => [Kept]_vars
    <2> SUFFICES ASSUME IndexInv, Next, NEW k \in chunks \ chunks', at.op \in {"index", "clean"}
                 PROVE  \/ /\ k[1] \in DOMAIN at.read /\ k \notin IdsOf(k[1], at.read[k[1]])
                           /\ IdsOf(k[1], at.read[k[1]]) \subseteq chunks'
                        \/ k[1] \notin at.paths /\ at.complete
      OBVIOUS
    <2>1. Indexing
      BY IndexingNow
    <2>2. IndexClean
      <3>1. ASSUME NEW p, IndexFile(p) PROVE chunks \subseteq chunks'
        BY <3>1 DEF IndexFile
      <3>2. ~(IndexMissing \/ IndexSave \/ \E force \in BOOLEAN : IndexStart(force))
        BY DEF IndexMissing, IndexSave, IndexStart, documents
      <3>3. ~Sync
        BY DEF Sync, SyncStart, SyncRemove, SyncCommit, SyncReplace, SyncEnd, documents
      <3>4. ~(IngestClean \/ PurgeIndex \/ Answered \/ Purge \/ Crash)
        BY DEF IngestClean, PurgeIndex, Answered, Purge, Crash, Idle, documents
      <3>5. ~\E p \in Paths : ingest(p) \/ Edit(p)
        BY DEF ingest, Edit, Idle, documents
      <3>6. ~\E j \in chunks : DeleteChunk(j) \/ SetLocked(j)
        <4>1. at # Idle
          BY DEF Idle
        <4> QED
          BY <4>1 DEF DeleteChunk, SetLocked
      <3> QED
        BY <3>1, <3>2, <3>3, <3>4, <3>5, <3>6 DEF Next, Index
    <2>3. PICK batch \in SUBSET at.stale : chunks' = chunks \ batch
      BY <2>2 DEF IndexClean, Batch, Deletes
    <2>4. \A j \in batch : Grounded(j)
      BY <2>1, <2>3 DEF Indexing, StaleGrounded
    <2>5. CASE k[1] \in DOMAIN at.read /\ k \notin IdsOf(k[1], at.read[k[1]])
      <3>1. k[1] \in at.paths
        BY <2>1, <2>5 DEF Indexing, Sorted
      <3>2. \A j \in IdsOf(k[1], at.read[k[1]]) : j[1] = k[1]
        BY IdsOfPath
      <3>3. IdsOf(k[1], at.read[k[1]]) \cap batch = {}
        BY <2>4, <3>1, <3>2 DEF Grounded
      <3> QED
        BY <2>1, <2>3, <2>5, <3>3 DEF Indexing, Stored
    <2> QED
      BY <2>3, <2>4, <2>5 DEF Grounded
  <1> QED
    BY <1>1, IndexFollows, PTL DEF Spec, OnlyGoneIsRemoved

-----------------------------------------------------------------------------
(* Shared Markdown: the invariant.                                                          *)

\* No source has two memories.
OneText == \A m, n \in repository : m[2] = n[2] => m = n

\* What a request says is the memory of the source it was accepted from.
Owned(request) ==
    \A m \in repository : \A s \in Accepted(request) : m[1] = request[s] => m[2] = s

\* Before the commit: the memories are those that were found, and those whose
\* source is not in the request are on their way out.
Removing ==
    /\ at = [op |-> "sync", request |-> at.request, existing |-> at.existing, gone |-> at.gone]
    /\ at.request \in Requests
    /\ at.request \in latest =>
          \A s \in DOMAIN at.existing : \A t \in Accepted(at.request) :
              at.existing[s] = at.request[t] => s = t
    /\ ~interrupted =>
          /\ OneText
          /\ \A m \in repository :
                /\ m[2] \in DOMAIN at.existing /\ m[1] = at.existing[m[2]]
                /\ m[2] \in DOMAIN at.request \/ m[1] \in at.gone

\* After the commit: what was accepted has its memory, what it replaced is on its
\* way out, and what was rejected has what it had.
Replacing ==
    /\ at = [op |-> "replace", request |-> at.request, old |-> at.old]
    /\ Owned(at.request)
    /\ at.request \in latest =>
          \A s \in Accepted(at.request) :
              at.request[s] \notin at.old /\ <<at.request[s], s>> \in repository
    /\ ~interrupted =>
          \A m \in repository :
              /\ m[2] \in DOMAIN at.request
              /\ m[2] \in Accepted(at.request) => m[1] = at.request[m[2]] \/ m[1] \in at.old
              /\ m[2] \notin Accepted(at.request) => \A n \in repository : m[2] = n[2] => m = n

Synced ==
    /\ at.again => \A s \in Accepted(at.request) : <<at.request[s], s>> \in repository
    /\ ~interrupted =>
          \A m \in repository :
              /\ m[2] \in DOMAIN at.request
              /\ m[2] \in Accepted(at.request) => m[1] = at.request[m[2]]

\* Between two syncs.
Settled ==
    /\ \A request \in latest : Owned(request)
    /\ ~interrupted => OneText

SyncInv ==
    /\ repository \subseteq Texts \X Shared /\ interrupted \in BOOLEAN
    /\ at.op = "sync" => Removing
    /\ at.op = "replace" => Replacing
    /\ at.op = "synced" => Synced
    /\ at.op \notin {"sync", "replace"} => Settled

-----------------------------------------------------------------------------
(* Lemmas.                                                                 *)

\* The sources that are accepted say something, each something else.
LEMMA AcceptedOnce ==
    ASSUME NEW request \in Requests
    PROVE  /\ Accepted(request) \subseteq DOMAIN request /\ DOMAIN request \subseteq Shared
           /\ \A s \in DOMAIN request : request[s] \in Texts
           /\ \A s, t \in Accepted(request) : request[s] = request[t] => s = t
  <1>1. PICK sources \in SUBSET Shared : request \in [sources -> Texts]
    BY DEF Requests
  <1>2. ASSUME NEW s \in Accepted(request), NEW t \in Accepted(request), request[s] = request[t]
        PROVE  s = t
    <2>1. s \in Nat /\ t \in Nat
      BY <1>1, FileConstants DEF Accepted
    <2>2. ~(s < t) /\ ~(t < s)
      BY <1>2 DEF Accepted
    <2> QED
      BY <2>1, <2>2
  <1> QED
    BY <1>1, <1>2 DEF Accepted

\* The text that sync_shared finds for a source is that of one of its memories.
LEMMA ExistingFound ==
    ASSUME NEW found \in existing
    PROVE  /\ DOMAIN found = {m[2] : m \in repository}
           /\ \A s \in DOMAIN found : \E m \in repository : m[2] = s /\ m[1] = found[s]
  BY DEF existing, TextOf

\* A step that leaves the memories alone, between two syncs or apart from one.
LEMMA Elsewhere ==
    ASSUME SyncInv, UNCHANGED <<repository, interrupted, latest>>,
           \/ UNCHANGED at
           \/ /\ at.op \notin {"sync", "replace"}
              /\ at'.op \notin {"sync", "replace", "synced"}
    PROVE  SyncInv'
  <1>1. CASE UNCHANGED at
    BY <1>1 DEF SyncInv, Removing, Replacing, Synced, Settled, OneText, Owned
  <1>2. CASE /\ at.op \notin {"sync", "replace"}
             /\ at'.op \notin {"sync", "replace", "synced"}
    BY <1>2 DEF SyncInv, Settled, OneText, Owned
  <1> QED
    BY <1>1, <1>2

-----------------------------------------------------------------------------
(* The steps of a sync.                                                    *)

LEMMA InitSync == Init => SyncInv
  <1> SUFFICES ASSUME Init PROVE SyncInv
    OBVIOUS
  <1>1. at.op = "idle" /\ repository = {} /\ latest = {} /\ interrupted = FALSE
    BY DEF Init, Idle
  <1> QED
    BY <1>1 DEF SyncInv, Settled, OneText

\* What a request finds is what there is.
LEMMA StartSync ==
    ASSUME SyncInv, SyncStart
    PROVE  SyncInv'
  <1>1. PICK found \in existing, request \in Requests :
            at' = [op |-> "sync", request |-> request, existing |-> found,
                   gone |-> {found[s] : s \in DOMAIN found \ DOMAIN request}]
    BY DEF SyncStart
  <1>2. at = Idle /\ UNCHANGED <<repository, interrupted, latest>>
    BY DEF SyncStart, ghosts
  <1>3. Settled
    BY <1>2 DEF SyncInv, Idle
  <1>4. ASSUME request \in latest, NEW s \in DOMAIN found, NEW t \in Accepted(request),
               found[s] = request[t]
        PROVE  s = t
    <2>1. PICK m \in repository : m[2] = s /\ m[1] = found[s]
      BY ExistingFound
    <2> QED
      BY <1>3, <1>4, <2>1 DEF Settled, Owned
  <1>5. ASSUME ~interrupted, NEW m \in repository
        PROVE  /\ m[2] \in DOMAIN found /\ m[1] = found[m[2]]
               /\ m[2] \in DOMAIN request
                  \/ m[1] \in {found[s] : s \in DOMAIN found \ DOMAIN request}
    <2>1. m[2] \in DOMAIN found
      BY ExistingFound
    <2>2. PICK n \in repository : n[2] = m[2] /\ n[1] = found[m[2]]
      BY <2>1, ExistingFound
    <2>3. n = m
      BY <1>3, <1>5, <2>2 DEF Settled, OneText
    <2> QED
      BY <2>1, <2>2, <2>3
  <1>6. Removing'
    <2>1. ~interrupted => OneText
      BY <1>3 DEF Settled
    <2> QED
      BY <1>1, <1>2, <1>4, <1>5, <2>1 DEF Removing, OneText
  <1> QED
    BY <1>1, <1>2, <1>6 DEF SyncInv

LEMMA RemoveSync ==
    ASSUME SyncInv, SyncRemove
    PROVE  SyncInv'
  <1>1. PICK text \in at.gone : /\ repository' = Without(text)
                                /\ at' = [at EXCEPT !.gone = @ \ {text}]
    BY DEF SyncRemove
  <1>2. Removing /\ UNCHANGED <<interrupted, latest>>
    BY DEF SyncRemove, SyncInv, ghosts
  <1>3. at' = [op |-> "sync", request |-> at.request, existing |-> at.existing,
               gone |-> at.gone \ {text}]
    BY <1>1, <1>2 DEF Removing
  <1>4. repository' \subseteq repository /\ \A m \in repository' : m[1] # text
    BY <1>1 DEF Without
  <1>5. Removing'
    BY <1>2, <1>3, <1>4 DEF Removing, OneText
  <1> QED
    BY <1>2, <1>3, <1>4, <1>5 DEF SyncInv

\* The commit gives each accepted text to its source.
LEMMA CommitSync ==
    ASSUME SyncInv, SyncCommit
    PROVE  SyncInv'
  <1> DEFINE accepted == Accepted(at.request)
             new == {<<at.request[s], s>> : s \in accepted}
  <1>1. /\ at.op = "sync" /\ at.gone = {} /\ UNCHANGED <<interrupted, latest>>
        /\ repository' = new \cup {m \in repository : \A n \in new : m[1] # n[1]}
        /\ at' = [op |-> "replace", request |-> at.request, old |-> Replaced]
    BY DEF SyncCommit, ghosts
  <1>2. Removing
    BY <1>1 DEF SyncInv
  <1>3. /\ accepted \subseteq DOMAIN at.request /\ DOMAIN at.request \subseteq Shared
        /\ \A s \in DOMAIN at.request : at.request[s] \in Texts
        /\ \A s, t \in accepted : at.request[s] = at.request[t] => s = t
    BY <1>2, AcceptedOnce DEF Removing
  <1>4. repository' \subseteq Texts \X Shared
    BY <1>1, <1>3 DEF SyncInv
  <1>5. ASSUME NEW m \in repository', NEW s \in accepted, m[1] = at.request[s]
        PROVE  m[2] = s
    <2>1. <<at.request[s], s>> \in new
      OBVIOUS
    <2>2. m \in new
      BY <1>1, <1>5, <2>1
    <2> QED
      BY <1>3, <1>5, <2>2
  <1>6. ASSUME at.request \in latest, NEW s \in accepted
        PROVE  at.request[s] \notin Replaced /\ <<at.request[s], s>> \in repository'
    BY <1>1, <1>2, <1>6 DEF Removing, Replaced
  <1>7. ASSUME ~interrupted, NEW m \in repository'
        PROVE  /\ m[2] \in DOMAIN at.request
               /\ m[2] \in accepted => m[1] = at.request[m[2]] \/ m[1] \in Replaced
               /\ m[2] \notin accepted => \A n \in repository' : m[2] = n[2] => m = n
    <2>1. CASE m \in new
      BY <2>1, <1>3
    <2>2. CASE m \in repository /\ m \notin new
      <3>1. /\ m[2] \in DOMAIN at.existing /\ m[1] = at.existing[m[2]]
            /\ m[2] \in DOMAIN at.request
        BY <1>1, <1>2, <1>7, <2>2 DEF Removing
      <3>2. m[2] \in accepted => m[1] = at.request[m[2]] \/ m[1] \in Replaced
        BY <3>1 DEF Replaced
      <3>3. ASSUME m[2] \notin accepted, NEW n \in repository', m[2] = n[2]
            PROVE  m = n
        <4>1. n \in repository
          BY <1>1, <3>3
        <4> QED
          BY <1>2, <1>7, <2>2, <3>3, <4>1 DEF Removing, OneText
      <3> QED
        BY <3>1, <3>2, <3>3
    <2> QED
      BY <1>1, <2>1, <2>2
  <1>8. Replacing'
    BY <1>1, <1>5, <1>6, <1>7 DEF Replacing, Owned
  <1> QED
    BY <1>1, <1>4, <1>8 DEF SyncInv

LEMMA ReplaceSync ==
    ASSUME SyncInv, SyncReplace
    PROVE  SyncInv'
  <1>1. PICK text \in at.old : /\ repository' = Without(text)
                               /\ at' = [at EXCEPT !.old = @ \ {text}]
    BY DEF SyncReplace
  <1>2. Replacing /\ UNCHANGED <<interrupted, latest>>
    BY DEF SyncReplace, SyncInv, ghosts
  <1>3. at' = [op |-> "replace", request |-> at.request, old |-> at.old \ {text}]
    BY <1>1, <1>2 DEF Replacing
  <1>4. repository' = {m \in repository : m[1] # text}
    BY <1>1 DEF Without
  <1>5. Replacing'
    <2>1. Owned(at.request)'
      BY <1>2, <1>3, <1>4 DEF Replacing, Owned
    <2>2. ASSUME at.request \in latest, NEW s \in Accepted(at.request)
          PROVE  at.request[s] \notin at.old \ {text} /\ <<at.request[s], s>> \in repository'
      BY <1>1, <1>2, <1>4, <2>2 DEF Replacing
    <2>3. ASSUME ~interrupted, NEW m \in repository'
          PROVE  /\ m[2] \in DOMAIN at.request
                 /\ m[2] \in Accepted(at.request) =>
                        m[1] = at.request[m[2]] \/ m[1] \in at.old \ {text}
                 /\ m[2] \notin Accepted(at.request) =>
                        \A n \in repository' : m[2] = n[2] => m = n
      BY <1>2, <1>4, <2>3 DEF Replacing
    <2> QED
      BY <1>2, <1>3, <2>1, <2>2, <2>3 DEF Replacing
  <1> QED
    BY <1>2, <1>3, <1>4, <1>5 DEF SyncInv

\* With nothing left to replace, the sync has done what it was asked for.
LEMMA EndSync ==
    ASSUME SyncInv, SyncEnd
    PROVE  SyncInv'
  <1>1. /\ at.old = {} /\ UNCHANGED <<repository, interrupted>> /\ latest' = {at.request}
        /\ at' = [op |-> "synced", request |-> at.request, again |-> at.request \in latest]
    BY DEF SyncEnd
  <1>2. Replacing
    BY DEF SyncEnd, SyncInv
  <1>3. Synced'
    BY <1>1, <1>2 DEF Replacing, Synced
  <1>4. ASSUME ~interrupted, NEW m \in repository, NEW n \in repository, m[2] = n[2]
        PROVE  m = n
    <2>1. CASE m[2] \in Accepted(at.request)
      <3>1. m[1] = n[1]
        BY <1>1, <1>2, <1>4, <2>1 DEF Replacing
      <3>2. m \in Texts \X Shared /\ n \in Texts \X Shared
        BY DEF SyncInv
      <3> QED
        BY <1>4, <3>1, <3>2
    <2>2. CASE m[2] \notin Accepted(at.request)
      BY <1>2, <1>4, <2>2 DEF Replacing
    <2> QED
      BY <2>1, <2>2
  <1>5. Settled'
    BY <1>1, <1>2, <1>4 DEF Replacing, Settled, Owned, OneText
  <1> QED
    BY <1>1, <1>3, <1>5 DEF SyncInv

-----------------------------------------------------------------------------
(* The other steps, and the theorems.                                      *)

\* The index leaves the memories from Markdown alone.
LEMMA IndexAside ==
    ASSUME IndexInv, SyncInv,
           Index \/ (\E force \in BOOLEAN : IndexStart(force)) \/ \E p \in Paths : IndexFile(p)
    PROVE  SyncInv'
  <1>1. UNCHANGED <<repository, interrupted, latest>>
    BY DEF Index, IndexStart, IndexFile, IndexMissing, IndexClean, IndexSave, ghosts
  <1>2. CASE \E force \in BOOLEAN : IndexStart(force)
    BY <1>1, <1>2, Elsewhere DEF IndexStart, Idle
  <1>3. CASE Index \/ \E p \in Paths : IndexFile(p)
    <2>1. at.op \in {"index", "clean"}
      BY <1>3 DEF Index, IndexFile, IndexMissing, IndexClean, IndexSave
    <2>2. AtIndex
      BY <2>1, IndexingNow DEF Indexing
    <2>3. at'.op \notin {"sync", "replace", "synced"}
      <3>1. ASSUME NEW p, IndexFile(p) PROVE at'.op = "index"
        BY <2>2, <3>1 DEF AtIndex, IndexFile
      <3>2. CASE IndexMissing
        BY <2>2, <3>2 DEF AtIndex, IndexMissing
      <3>3. CASE IndexClean
        BY <2>2, <3>3 DEF AtIndex, IndexClean, Idle
      <3>4. CASE IndexSave
        BY <2>2, <3>4 DEF AtIndex, IndexSave
      <3> QED
        BY <1>3, <3>1, <3>2, <3>3, <3>4 DEF Index
    <2> QED
      BY <1>1, <2>1, <2>3, Elsewhere
  <1> QED
    BY <1>2, <1>3

LEMMA OthersAside ==
    ASSUME IndexInv, SyncInv,
           \/ IngestClean \/ PurgeIndex \/ Answered
           \/ \E p \in Paths : ingest(p) \/ Edit(p)
           \/ \E k \in chunks : DeleteChunk(k) \/ SetLocked(k)
    PROVE  SyncInv'
  <1>1. UNCHANGED <<repository, interrupted, latest>>
    BY DEF IngestClean, PurgeIndex, Answered, ingest, Edit, DeleteChunk, SetLocked, ghosts
  <1>2. CASE IngestClean
    <2>1. at.op = "ingest" /\ AtOther
      BY <1>2, OtherNow DEF IngestClean
    <2>2. at'.op \notin {"sync", "replace", "synced"}
      BY <1>2, <2>1 DEF IngestClean, AtOther, Idle
    <2> QED
      BY <1>1, <2>1, <2>2, Elsewhere
  <1>3. CASE PurgeIndex \/ Answered
    BY <1>1, <1>3, Elsewhere DEF PurgeIndex, Answered, Idle
  <1>4. CASE \E p \in Paths : ingest(p) \/ Edit(p)
    BY <1>1, <1>4, Elsewhere DEF ingest, Edit, Idle
  <1>5. CASE \E k \in chunks : DeleteChunk(k) \/ SetLocked(k)
    BY <1>1, <1>5, Elsewhere DEF DeleteChunk, SetLocked
  <1> QED
    BY <1>2, <1>3, <1>4, <1>5

\* A purge leaves nothing; a sync that a crash cuts short is not the last one.
LEMMA PurgeOrCrash ==
    ASSUME SyncInv, Purge \/ Crash
    PROVE  SyncInv'
  <1>1. CASE Purge
    BY <1>1 DEF Purge, SyncInv, Settled, OneText, Owned
  <1>2. CASE Crash /\ at.op \in {"sync", "replace"}
    BY <1>2 DEF Crash, SyncInv, Settled, Idle
  <1>3. CASE Crash /\ at.op \notin {"sync", "replace"}
    <2>1. UNCHANGED <<repository, interrupted, latest>> /\ at'.op = "idle"
      BY <1>3 DEF Crash, SyncInv, Idle
    <2> QED
      BY <1>3, <2>1, Elsewhere
  <1> QED
    BY <1>1, <1>2, <1>3

LEMMA StepSync ==
    ASSUME IndexInv, SyncInv, [Next]_vars
    PROVE  SyncInv'
  <1>1. CASE UNCHANGED vars
    BY <1>1, Elsewhere DEF vars
  <1>2. CASE Sync
    BY <1>2, StartSync, RemoveSync, CommitSync, ReplaceSync, EndSync DEF Sync
  <1> QED
    BY <1>1, <1>2, IndexAside, OthersAside, PurgeOrCrash DEF Next

\* Between two turns of sync_shared, what it has found, written and is to remove
\* accounts for all that came from Markdown.
THEOREM SyncFollows == Spec => []SyncInv
  <1>1. Init => SyncInv
    BY InitSync
  <1>2. IndexInv /\ SyncInv /\ [Next]_vars => SyncInv'
    BY StepSync
  <1> QED
    BY <1>1, <1>2, IndexFollows, PTL DEF Spec

\* The second of two syncs of the same files leaves every text they hold, and if
\* none was cut short nothing else of their sources or of those that are gone.
THEOREM SyncIsConvergent == Spec => []SyncConverges
  <1>1. SyncInv => SyncConverges
    <2> SUFFICES ASSUME SyncInv, at.op = "synced", at.again
                 PROVE  /\ \A s \in Accepted(at.request) : <<at.request[s], s>> \in repository
                        /\ ~interrupted =>
                              /\ \A s \in Accepted(at.request) : TextOf(s) = {at.request[s]}
                              /\ \A m \in repository : m[2] \in DOMAIN at.request
      BY DEF SyncConverges
    <2>1. Synced
      BY DEF SyncInv
    <2>2. ASSUME ~interrupted, NEW s \in Accepted(at.request)
          PROVE  TextOf(s) = {at.request[s]}
      BY <2>1, <2>2 DEF Synced, TextOf
    <2> QED
      BY <2>1, <2>2 DEF Synced
  <1> QED
    BY <1>1, SyncFollows, PTL
=============================================================================

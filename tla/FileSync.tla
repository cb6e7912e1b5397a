------------------------------- MODULE FileSync -------------------------------
(***************************************************************************)
(* The memories that follow files of the project: index_documents, ingest  *)
(* and sync_shared of src/src/engine/mod.rs, with the manifest of          *)
(* src/src/document_index.rs.                                              *)
(*                                                                         *)
(* Each is a row of durable operations with decisions between them: files  *)
(* change meanwhile, and a crash leaves what was done so far.  One such    *)
(* operation (a batch of upserts, a batch of deletes, a saved manifest) is *)
(* one step here; MemoryJournal has what is inside of it.                  *)
(*                                                                         *)
(* Abstracted: a document is one of a few contents, each a set of chunks,  *)
(* and a chunk is its text with its place.  A memory's id is a hash of its *)
(* text, and for a chunk of its path and place too: it is that pair here.  *)
(* Users neither lock nor delete a memory that came from Markdown.         *)
(* Titles, tags and the other attributes are those the index gives.        *)
(***************************************************************************)
EXTENDS Naturals, FiniteSets, Functions, FiniteSetsExt

CONSTANTS Paths,      \* documents, in the order of their names
          Contents, ChunksOf,
          Shared,     \* Markdown files of repository memories, in order
          Texts,      \* what they say; only Sound texts pass validation
          Sound,
          MAX_ID_COUNT,
          MaxSteps    \* bound on what users and files do

ASSUME FileConstants ==
    /\ Paths \subseteq Nat /\ Shared \subseteq Nat /\ Sound \subseteq Texts
    /\ DOMAIN ChunksOf = Contents /\ \A c \in Contents : IsFiniteSet(ChunksOf[c]) /\ ChunksOf[c] # {}
    /\ MAX_ID_COUNT \in Nat \ {0} /\ MaxSteps \in Nat

VARIABLES files,      \* what each document holds
          chunks,     \* memories that were ingested, <<path, chunk>>
          locked,     \* those a user has locked
          tombstones, \* texts that must not be learned again
          manifest,   \* the documents the index knows, with content and memories
          repository, \* memories that came from Markdown, as text and source
          at,         \* the request that is running, with its local variables
          interrupted, \* ghost: a sync was cut short since the store was empty
          latest,     \* ghost: what the last sync was asked for, if it was complete
          steps
vars == <<files, chunks, locked, tombstones, manifest, repository, at, interrupted,
          latest, steps>>
documents == <<chunks, locked, tombstones, manifest>>
ghosts == <<interrupted, latest>>

Idle == [op |-> "idle"]
Empty == [p \in {} |-> p]
With(f, p, value) == [q \in DOMAIN f \cup {p} |-> IF q = p THEN value ELSE f[q]]
Readable(content) == content \in Contents    \* else it is "gone" or "malformed"
IdsOf(p, content) == {p} \X ChunksOf[content]
ingested_memory_ids_by_path(p) == {k \in chunks : k[1] = p}
Entry(content, ids) == [content |-> content, memory_ids |-> ids]
Step == steps < MaxSteps /\ steps' = steps + 1

Init ==
    /\ files \in [Paths -> Contents \cup {"gone"}]
    /\ chunks = {} /\ locked = {} /\ tombstones = {} /\ repository = {}
    /\ manifest = Empty
    /\ at = Idle /\ interrupted = FALSE /\ latest = {} /\ steps = 0
-----------------------------------------------------------------------------
(* index_documents.                                                        *)

\* What was found, which may be only part when the walk meets an error.
discover_documents(paths, complete) ==
    LET there == {p \in Paths : files[p] # "gone"}
    IN IF complete THEN paths = there ELSE paths \subseteq there

IndexStart(force) ==
    /\ at = Idle /\ Step
    /\ \E complete \in BOOLEAN, paths \in SUBSET Paths :
          /\ discover_documents(paths, complete)
          /\ at' = [op |-> "index", force |-> force, complete |-> complete, paths |-> paths,
                    todo |-> paths, legacy |-> chunks, next |-> manifest, stale |-> {},
                    read |-> Empty, rejected |-> {}]
    /\ UNCHANGED <<files, repository, ghosts, documents>>

is_current(p) ==
    /\ p \in DOMAIN manifest
    /\ manifest[p].content = files[p]
    /\ manifest[p].memory_ids \subseteq chunks

\* prepare_store_upsert refuses a document for one of its chunks.
Refused(p) ==
    Readable(files[p]) =>
        IdsOf(p, files[p]) \cap locked # {} \/ ChunksOf[files[p]] \cap tombstones # {}

\* A deliberately wrong variant: only the manifest is asked.
previous_of_manifest(p) == IF p \in DOMAIN manifest THEN manifest[p].memory_ids ELSE {}

\* The memories a document had, by the manifest and by the collection.
previous_ids(p) ==
    {k \in at.legacy : k[1] = p}
    \cup (IF p \in DOMAIN manifest THEN manifest[p].memory_ids ELSE {})

\* The documents are taken in the order of their names.
IndexFile(p) ==
    /\ at.op = "index" /\ p \in at.todo /\ \A q \in at.todo : p <= q
    /\ LET done == [at EXCEPT !.todo = @ \ {p}]
           ids == IdsOf(p, files[p]) IN
       \/ /\ ~at.force /\ is_current(p)
          /\ at' = [done EXCEPT !.read = With(@, p, files[p])] /\ UNCHANGED chunks
       \/ /\ at.force \/ ~is_current(p)
          /\ Refused(p)
          /\ at' = [done EXCEPT !.rejected = @ \cup {p}] /\ UNCHANGED chunks
       \/ /\ at.force \/ ~is_current(p)
          /\ ~Refused(p)
          /\ chunks' = chunks \cup ids
          /\ at' = [done EXCEPT !.read = With(@, p, files[p]),
                                !.stale = @ \cup (previous_ids(p) \ ids),
                                !.next = With(@, p, Entry(files[p], ids))]
    /\ UNCHANGED <<files, locked, tombstones, manifest, repository, ghosts, steps>>

\* A deliberately wrong variant: what an incomplete walk has not seen is missing.
missing_unseen == DOMAIN manifest \ at.paths

missing_paths == IF at.complete THEN DOMAIN manifest \ at.paths ELSE {}

IndexMissing ==
    /\ at.op = "index" /\ at.todo = {}
    /\ LET kept == Restrict(at.next, DOMAIN at.next \ missing_paths)
           gone == UNION {at.next[p].memory_ids : p \in missing_paths}
           retained == UNION {kept[p].memory_ids : p \in DOMAIN kept} IN
       at' = [at EXCEPT !.op = "clean", !.next = kept, !.stale = (@ \cup gone) \ retained]
    /\ UNCHANGED <<files, repository, ghosts, documents, steps>>

\* delete_internal, for one batch of ids: it refuses a locked memory.
Deletes(ids) == ids \cap chunks \cap locked = {} /\ chunks' = chunks \ ids

\* The next batch of the memories that are to go.
Batch(ids) ==
    {batch \in SUBSET ids : Cardinality(batch) = Min({MAX_ID_COUNT, Cardinality(ids)})}

IndexClean ==
    /\ at.op = "clean" /\ at.stale # {}
    /\ \E batch \in Batch(at.stale) :
          \/ Deletes(batch) /\ at' = [at EXCEPT !.stale = @ \ batch]
          \/ batch \cap chunks \cap locked # {} /\ at' = Idle /\ UNCHANGED chunks
    /\ UNCHANGED <<files, locked, tombstones, manifest, repository, ghosts, steps>>

\* The manifest is saved when something was added, updated or removed.
IndexSave ==
    /\ at.op = "clean" /\ at.stale = {}
    /\ manifest' = at.next
    /\ at' = [at EXCEPT !.op = "indexed"]
    /\ UNCHANGED <<files, chunks, locked, tombstones, repository, ghosts, steps>>
-----------------------------------------------------------------------------
(* ingest: one document, by its path.                                      *)

\* With the same chunks as before, nothing is written at all.
reused_ingested_document(p) ==
    /\ ingested_memory_ids_by_path(p) = IdsOf(p, files[p])
    /\ IdsOf(p, files[p]) \cap locked = {}

ingest(p) ==
    /\ at = Idle /\ Step
    /\ ~Refused(p) /\ ~reused_ingested_document(p)
    /\ chunks' = chunks \cup IdsOf(p, files[p])
    /\ at' = [op |-> "ingest", stale |-> ingested_memory_ids_by_path(p) \ IdsOf(p, files[p])]
    /\ UNCHANGED <<files, locked, tombstones, manifest, repository, ghosts>>

IngestClean ==
    /\ at.op = "ingest"
    /\ \/ at.stale = {} /\ at' = Idle /\ UNCHANGED chunks
       \/ \E batch \in Batch(at.stale) :
             \/ batch # {} /\ Deletes(batch) /\ at' = [at EXCEPT !.stale = @ \ batch]
             \/ batch \cap chunks \cap locked # {} /\ at' = Idle /\ UNCHANGED chunks
    /\ UNCHANGED <<files, locked, tombstones, manifest, repository, ghosts, steps>>
-----------------------------------------------------------------------------
(* sync_shared.                                                            *)

TextOf(source) == {m[1] : m \in {m \in repository : m[2] = source}}

\* Which memory a source has: of several, any one of them.
existing == {e \in [{m[2] : m \in repository} -> Texts] : \A s \in DOMAIN e : e[s] \in TextOf(s)}

\* The plugin sends what the files hold that it could read.
Requests == UNION {[sources -> Texts] : sources \in SUBSET Shared}

SyncStart ==
    /\ at = Idle /\ Step
    /\ \E old \in existing, request \in Requests :
          at' = [op |-> "sync", request |-> request, existing |-> old,
                 gone |-> {old[s] : s \in DOMAIN old \ DOMAIN request}]
    /\ UNCHANGED <<files, repository, ghosts, documents>>

Without(text) == {m \in repository : m[1] # text}

\* First the memories whose file is gone, one by one.
SyncRemove ==
    /\ at.op = "sync"
    /\ \E text \in at.gone :
          /\ repository' = Without(text)
          /\ at' = [at EXCEPT !.gone = @ \ {text}]
    /\ UNCHANGED <<files, ghosts, documents, steps>>

\* Of the files that say the same, the first one has the memory; a text that
\* does not pass validation is rejected.
Accepted(request) ==
    {s \in DOMAIN request : request[s] \in Sound /\ \A t \in DOMAIN request :
                                                        t < s => request[t] # request[s]}

\* A deliberately wrong variant: the memory a source had is always replaced.
ReplacedAlways == {at.existing[s] : s \in Accepted(at.request) \cap DOMAIN at.existing}

\* The memories of sources that now say something else.
Replaced ==
    {at.existing[s] : s \in {s \in Accepted(at.request) \cap DOMAIN at.existing :
                                at.existing[s] # at.request[s]}}

SyncCommit ==
    /\ at.op = "sync" /\ at.gone = {}
    /\ LET new == {<<at.request[s], s>> : s \in Accepted(at.request)} IN
       repository' = new \cup {m \in repository : \A n \in new : m[1] # n[1]}
    /\ at' = [op |-> "replace", request |-> at.request, old |-> Replaced]
    /\ UNCHANGED <<files, ghosts, documents, steps>>

SyncReplace ==
    /\ at.op = "replace"
    /\ \E text \in at.old :
          /\ repository' = Without(text)
          /\ at' = [at EXCEPT !.old = @ \ {text}]
    /\ UNCHANGED <<files, ghosts, documents, steps>>

SyncEnd ==
    /\ at.op = "replace" /\ at.old = {}
    /\ at' = [op |-> "synced", request |-> at.request, again |-> at.request \in latest]
    /\ latest' = {at.request}
    /\ UNCHANGED <<files, repository, interrupted, documents, steps>>
-----------------------------------------------------------------------------
(* Users, files and crashes.                                               *)

Answered ==
    /\ at.op \in {"indexed", "synced"} /\ at' = Idle
    /\ UNCHANGED <<files, repository, ghosts, documents, steps>>

\* A file may change at any time.
Edit(p) ==
    /\ Step
    /\ \E content \in Contents \cup {"gone", "malformed"} :
          files[p] # content /\ files' = [files EXCEPT ![p] = content]
    /\ UNCHANGED <<repository, at, ghosts, documents>>

DeleteChunk(k) ==
    /\ at = Idle /\ Step
    /\ Deletes({k})
    /\ tombstones' \in {tombstones, tombstones \cup {k[2]}}
    /\ UNCHANGED <<files, locked, manifest, repository, at, ghosts>>

SetLocked(k) ==
    /\ at = Idle /\ Step
    /\ locked' = IF k \in locked THEN locked \ {k} ELSE locked \cup {k}
    /\ UNCHANGED <<files, chunks, tombstones, manifest, repository, at, ghosts>>

\* The store is emptied, and then the manifest.
Purge ==
    /\ at = Idle /\ Step
    /\ chunks' = {} /\ locked' = {} /\ repository' = {}
    /\ tombstones' \in {tombstones, {}}
    /\ at' = [op |-> "purge"]
    /\ interrupted' = FALSE /\ latest' = {}
    /\ UNCHANGED <<files, manifest>>

PurgeIndex ==
    /\ at.op = "purge"
    /\ manifest' = Empty /\ at' = Idle
    /\ UNCHANGED <<files, chunks, locked, tombstones, repository, ghosts, steps>>

\* The request is lost, what it has done is not.
Crash ==
    /\ at # Idle /\ Step
    /\ at' = Idle
    /\ interrupted' = (interrupted \/ at.op \in {"sync", "replace"})
    /\ latest' = IF at.op \in {"sync", "replace"} THEN {} ELSE latest
    /\ UNCHANGED <<files, repository, documents>>

Index == IndexMissing \/ IndexClean \/ IndexSave
Sync == SyncStart \/ SyncRemove \/ SyncCommit \/ SyncReplace \/ SyncEnd
Next ==
    \/ Index \/ Sync \/ IngestClean \/ PurgeIndex \/ Answered \/ Purge \/ Crash
    \/ \E force \in BOOLEAN : IndexStart(force)
    \/ \E p \in Paths : IndexFile(p) \/ ingest(p) \/ Edit(p)
    \/ \E k \in chunks : DeleteChunk(k) \/ SetLocked(k)

Spec == Init /\ [][Next]_vars
-----------------------------------------------------------------------------
\* When index_documents has answered, each document is indexed as it was read:
\* a document that was written anew has its chunks and no others, one that was
\* found unchanged has all of its chunks, a document that was rejected keeps what
\* it had, and of one that is gone nothing is left that the index knew of.
IndexMirrors ==
    at.op = "indexed" =>
        /\ \A p \in DOMAIN at.read :
              LET ids == IdsOf(p, at.read[p]) IN
              /\ manifest[p] = Entry(at.read[p], ids)
              /\ ids \subseteq chunks
              /\ at.force \/ ~(ids \subseteq at.legacy) => ingested_memory_ids_by_path(p) = ids
        /\ \A p \in at.rejected : {k \in at.legacy : k[1] = p} = ingested_memory_ids_by_path(p)
        /\ at.complete => DOMAIN manifest \subseteq at.paths

\* The index takes a chunk away only when its document was read without it, with
\* all that it says now already stored, or when a complete walk has not found the
\* document: one that is malformed, unreadable or out of reach keeps its index.
OnlyGoneIsRemoved ==
    [][\A k \in chunks \ chunks' : at.op \in {"index", "clean"} =>
          \/ k[1] \in DOMAIN at.read /\ k \notin IdsOf(k[1], at.read[k[1]])
                                     /\ IdsOf(k[1], at.read[k[1]]) \subseteq chunks'
          \/ k[1] \notin at.paths /\ at.complete]_vars

\* When the same files were synchronised twice in a row, every text they hold is a
\* memory; and if no sync was ever cut short, a source that was accepted has this
\* memory only, and a source that is gone has none.
SyncConverges ==
    at.op = "synced" /\ at.again =>
        LET accepted == Accepted(at.request) IN
        /\ \A s \in accepted : <<at.request[s], s>> \in repository
        /\ ~interrupted => /\ \A s \in accepted : TextOf(s) = {at.request[s]}
                           /\ \A m \in repository : m[2] \in DOMAIN at.request
=============================================================================

# TLA+ models of opencode-native-memory

The repository is a memory service for a coding agent: a TypeScript plugin
(`opencode-memory/`) talks over a Unix socket to one per-user daemon
(`src/daemon/`), which runs one actor thread per project; the actor owns a
`MemoryEngine` (`src/engine/`) over a vector collection (zvec) and a few JSON
files (`src/storage/`). This directory holds TLA+ models of the parts in which
the order of steps matters, the TLC configurations that check them, and proofs
that TLAPS checks. Paths below are relative to the root of the repository.

## 1. Inventory

| component | state | operations | what makes it hard |
| --- | --- | --- | --- |
| Lifecycle relations, `src/storage/state.rs`, `src/engine/mod.rs` | `records`: per memory `superseded_by`, `supersedes`, `conflict_with`, lock | validate, remove a record, apply a batch of pending upserts | both directions of each relation have to agree; chains are spliced; cycles are refused; `save` refuses an invalid state, so a bug freezes the store |
| Memory engine, `src/engine/mod.rs` | state in memory, `state.json` (records, tombstones, pending upserts, pending deletes), zvec documents | store, capture, ingest, import, update, pin/lock, delete, purge, open with recovery | two durable parts without a transaction; crash between any two writes; a failed write leaves the engine open |
| Project actor, `src/daemon/actor.rs` | state watch, `accepting`, lease, pending and active counters, queue, worker thread | call, enqueue maintenance / switch step, drain, stop | four parties share a call through one atomic; permits must be returned on every path; panics |
| Sessions and main loop, `src/daemon/mod.rs` | sessions, leases, call table, `drain_requested` | open, acquire, call, cancel, release, close, expire, drain, idle exit | every check is made under another lock than the act that follows |
| Project registry, `src/daemon/registry.rs` | store -> actor | acquire, evict, close all, remove | an actor that ends while it is asked for; its successor |
| Embedding model switch, `src/engine/model_switch.rs`, `src/embedding_generation.rs`, `src/model.rs` | switch journal, generation pointer, manifests, one collection per generation | start, step, cancel, rollback, resume at open, cleanup | a migration over several files, in steps between which other requests run; mutations are frozen while it runs; a failure after the cut-over |
| Knowledge graph jobs, `src/graph/mod.rs`, `src/engine/knowledge_graph.rs` | jobs with leases, runs, graph state and pending file | enqueue, claim, renew, finish, fail, cancel, expire, recover, source changes | leases that expire, late and repeated finishes, retries, a commit over two files |
| Knowledge graph evidence, the same files | entities, mentions, relations, facts, observations, each with evidence | learn, invalidate, erase, search, status, export, act on an observation | every record belongs to several memories of which some may go or be hidden; three readings decide separately |
| Endpoint, `src/daemon/endpoint.rs` | socket, runtime directory | bind, drop | stale sockets and two daemons that start at once |
| Daemon client, `opencode-memory/src/daemon-client.ts` | connection, session, pool of shared clients | request, reconnect, dispose | a retry after an unknown outcome; dispose racing acquire |
| Background jobs, maintenance, `opencode-memory/src/` | queue of jobs; one timer and one run | enqueue, drain, dispose; schedule, flush | capacity, coalescing, dispose while a job runs |
| Document index, `src/document_index.rs`, `src/document.rs`, `src/engine/mod.rs` | manifest of files, chunks in the store | index, ingest | a manifest saved after other durable changes; files that change meanwhile; incomplete walks |
| Shared Markdown, `src/engine/mod.rs`, `opencode-memory/src/shared-markdown.ts` | repository memories with their source | synchronise | commit, then deletion by ids of before |
| Retrieval, capture gate, taxonomy, validation, RPC, configuration, models, TUI | none, or caches | pure functions and I/O | numerics and text |

How they interact. A plugin request becomes a `ProjectCall` of a session. The
daemon admits it under a lease, the call waits until the actor is ready, joins
its queue and is run by the worker thread, which opens the engine on first use
and calls one engine operation at a time. The engine is therefore sequential:
its hazards are crashes and failed writes. The daemon is concurrent: the tasks
of the connections, the worker threads and the main loop meet in atomics, in
short critical sections and in a watch channel.

What makes each part correct: (relations) every state the engine holds can be
saved, and a cycle is found; (engine) what was acknowledged survives, what was
deleted stays away, documents and records account for each other, the store
opens again unless the graph goes on refusing; (actor, sessions) a cancelled
call never runs, a permit is returned once, leases are counted, every call
settles, an unused daemon ends; (registry) one worker serves a store, a leased
actor is kept, an acquire returns; (model switch) the pointer names a complete
and current generation at every instant, and a freeze ends; (graph jobs) a job
has one holder and one result, and no evidence of a memory that changed; (graph
evidence) an erased memory leaves no trace, a caller is answered from what it
may see, and a judgement lasts as long as what it judges; (index) what was read
is what is stored, and only what is gone is removed; (shared Markdown) a
repeated synchronisation converges.

## 2. Modules

| module | models |
| --- | --- |
| `MemoryRelations` | operators: validity of the relations, `remove_state_record`, `apply_pending_upserts` |
| `SupersessionWalk` | the bounded walk of `detect_supersession_cycles`, as a recursive function of the turns left; extends `MemoryRelations` |
| `MemoryJournal` | the engine over its two durable parts; extends `SupersessionWalk` |
| `MCMemoryJournal` | fingerprints and snapshots of its small instances |
| `EmbeddingGeneration` | what a model switch promises: the abstract specification |
| `ModelSwitch`, `MCModelSwitch` | the switch over its files; implements `EmbeddingGeneration` |
| `GraphJobs`, `MCGraphJobs` | extraction jobs, their leases and the two graph files |
| `GraphEvidence`, `MCGraphEvidence` | what the graph holds, its erasure and its reads |
| `FileSync`, `MCFileSync` | `index_documents`, `ingest` and `sync_shared` |
| `ProjectActor` | one actor with the sessions, calls and main loop that use it |
| `MCProjectActor` | its symmetry |
| `ActorRegistry` | the registry's entry for a store, the actors it has had, the tasks that acquire and stop them |
| `MemoryRelationsProofs` | lemmas: types, splicing and applying keep what they must; the walk decides `Acyclic`; batches have one result in any order |
| `MemoryJournalProofs` | the theorems about `MemoryJournal` |
| `FileSyncProofs` | the theorems about the index and about shared Markdown in `FileSync` |
| `ActorRegistryProofs` | the theorems about `ActorRegistry` |
| `ProjectActorProofs` | the theorems about `ProjectActor` |
| `GraphJobsProofs` | the theorems about `GraphJobs` |
| `GraphEvidenceProofs` | the theorems about `GraphEvidence`, and lemmas on the folds of lists |
| `ModelSwitchProofs` | the theorems about `ModelSwitch`, with the refinement of `EmbeddingGeneration` |

`ProjectActor` and `ActorRegistry` look at the same code at two grains. The
first has one actor and all that happens to calls, queue and counters; the
second has successive actors and the steps of `acquire`, `begin_draining` and
`stop`, and of the queue only whether a command waits.

The engine behind an actor is sequential, and four modules look at it from
different sides. `MemoryJournal` has what is inside of one upsert or delete.
`ModelSwitch` takes a mutation as one durable change, or as one that is journaled
and not yet in the collection. `GraphEvidence` takes commits of the graph as
atomic, and `GraphJobs` has their two files and the memories they depend on.
`FileSync` takes a batch of upserts or deletes as one step.

### MemoryJournal and the engine

`mem` is `MemoryEngine.state`, `disk` is `state.json`, `docs` the collection.
`pc` says between which two durable writes the engine is; `cur` holds the locals
of the handler that outlive a write. A request (`Store`, `Capture`, `Ingest`,
`Import`, `Update`) ends in `commit_pending_upserts`, which tries the batch on a
copy of the state and saves the journal; `Write` is
`invalidate_graph_sources_for_upserts` with `write_pending_documents`,
`Finalize` is `finalize_pending_upserts`. `DeleteIntent`, `Erase`, `Remove` (one
turn of the loop) and `DeleteSave` are the four parts of `delete_internal`;
`Purge`, `PurgeDocuments` and `PurgeState` those of `purge`. `Open` loads
`state.json` and starts `RecoverWrite`, `RecoverFinalize`, `RecoverErase`,
`Remove` and `RecoverSave`. A request the code refuses changes nothing and is no
step.

Before a document is rewritten or erased the graph gives up what came from it, and
it may refuse (`erase_blocked` in section 3), with no fault and as often as it is
asked. What it does is `GraphEvidence`'s; that it may refuse is a choice here
(`GraphRefuses`; `UpsertRefused` says when there are sources to refuse). In `Write` a
refusal leaves the batch journaled while the engine stays open and the caller sees an
error, which the ghost `refused` remembers. In `RecoverWrite` and `RecoverErase` it
ends the opening (`Drop`). In `delete_internal` the erasure comes before the intent
(`src/engine/mod.rs:2296`), so that a refusal there changes nothing.

Every durable write succeeds, fails (a variant of the step that leaves any part
of it behind and returns an error while the engine stays open), or is cut by
`Crash`. `save` may fail after the rename (`sync_parent`), so a failed save
leaves the old or the new file. A batch of documents, or of deletions, may be
torn at any subset.

Ghost variables: `owed` (what was promised to callers about each id: a version,
"kept", "gone" or nothing), `orphans` (records whose documents an interrupted
purge removed) and `refused` (a refusal of the graph left a batch journaled). They
are read by properties only.

Data are abstracted to what the properties tell apart: a document is its id and
a version; a fingerprint is a function of the id that is not injective; feedback,
pins, taxonomy, expiry and anchors are left out.

### ProjectActor and ActorRegistry and the daemon

`call[c].state` is the atomic `call_state`; `call[c].stage` is how far the task
that awaits the answer has come (`admitted`, `ready` after `wait_ready`,
`waiting` after `try_send`, `answered`). `worker.at` walks through the loop of
the thread: between `permit` (the call is active and its permit not yet
dropped), `check`, `prepare`, `recheck`, `start` and `run` other parties may
act. `actor` has the fields of `ProjectActor`: the watch state, `accepting`, the
counters, the two background marks and `switch` (`switch_active`); `evicting`
says that `evict_idle` has looked at it and not drained it yet. The daemon
spawns a task for every request (`src/daemon/mod.rs:446`), so a session may have
several acquires on their way: `acquiring[k]` is the task that got the lease
with serial `k`, from the checks of `acquire_project` over the registry
(`RegistryAcquire`) to the second look at the session (`Acquired`, which gives a
doubled lease back). A release, the end of a connection and an expired session
take the lease out of the session under its lock (`TakeLease`) and give it back
to the actor afterwards (`release_lease`). A deadline is a flag that may be
raised at any time; an interval that must have passed may have.

`ActorRegistry` splits `begin_draining` at its `send`, and `stop` into sending
Stop, taking the join handle and joining; `lock` is the registry's mutex, held
by `evict_idle` from its look to the end of `begin_draining`.

### ModelSwitch, EmbeddingGeneration and the model switch

`disk` is a record with a field per file (journal, pointer, manifests,
collections, `state.json`), `engine` what the open engine holds. A handler is a
sequence of stages, one per durable write; the three outcomes of `Stages` are
that all are done, that one fails and the ones after it are not reached, or that
the process dies between two. `StepQueued` .. `StepCommitting` are the arms of
`run_model_switch_step_inner`, `finish_switch_cancelled` and `fail_model_switch`
the two ends, `OpenEngine` the opening with its resume,
`cancel_switch_from_disk` the cancel of a store whose engine is not open.
Requests (`start_model_switch`, `cancel_model_switch`, `Mutate`, `Search`, a
crash) come between any two steps. A request may name any generation, also the
active one, which neither `start_model_switch` nor the preflight refuses when it
is a rollback; the ghost `looped` remembers it.

`EmbeddingGeneration` says what users may rely on: one generation answers, it
changes in one instant and only during a switch, and neither the switch nor
anything else changes the memories meanwhile. Once the generation that answers is
asked to be switched to itself nothing is promised any more (`Misuse`, `void`).
`KeepsPromise` maps the pointer to `active`, the collection it names to `view`, the
freeze to `frozen` and `looped` to `void`.

### GraphJobs and the extraction jobs

`disk.main` and `disk.pending` are the two files of `commit_state`, `engine` the
graph in memory, `worker[w]` what a worker knows of its lease; workers time out
after their lease at the latest, answers may be lost, and a worker may send the
finish of a lease it has lost. A finish may be sent again with the same or another
outcome while its answer is missing (`Reported`); a worker that has reported works
on the job no longer. `Tick` passes time for all. Ghosts: `completed`
and `stopped` (what was answered to a caller), `epoch` (which enqueue of a job
id), `purged` (what a purge has undone).

### GraphEvidence and the graph

`graph` is a committed `GraphState`. `apply_upsert` with its `build_` operators
is the learning of an extraction, `erase_sources` the erasure, statement by
statement in the order of the code; `graph_search`, `graph_status` and
`graph_export` are operators from a graph and a caller to an answer, with the
breadth-first spread of `search_learning`. An extraction is any answer of a
small set, well founded or not: `validate_evidence` is part of the model. An entity
keeps the aliases of all its mentions as long as it has one (`aliases`). A query is
what it matches, among names, aliases, predicates and the quotes of evidence, and
`entity_scores` is where the search starts: the code matches the aliases of an entity
whichever memory gave them, and the quotes of all evidence of a relation, whether the
caller may see it or not.

### FileSync and the files

`at` is the request that runs, with the locals that outlive a durable step;
`IndexFile` is a turn of the loop over the files (inspect, compare, extract,
upsert or reject), `IndexClean` a batch of `delete_internal`, `IndexSave` the
manifest. `SyncRemove`, `SyncCommit` and `SyncReplace` are the three parts of
`sync_shared`. Files are edited at any time, also between two turns.

## 3. Runs

All passing runs finish without an error. Deadlock is not checked: the bounds on
operations, leases, steps or actors let a behaviour end.

| run | question | instance | distinct states |
| --- | --- | --- | --- |
| `journal_versions` | does what was acknowledged survive, does what was deleted stay away, does a lock hold, does the store open again unless the graph goes on refusing? | 2 ids, 2 versions, 4 operations, 2 crashes, refusals of the graph | 641,249 |
| `journal_relations` | can every state be saved and every journal be replayed, and does the bounded walk find the circles? | 3 ids, 3 operations, 1 crash, refusals of the graph | 218,645 |
| `journal_faults` | do documents and records account for each other when writes fail? | 2 ids, 4 operations, 1 crash, 1 failed write, refusals of the graph | 339,170 |
| `model_switch` | is what is active complete and current, does a cancel hold, may one roll back, does the freeze end, does the switch implement its abstract promise? | 2 ids, the legacy and one named generation, 2 switches, 3 revisions, 1 failed write, 1 crash, refusals, an inherited journal | 335,821 |
| `graph_jobs` | one holder, one result, cancellation, evidence, settling | 1 job of 2 attempts, 2 workers, 1 memory of 2 versions, leases of 2 ticks, two of: a change, a failed write, a crash | 173,416 |
| `graph_evidence` | erasure, isolation of callers, agreement of the readings, judgements of users | 3 memories, 3 names, 2 scopes, 2 callers, 2 pieces of evidence, fan-out 1, depth 2, 6 steps | 21,074 |
| `file_sync` | does the index mirror the files, remove only what is gone, does a sync converge? | 2 documents of 2 contents that share a chunk, 2 Markdown files, 3 texts, batches of 1, 5 steps of users, files and crashes | 5,969,262 |
| `actor_calls` | cancellation, leases, permits, drain | 2 sessions, 2 calls, queue of 1, 2 leases, 1 switch or 1 panic before it, symmetry | 3,843,959 |
| `actor_liveness` | do calls settle, does the daemon idle out? | 1 session, 2 calls, queue of 1, 1 lease, 1 switch | 142,413 |
| `registry` | one serving worker, no eviction under a lease, every acquire returns | 2 tasks and the main loop, 3 actors, 2 panics | 366,996 |

Why the bounds are enough. The shortest histories that break a property of the
journal have an upsert, a second operation on the same or a related id and one
crash or fault; the instances leave room for two more steps of each kind. Chains
need three ids to have a middle; two ids are enough for one conflict or one
supersession, and two of three ids share a fingerprint. The two crashes of
`journal_versions` give a crash during the recovery from the first; in
`journal_relations`, which has one, a recovery is broken off by refusals of the
graph. `WalkDecidesAcyclic` compares the walk with the definition of a cycle in
every reachable state at rest and with any one superseded_by set to any record,
which gives circles of one, two and three and walks that run into a circle they
did not begin in.

For the switch, two generations and two switches give there and back again (a
rollback to what was retained), two ids a reindex that is interrupted in its
middle. For the jobs, two workers and two attempts give a lease that changes
hands, two ticks a renewal that comes in the middle of one. For the evidence,
two pieces of evidence make the truncation happen with three memories, and a
fan-out of one makes the search leave something out. For the files, batches of
one give a failure between two batches; five steps are a sync, two edits of it
and its repetition around a crash, or an index run, a lock, an edit and two more
runs. For the actor, a queue of one makes "full" reachable with two calls, two
sessions are what lets one be closed while the other holds the actor, and two
leases are two acquires that cross, of one session or of two. Three actors give
a successor of a successor.

Every property is broken by at least one deliberately wrong variant of a
definition (the operators commented "A deliberately wrong variant"), under the
same configuration. `TypeOK` of `ModelSwitch` and of `ActorRegistry` is defined
and in no run.

### Disagreements between the code and what is said about it

| run | what is said | what happens |
| --- | --- | --- |
| `fresh_switch` | "Model switch apply creates a durable target generation, reindexes in bounded actor-owned steps, verifies it, and cuts it over" (`README.md:137`) | a first switch to a new generation fails while it validates: the journal names the generation to be created, the validating step hands that name to the preflight (`src/engine/model_switch.rs:276`), and the preflight refuses a name without a manifest (`TARGET_GENERATION_NOT_FOUND`, `src/model.rs:373`). No fault, no crash. In `model_switch` the switch to a new generation is one whose journal was left past its validation by an earlier release (`Inherits`), and what follows are rollbacks. |
| `erase_blocked` | all that removes or replaces memories will "invalidate or erase source-owned evidence before the authoritative memory mutation" (`README.md:109`) | `erase_sources` filters the entities of a fact before it prunes those that lost their last mention (`src/graph/mod.rs:1396`): a fact that another memory keeps then names an entity that is gone, `validate_state` refuses the graph, and with it the delete, the update or the recovery. The memory can never be deleted, and a recovery that needs the erasure keeps the store from opening. No fault, no crash. |

Further disagreements that were found with these modules and that no run of the
project lists now. The definitions named are still there.

* An active memory that superseded another cannot be updated in place: "cannot
  update superseded historical memory; update its active successor"
  (`src/engine/mod.rs:1161`) sends the caller to an update that is refused as
  inconsistent (`:2477`). `ActiveIsUpdatable` in `MemoryJournal`.
* With one failed write (`MaxFaults = 1`), `CommittedSurvives` fails: the intent
  that a failed delete leaves (`src/engine/mod.rs:2322`, in memory and perhaps on
  disk) is not withdrawn when the same memory is stored again, and the next open
  deletes what was acknowledged (`:1918`).
* With one failed write, `DeletedStaysDeleted` and `JournalReplays` fail too:
  the journal entry that a failed store leaves ("memory upsert batch is
  journaled and will be recovered on next open", `:2092`) is not dropped by a
  later delete of the same id (`:1403`), which the next open undoes; and when
  the delete removes a memory the batch relates to, the batch can never be
  applied and the store does not open again.
* With no fault at all: when the graph refuses an erasure after a batch was journaled
  (`src/engine/mod.rs:2089`), the caller sees an error and the batch stays, with the
  same consequences. A later delete of its id is undone by the next open
  (`DeletedStaysDeleted`), a delete of what it relates to keeps the store from opening
  (`JournalReplays`), and a lock given meanwhile does not hold against its replay
  (`LockedIsKept`). The three are checked, and proved, until that happens
  (`~refused`); `CommittedSurvives` holds all the same. A recovery that the graph
  refuses keeps the store closed for as long as it does, which `EventuallyOpen`
  excepts, and the refusal of `erase_blocked` is for good.
* A rollback that names the active legacy generation with `retain_previous` off is
  admitted by `start_model_switch` and the preflight (`src/model.rs:337`), its commit
  installs the pointer where it was, and the cleanup removes the previous collection,
  which is the active one (`src/engine/model_switch.rs:610`): without a fault or a
  crash the memories of the project are gone from the collection, and it cannot be
  opened. What is said is "cuts it over" (`README.md:137`); that a rollback to the
  present is an error is said nowhere. The model has the request, and the properties
  of `model_switch` say what holds until it comes (`~looped`); without that condition
  TLC refutes `ActiveIsCurrent`, and `FreezeEnds` as well.
* With one panic (`MaxPanics = 1`, `MaxTrouble = 2`), `DaemonIdlesOut` fails: a
  model switch step that panics leaves `switch_active` set on a dead actor
  (`src/daemon/actor.rs:448`), against "exits automatically after the configured
  idle interval" (`README.md:51`).
* Of two parties that stop an actor the second does not wait for its thread
  (`actor.rs:711`), and a successor is spawned beside it, against "One serialized
  project actor and `MemoryEngine` per canonical physical store" (`README.md:19`).
  The writer lock (`src/storage/zvec.rs:172`) keeps the second engine from
  opening. `OneWorkerPerStore` in `ActorRegistry`.

Observations, made while the modules were written, that their properties take
as they are:

* Model switch. A verification or a commit that fails quarantines the target's
  manifest before the failure is journaled. After a crash in between, the next open
  resumes the job, may commit it to the quarantined generation, and after another
  crash the store cannot be opened, for the pointer names a generation whose manifest
  `open` refuses (`ActiveIsCurrent`). TLC finds it with no failed write where a load
  or a probe of the commit may fail (`MayRefuse = TRUE`) and three crashes, beyond
  the bounds of the run. With three failed writes and a crash a promised
  cancellation can be lost (`CancelHolds`); with a switch of the active generation to
  itself one failed write is enough, for the pointer names its target from the start.
* Jobs. A finish that is sent again after the embedding model changed has another
  digest and is refused. A transient error while the sources are validated fails
  the job for good.
* Evidence. The aliases a deleted memory gave an entity stay while another
  memory keeps the entity. A query is matched with aliases and quotes of
  memories the caller may not see (`src/graph/mod.rs:1664`, `:1686`), so words
  that only a hidden memory has may choose where the search starts.
  `SearchIsolated` bounds what follows: the answer is one the caller would have
  got by naming those entities, from a graph without anything hidden. The
  evidence of a relation is cut to its bound, so the support of later memories
  is lost with the earlier ones. An invalidated observation returns as current
  when its memory is updated and extracted again, for it was removed with its
  last proof (`src/graph/mod.rs:1420`) and the judgement with it;
  `JudgementHolds` allows this way out and says that it is the only one beside a
  restore.
* Index. Chunks the manifest does not know (of a run that was refused or cut
  short, or of `memory_ingest`) stay when their file is deleted, for what is
  missing is found in the manifest only; `OnlyGoneIsRemoved` and `IndexMirrors`
  speak of what the index knew. A locked chunk that is stale stops the clean-up
  and the manifest of all files.
* Shared Markdown. When a text moves to another file whose old text it replaces,
  the synchronisation commits it and then deletes it as replaced
  (`src/engine/mod.rs:1670`). The next synchronisation of the same files restores
  it, but the plugin does not send files whose signature is unchanged
  (`opencode-memory/src/plugin.ts`, `syncSharedMemories`). `SyncConverges` is
  therefore about the second of two equal requests. After a crash between the
  commit and the replacement a source has two memories, and either may stay.

## 4. Fairness

`MemoryJournal!FairSpec`: a process that has begun an operation or a recovery
executes on, and a store that is not open is opened by the next request; nobody
has to issue a request. Nothing keeps the graph from refusing again and again,
which is why `EventuallyOpen` has it as a condition. The engine runs on one
thread without waiting for anything, so this is what an operating system gives a
live process.

`ProjectActor!FairSpec`: the worker thread and every task of the runtime run
whenever they can; the main loop ticks each second, so it enqueues a switch
step, finishes an eviction, stops a drained actor and quits when it may for
good. Nothing is assumed about clients: sessions need not call, release or
close. The task of an acquire, or of a lease that is being given back, is fair
by itself (`LeaseTask`). `enqueue_maintenance` and the begin of an eviction have
no fairness.

`ActorRegistry!FairSpec`: tasks and threads run; nobody has to ask, to release
or to be evicted.

`ModelSwitch!Fairness`: a closed engine is opened by the next request or by the
main loop, which looks for unfinished switches, and a switch step runs again and
again: the actor enqueues one whenever its queue is empty
(`src/daemon/actor.rs`). Nothing makes a user cancel, mutate or roll back.

`GraphJobs!Fairness`: time passes, the engine is opened, some worker asks for
work again and again (the plugin drains its queue), and a worker stops believing
in a lease that has run out. No worker has to finish anything.

## 5. Proofs

`MemoryJournalProofs`, for any set of ids, versions and snapshots and any bounds
(assumptions: `IdAssumption`, `IdIsFinite`, `BoundAssumption`, `SnapshotAssumption`,
which TLC evaluates in every journal run; an id is `mem_` and 32 hexadecimal
digits, `src/validation.rs:375`, so there are finitely many):

* `TypesHold == Spec => []TypeOK`. `TypeOK` is not inductive: `Finalize` reads
  the journal in memory at the ids of the batch, so the invariant adds
  `JournalHeld` (while a batch is between its writes, its ids are in the
  journal).
* `RelationsHold == Spec => []RelationsValid`: no sequence of operations, failed
  writes, crashes and recoveries makes the engine hold records that `save` would
  refuse. Steps that write pass `validate`; the one that rewrites records without
  asking is `Remove`, and `RemoveValid` (in `MemoryRelationsProofs`) shows that
  splicing any record out of valid records leaves valid records. Acyclicity is
  the hard part: a circle in the spliced records becomes a circle of the old
  ones, with the removed record put back if it was passed through.
* `WalksHold == Spec => []WalkDecidesAcyclic`, from `WalkDecidesCycles` in
  `MemoryRelationsProofs`: for any records, the walk of
  `detect_supersession_cycles` reports a circle exactly when there is one. The
  walk is a recursive function; that it has the value its equation asks for is
  shown by giving such a function (`Leads`: a route of links back to the start)
  and taking the least number of turns at which the two would differ. A set of
  records closed under `superseded_by` has routes of any length; one with a link
  for every record comes to some record twice (`FS_PigeonHole`), and the walk from
  that record returns in time. Fewer turns would not do (`TurnsShort`).
* `DocumentsHold == Spec => []DocumentsAccounted`. The induction needs where the
  knowledge is while a write is under way: `JournalSaved` (a batch that is being
  written is in the journal on disk), `ErasedFirst` (a record is only removed
  once its document is gone), and the property itself on disk and in memory.
* `RecordsHold == Spec => []RecordsHaveDocuments`: while documents are erased or a
  batch is being applied, `RecordInv` says which ids the step works on, namely
  ones with an intent in memory and on disk, or ones whose documents are written.
* `CommitsHold == Spec => [](faults = 0 => CommittedSurvives)` and `DeletesHold
  == Spec => [](faults = 0 => DeletedStaysDeleted)`, which with `MaxFaults = 0`
  are what `journal_versions` checks. The hypothesis is not for the prover's
  sake: after a failed write both are false (section 3), and the second excepts,
  in its own statement, a batch that a refusal of the graph left journaled.
  Until then memory and `state.json` agree at rest, and no id a caller is owed a
  version of has an intent of either kind (`Owing`, `InStep`); until a refusal
  there is no batch but the one under way; every crash and every recovery starts
  from there. `DebtAssumption` keeps versions apart from the other values of the
  ghost `owed`.
* `JournalHolds == SnapshotsMutual => (Spec => [](faults = 0 =>
  JournalReplays))`: what a crash leaves can be opened, until a refusal has left
  a batch. A commit tries its batch in the order of the request, a recovery
  applies it in the order of the ids (`src/engine/mod.rs:1955`). `AnyOrder`
  shows that the order does not matter for a batch whose members agree on their
  conflicts and whose result is valid: the first loop then strips nothing that
  the second would not restore, and in a valid result no record has two
  successors. Only `Import` has another order than recovery, and
  `SnapshotsMutual` asks of its snapshots what `export_snapshot` writes:
  relations of valid records, cut to the exported ids. The hypothesis cannot be
  dropped, though the code says "Install every target first so cross-record
  relations do not depend on ID order" (`src/engine/mod.rs:2485`): take two
  memories in conflict and import a snapshot, edited by hand, in which the one
  with the smaller id still names the other, but comes second and is no longer
  named by it. In that order the commit is valid; by id the one-sided conflict
  is stripped on one side and restored on the other, and a process that dies
  after the journal write leaves a store that no open accepts. TLC finds this
  when such a snapshot is added to `ExportedSnapshots`.
* `LocksHold == MaxFaults = 0 => (Spec => LockedIsKept)`, the action property of
  `journal_versions`. A lock is looked at when a request comes in, and documents
  are written later, perhaps by the next open; so the induction is about what
  the journal names (`LocksKept`). It is not simply "no locked memory": one that
  lost its document to a purge that was cut short still has its locked record
  and may be stored again, and then its document is already the one that a
  replay writes. It speaks of the time until a refusal leaves a batch journaled.
  After a failed write the property is false (TLC, `MaxFaults = 1`): the intent
  of a delete that failed stays in memory (`src/engine/mod.rs:2322`), a lock
  given after it is saved with it, and the next open deletes the locked memory.

`MemoryRelationsProofs` also has `ApplyTyped` and `RemoveTyped`, the types of the
two rewriting operators.

`FileSyncProofs`, for any documents and contents and any number of edits, locks,
deletes and crashes (assumption: `FileConstants`, which `file_sync` evaluates):

* `IndexIsFaithful == Spec => []IndexMirrors` and `RemovalIsGrounded == Spec =>
  OnlyGoneIsRemoved`, both from `IndexFollows == Spec => []IndexInv`. What
  `index_documents` has answered or may remove follows only from what its local
  variables are between two turns: each stale id has a ground to go
  (`StaleGrounded`), what was read is stored and in the manifest to come
  (`Stored`), what a document had and has no more is on its way out (`Leaving`),
  and what the loop has not come to is as it was when the request began
  (`Untouched`). The clean-up may fail half-way, so each of these has to hold
  after any of its batches.
* `SyncIsConvergent == Spec => []SyncConverges`, from `SyncFollows == Spec =>
  []SyncInv`. A second sync never replaces what it has just committed, for after
  the first one every accepted text belongs to one source of the request
  (`Owned`); and as long as no sync was cut short a source has one text
  (`OneText`), so that the one `sync_shared` finds for it is all.

`ActorRegistryProofs`, for any number of tasks, actors and panics (assumption:
`RegistryAssumption`, which `registry` evaluates; it asks for finitely many tasks,
for leases are counted):

* `WorkersAlternate == Spec => []OneServingWorker` and `LeasesHold == Spec =>
  []LeasedIsKept`, both from `RegistryFollows == Spec => []RegistryInv`, which
  contains `TypeOK`. A task stops an actor only when its worker is on its way
  out (`Stoppers`). The main loop may stop one that serves, but only while its
  leases, which are those of the tasks that wait for it or hold it (`Counted`),
  are none, and it keeps the lock until who looks can see that the actor drains
  (`Evicting`). So the worker that serves is the one of the registry's entry
  (`Current`): a party that removes the entry has joined the thread, or found
  its handle taken, and the handle of a serving worker is only ever taken by the
  main loop, which joins (`Handles`).

`ProjectActorProofs`, for any number of sessions, calls, leases, switches and
panics and any capacity (assumption: `ActorAssumption`, which `actor_calls`
evaluates; it asks for finitely many sessions and calls, for leases and permits are
counted):

* `ActorFollows == Spec => [](ActorInv /\ TypeOK)`, and from it `CancelIsFinal`,
  `CallsAreLeased`, `CountersAreTrue`, `StopIsOrderly` and `DrainHolds`, the
  five safety properties of `actor_calls`. The counters are sums over parties,
  so the invariant says who they are: the leases are those of the holders and
  those that a task has been given, or has taken from a session and not given
  back yet (`Holders`, `Lent`), each in the hands of one task or of one open
  session (`Clients`), the permits those of the commands that are queued, or
  with the worker before it drops theirs (`Once`). To add and subtract one at a
  time a command must be in one place only (`Placed`, `Joined`). A call that is
  settled is never queued again (`Settled`) and a queued one is held by the
  lease it was admitted under (`Leased`), for closing a session settles its
  calls in the same critical section. Nothing but a switch step joins the queue
  behind a Stop (`Ends`), so a thread that ends in order drops no call.

`GraphJobsProofs`, for any jobs, workers, memories and materials, any number of
attempts and ticks and any number of changes, failed writes and crashes
(assumption: `JobConstants`, which `graph_jobs` evaluates; it asks for finitely many
jobs, for a worker needs a request id that no job holds, and that every job has a
source):

* `InvHolds == Spec => []JobsInv`, and from it `JobsTyped`, `HolderIsOne`,
  `ResultIsOne`, `CancelIsKept` and `EvidenceIsTrue`, the safety properties of
  `graph_jobs`. Three graphs can become that of the next engine: the state file, the
  pending file and the graph in memory. The properties speak of the one that would
  be loaded and of the open one; the invariant says the same of all three
  (`GraphInv`), since a commit that fails after its rename leaves them different.
  That is not enough for a finish that is sent again or a claim whose answer is to
  come: the open engine answers from its own graph while the files may be one commit
  ahead, so a completion and a lease of the open engine must still stand in the
  files (`KeepsCompleted`, `KeepsGrant`, together `Successor`). A handler is a
  sequence of stages, each of which satisfies the invariant (`Sound`), so that its
  end, a failed write and a crash between any two of them are one argument.
  For evidence, `Current` is stronger than the property: a memory with evidence has
  no journaled delete, and if an upsert of it is journaled it is one that will
  erase the evidence before it writes.

`GraphEvidenceProofs`, for any memories, names, scopes and callers, any answers of
extractors and any number of extractions, changes and removals (assumptions:
`EvidenceConstants` and `ExtractionsTyped`, which `graph_evidence` evaluates; the
second says that an answer is made from finitely many memories and is a list of
candidates, of which each may cite anything):

* `GraphFollows == Spec => []EvidenceInv`, and from it `GraphIsTyped`,
  `ErasedLeavesNoTrace`, `JudgementIsKept`, `ReadingsAgree` and
  `SearchesAreIsolated`, all the properties of `graph_evidence`. Saying that
  nothing rests on an erased version is not inductive, for an extraction that is
  applied later may find the same fact again: the id of a fact names the
  evidence it was first found with. So the invariant says that a fact rests on
  exactly the evidence of its id that is still current (`FactsInv`), that what
  an id says of a memory was so once and will not be again (`IdInv`: versions
  only grow, until 0), and that an observation names the memories of the facts
  it rests on (`Rests`), which finding a fact again does not change.
  `JudgementIsKept` follows every observation that does not count: it is there
  and does not count, was restored by a caller who sees a proof, or went with
  the one memory it rested on; that an erasure takes it only then needs `Rests`.
* An extraction is four folds over lists. A fold of the community modules is a
  CHOOSE of a function on sets of places; `FoldExists` shows that there is one when
  each step keeps a set, and `FoldKeeps` that the result is in the set, both by the
  least place at which it would fail (`Least`), for the library's induction cannot
  be instantiated here. The sets are the graphs that satisfy the invariant
  (`EntitiesKept`, `RelationsKept`), those with the facts accepted so far
  (`FactsKept`), and those in which no observation counts that did not before
  (`ObservationsKept`).
* `FirstBounded`: a list that is sorted and cut to n has at most n, and is whole
  if it had no more. For `SearchesAreIsolated` the relations followed from an
  entity in the visible graph are those of the graph, cut (`SameFanout`): as
  many are before each, by a bijection of records told apart by their ids. The
  two searches are then the same function of the depth, since one step of both
  is (`SameFurther`), wherever they start. They start at the same entities when
  the caller names those that the whole search started from, and also when the
  query matches no hidden words: an alias or a quote that is matched is then in
  the visible graph, too.

`ModelSwitchProofs`, for any memories, generations and models, any number of
switches, mutations and crashes and any journal that an earlier release may have left
(assumption: `SwitchConstants`, which `model_switch` evaluates; it asks for finitely
many memories, for a verification compares a number of documents). Every theorem
speaks of the time until the first write fails (`faults = 0`) or the active generation
is asked to be switched to itself (`~looped`, which `ActiveIsCurrent` and the abstract
promise have in their own statements); both end what the code keeps, not what the
prover can show. Loads, downloads and probes may fail and a crash may come between any
two durable steps, but section 3 says what becomes of the properties otherwise.

* `SwitchFollows == Spec => []SwitchInv` is the induction the others rest on. The
  properties speak of the pointer and of the job that has ended; a switch is spread
  over five files that are written one after the other, so the invariant says in
  which combinations of them a crash may leave a project. `JobInv`: while a job runs
  its pointer is at its source, or at its target in the commit; the target holds
  nothing but what the source does, all of it from the verification on; and what was
  complete before the job began still is. `Kept`: a manifest that calls a
  generation retained or complete tells the truth about its collection, and with a
  manifest of an earlier release, which has no digest, its revision does;
  `Excused` says of which generations a manifest may be wrong, namely the active one
  and those of the running job. `LegacyKept`: for the first generation, which has no
  manifest, the newest switch away from it plays that part (`legacy_snapshot`, a fold
  over the history, whence the lemmas on the newest of two lists). `JournalInv`: job
  ids grow and a promised cancellation is in the journal. A handler is a sequence of
  stages, and `Good` is kept by each, so that its end and a crash between any two
  are one argument.
* `CancelIsKept == Spec => [](faults = 0 /\ ~looped => CancelHolds)`,
  `RollbackIsSound` and `ActiveServes` of the same form follow: `CancelHolds`,
  `RollbackIsCurrent`, and of `ActiveIsCurrent` all but the part on the manifest.
  `ActiveIsSound == ~MayRefuse => (Spec => [](faults = 0 => ActiveIsCurrent))`; with
  refusals that part is false (section 3). It needs `ManifestInv`: a target is only
  committed while its manifest is usable, unless it is a job of an earlier release
  whose memories have changed since, which the commit refuses.
* `SwitchKeepsPromise == MaxFaults = 0 => (Spec => KeepsPromise)`: the switch
  implements `EmbeddingGeneration`. Each stage is a step of it or is not seen
  (`Follows`, a part of `Good`): the installation of the pointer is the one
  instant in which another generation answers, and a mutation the one in which
  the memories change, never both and never a mutation during a switch. The
  request that sets `looped` is `Misuse`, and every step after it is as well.

Only model-checked: liveness (`EventuallyOpen`, `CallsSettle`, `DaemonIdlesOut`,
`AcquireEnds`, `FreezeEnds`, `JobsSettle`), which is out of the prover's reach
here; and the model switch after a failed write. Every invariant and every safety
property of the passing runs is stated by a theorem.

## 6. Not modelled

Byte budgets of queues and the limits on actors, connections and call ids;
framing, credentials and handshakes; scores and ranking; the capture gate and
validation of texts (their outcomes are inputs); the environment, model download
and inference; zvec and llama.cpp themselves (external: a map of documents with
torn writes); the endpoint's socket and start lock; the plugin's client, its
background queue and its maintenance timer, its hooks and the TUI; generated
code, vendored crates and packaging.

In `MemoryJournal`: `feedback` and pins (they change metadata no property
reads), what `erase_graph_sources` does (it is `GraphEvidence`'s; here it may
refuse), and the document index and shared Markdown, which are `FileSync`. In
`GraphJobs`: the pruning of terminal jobs at their limit, and who may see a job.
In `GraphEvidence`: scores, validity times, result limits, pages of an export,
embeddings. In `FileSync`: locks and tombstones of repository memories, which
users can neither lock nor delete; failed writes, which end a request where a
crash would.

## 7. What could follow

1. The plugin's side (`DaemonClient`, `BackgroundJobs`, `MaintenanceScheduler`),
   with retries after an unknown outcome against an abstract daemon, and the
   endpoint: start and stop of two daemons over one socket.
2. An abstract store (a map of committed memories) and `MemoryJournal` shown to
   implement it without faults.
3. Proofs: what is left of the model switch after a failed write.

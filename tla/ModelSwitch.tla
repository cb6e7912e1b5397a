----------------------------- MODULE ModelSwitch -----------------------------
(***************************************************************************)
(* The switch of a project's embedding model: src/src/engine/              *)
(* model_switch.rs with the pointer, manifests and journal of              *)
(* embedding_generation.rs, the preflight of model.rs and the opening of   *)
(* collections in storage/zvec.rs.                                         *)
(*                                                                         *)
(* Durable state, file by file, is the record disk; what the open engine   *)
(* holds is the record engine.  A handler is a sequence of stages, one per *)
(* durable write (operator Stages): it completes, or one of its writes     *)
(* fails, or the process dies between two of them.  One thread runs all    *)
(* handlers of a project (ProjectActor.tla), so nothing else interleaves.  *)
(*                                                                         *)
(* Abstracted: vectors (a collection maps ids to versions of a memory and  *)
(* a generation has one profile), downloads, resource limits and model     *)
(* loads (they are refused at will when MayRefuse), batches of one record  *)
(* instead of REINDEX_BATCH_SIZE, progress figures, time.                  *)
(***************************************************************************)
EXTENDS Naturals, Sequences, FiniteSets, SequencesExt

CONSTANTS Ids,           \* ids of memories, ordered as they are sorted
          Legacy, Gens,  \* the first generation and the named ones
          ProfileOf,     \* the embedding profile of each generation
          MaxSwitches,   \* bound: requests to switch
          MaxRevision,   \* bound: saves of state.json
          MaxFaults,     \* bound: failed writes
          MaxCrashes,    \* bound: crashes
          Inherits,      \* a journal of an earlier release may be found
          MayRefuse      \* loads, downloads and probes may fail

All == Gens \cup {Legacy}
Profiles == {ProfileOf[g] : g \in All}
None == "none"

ASSUME SwitchConstants ==
    /\ Ids # {} /\ Ids \subseteq Nat /\ IsFiniteSet(Ids) /\ Legacy \notin Gens /\ None \notin All
    /\ DOMAIN ProfileOf = All
    /\ {Inherits, MayRefuse} \subseteq BOOLEAN
    /\ {MaxSwitches, MaxRevision, MaxFaults, MaxCrashes} \subseteq Nat /\ MaxRevision # 0

VARIABLES disk,      \* the files of the project
          engine,    \* the open engine, or Closed
          failing,   \* a step returned an error that is not handled yet
          acked,     \* the switches whose cancellation was promised
          faults, crashes, started,
          looped     \* a switch of the active generation to itself was asked for
vars == <<disk, engine, failing, acked, faults, crashes, started, looped>>

-----------------------------------------------------------------------------
(* Records of the files.                                                   *)

Phases == {"queued", "validating", "downloading", "preparing", "reindexing",
           "verifying", "committing", "succeeded", "cancel_requested",
           "cancelled", "failed"}
Terminal == {"succeeded", "cancelled", "failed"}
\* A deliberately wrong variant: a commit that has begun can be cancelled.
can_cancel_commit == Phases \ Terminal

can_cancel == Phases \ (Terminal \cup {"committing"})

Versions == 0 .. MaxRevision            \* 0: no such memory
Content == [Ids -> Versions]
Empty == [i \in Ids |-> 0]
Unknown == <<>>                         \* no digest: a journal of old

Jobs == [id : 0 .. MaxSwitches, phase : Phases, source : All, target : All,
         cursor : 0 .. Cardinality(Ids), total : 0 .. Cardinality(Ids),
         cancel_requested : BOOLEAN, revision : Versions,
         digest : Content \cup {Unknown}, downtime : BOOLEAN,
         retain : BOOLEAN, preexisting : BOOLEAN, snapshot : BOOLEAN]
NoJob == [phase |-> "cancelled", source |-> None, target |-> None]
Manifests == [state : {"building", "complete", "active", "retained", "quarantined"},
              digest : Content \cup {Unknown}, revision : Versions]
NoManifest == [state |-> None]
Journal == [current |-> NoJob, history |-> <<>>]
Closed == [active |-> None]

Open == engine # Closed
Running(journal) == journal.current.phase \notin Terminal
Frozen == Running(IF Open THEN engine.journal ELSE disk.journal)
Job == engine.journal.current

\* A deliberately wrong variant: the new job is filed with the old ones.
replace_files_new(journal, job) ==
    [current |-> job, history |-> Append(journal.history, job)]

\* The successor of a journal: a terminal job goes to the history.
replace_current(journal, job) ==
    [current |-> job,
     history |-> IF journal.current = NoJob \/ journal.current.phase \notin Terminal
                 THEN journal.history ELSE Append(journal.history, journal.current)]

\* The newest switch away from the first generation, current job first.
legacy_snapshot(journal) ==
    LET jobs == <<journal.current>> \o Reverse(journal.history)
        fit == {k \in DOMAIN jobs : jobs[k].phase = "succeeded" /\ jobs[k].source = Legacy}
    IN IF fit = {} THEN NoJob ELSE jobs[CHOOSE k \in fit : \A l \in fit : k <= l]

\* A deliberately wrong variant: memories changed since are not noticed.
LegacyRemembered(journal) == legacy_snapshot(journal) # NoJob

LegacyCurrent(journal) ==
    LET job == legacy_snapshot(journal)
    IN job # NoJob /\ job.digest = disk.content /\ job.snapshot

\* The target names a generation that preflight does not let be used.
Blocked(target) ==
    IF target = Legacy
    THEN ~LegacyCurrent(disk.journal) \/ disk.store[Legacy] # "sealed"
    ELSE disk.manifest[target].state \notin {"retained", "complete"}

\* The memories are those a job or a retained generation was made from.
\* A deliberately wrong variant: the same number of memories will do.
SameCount(digest, revision) ==
    IF digest = Unknown THEN disk.revision = revision
    ELSE Cardinality({i \in Ids : digest[i] # 0}) = Cardinality({i \in Ids : disk.content[i] # 0})

SameSource(digest, revision) ==
    IF digest = Unknown THEN disk.revision = revision ELSE disk.content = digest

ensure_source_unchanged(job) ==
    SameSource(job.digest, job.revision) /\ engine.active = job.source /\ disk.pending = {}

Present(content) == {i \in Ids : content[i] # 0}
-----------------------------------------------------------------------------
(* Handlers as sequences of durable writes.                                *)

Stage(d, e) == [disk |-> d, engine |-> e]
WithJob(e, job) == [e EXCEPT !.journal.current = job]
Saved(d, e) == [d EXCEPT !.journal = e.journal]

\* Writes of files that leave the engine e, then a save of its journal in e1.
Stages(disks, e, e1) ==
    [k \in 1 .. Len(disks) |-> Stage(disks[k], IF k < Len(disks) THEN e ELSE e1)]
        \o <<Stage(Saved(Last(disks), e1), e1)>>

Completes(stages) ==
    /\ disk' = Last(stages).disk
    /\ engine' = Last(stages).engine
    /\ failing' = FALSE
    /\ UNCHANGED <<faults, crashes>>

\* A write fails before or after its rename.  That the pointer is installed
\* and the commit does not learn of it takes a second fault, the failed
\* reload of the pointer.
Fails(stages, then) ==
    \E k \in 1 .. Len(stages) - 1 : \E l \in {k, k + 1} :
        LET cost == IF stages[l].disk.pointer # stages[k].disk.pointer THEN 2 ELSE 1 IN
        /\ faults + cost <= MaxFaults
        /\ faults' = faults + cost
        /\ disk' = stages[l].disk
        /\ engine' = stages[k].engine
        /\ failing' = then
        /\ UNCHANGED crashes

Crashes(stages) ==
    \E k \in 1 .. Len(stages) - 1 :
        /\ crashes < MaxCrashes
        /\ crashes' = crashes + 1
        /\ disk' = stages[k].disk
        /\ engine' = Closed
        /\ failing' = FALSE
        /\ UNCHANGED faults

Runs(stages) == Completes(stages) \/ Fails(stages, TRUE) \/ Crashes(stages)

\* An error before any write.
Errs == failing' = TRUE /\ UNCHANGED <<disk, engine, faults, crashes>>
-----------------------------------------------------------------------------
(* A new project, or one with the journal an earlier release left while it *)
(* was downloading the model of g.                                         *)

First == [i \in Ids |-> 1]

Inherited(g, digest, retain) ==
    [id |-> 0, phase |-> "downloading", source |-> Legacy, target |-> g, cursor |-> 0,
     total |-> Cardinality(Ids), cancel_requested |-> FALSE, revision |-> 1,
     digest |-> digest, downtime |-> FALSE, retain |-> retain,
     preexisting |-> FALSE, snapshot |-> (digest # Unknown)]

Found ==
    {Journal} \cup
    {[current |-> Inherited(g, digest, retain), history |-> <<>>] :
        g \in {x \in Gens : Inherits}, digest \in {Unknown, First}, retain \in BOOLEAN}

Project(journal) ==
    [pointer |-> Legacy, journal |-> journal,
     manifest |-> [g \in Gens |-> NoManifest],
     store |-> [g \in All |-> IF g = Legacy THEN "sealed" ELSE "absent"],
     docs |-> [g \in All |-> IF g = Legacy THEN First ELSE Empty],
     content |-> First, revision |-> 1, pending |-> {}]

Init ==
    /\ \E journal \in Found : disk = Project(journal)
    /\ engine = Closed
    /\ failing = FALSE
    /\ acked = {}
    /\ faults = 0 /\ crashes = 0 /\ started = 0 /\ looped = FALSE
-----------------------------------------------------------------------------
(* Opening the engine.  The pointer decides the collection; what was       *)
(* journaled of a mutation is recovered.                                   *)

\* open_collection_at: a collection without its manifest, or the reverse,
\* is refused; where there is neither an empty collection is created.
Openable(g) == disk.store[g] \in {"sealed", "absent"}
created(g) ==
    IF disk.store[g] = "sealed" THEN <<disk>>
    ELSE LET d == [disk EXCEPT !.store[g] = "unsealed", !.docs[g] = Empty]
         IN <<disk, d, [d EXCEPT !.store[g] = "sealed"]>>

OpenEngine ==
    /\ ~Open
    /\ \/ disk.pointer = Legacy
       \/ disk.pointer # Legacy /\ disk.manifest[disk.pointer].state \in {"active", "complete"}
    /\ Openable(disk.pointer)
    /\ LET g == disk.pointer
           newest(i, old) == IF \E v \in Versions : <<i, v>> \in disk.pending
                             THEN (CHOOSE p \in disk.pending : p[1] = i)[2] ELSE old
           opened == [active |-> g, serving |-> g, embedder |-> ProfileOf[g],
                      target |-> FALSE, journal |-> disk.journal]
           recovered == [Last(created(g)) EXCEPT
                !.docs[g] = [i \in Ids |-> newest(i, @[i])],
                !.content = [i \in Ids |-> newest(i, @[i])],
                !.pending = {}]
           stages == Stages(created(g), Closed, opened) IN
       \/ /\ disk' = recovered /\ engine' = opened
          /\ UNCHANGED <<failing, faults, crashes>>
       \/ Crashes(stages)
    /\ UNCHANGED <<acked, started, looped>>

(* Mutations of memories, refused while a switch runs.  The journaled      *)
(* write itself is MemoryJournal.tla's; here it is applied at once, or a   *)
(* fault leaves it in the journal of state.json until the next open.       *)

\* A deliberately wrong variant: mutations go on while a switch runs.
MayMutateAlways == Open /\ ~failing /\ disk.revision < MaxRevision

MayMutate ==
    /\ Open /\ ~failing /\ ~Frozen
    /\ disk.revision < MaxRevision

\* A new version, the deletion, or an earlier version from a snapshot.
Mutate(i, v) ==
    /\ MayMutate /\ v # disk.content[i] /\ v <= disk.revision + 1
    /\ v = 0 \/ engine.embedder # None
    /\ \A p \in disk.pending : p[1] # i
    /\ disk' = [disk EXCEPT !.revision = @ + 1, !.content[i] = v,
                            !.docs[engine.serving][i] = v]
    /\ UNCHANGED <<engine, failing, acked, faults, crashes, started, looped>>

MutateJournaled(i, v) ==
    /\ MayMutate /\ v # disk.content[i] /\ v <= disk.revision + 1
    /\ v = 0 \/ engine.embedder # None
    /\ disk.pending = {}
    /\ \/ faults < MaxFaults /\ faults' = faults + 1 /\ UNCHANGED <<engine, crashes>>
       \/ crashes < MaxCrashes /\ crashes' = crashes + 1 /\ engine' = Closed /\ UNCHANGED faults
    /\ \E written \in BOOLEAN :
         disk' = [disk EXCEPT !.revision = @ + 1, !.pending = {<<i, v>>},
                              !.docs[engine.serving][i] = IF written THEN v ELSE @]
    /\ UNCHANGED <<failing, acked, started, looped>>

\* A search is not frozen: it records what it returned in state.json.
Search ==
    /\ Open /\ ~failing
    /\ disk.revision < MaxRevision
    /\ disk' = [disk EXCEPT !.revision = @ + 1]
    /\ UNCHANGED <<engine, failing, acked, faults, crashes, started, looped>>
-----------------------------------------------------------------------------
(* Requests.                                                               *)

Unused(g) ==
    /\ disk.manifest[g] = NoManifest /\ disk.store[g] = "absent"
    /\ \A j \in {engine.journal.current} \cup ToSet(engine.journal.history) : j.target # g

\* A request without a target makes a new generation (its id is a hash); one
\* that names a target rolls back to it and begins with its verification.  That
\* the target is the generation that is active is not asked: the first generation,
\* back in use after a rollback, is switched to itself and then, unless it is to be
\* retained, removed as the source of the switch.
start_model_switch(target, rollback, retain, downtime) ==
    LET n == Cardinality(Present(disk.content))
        job == [id |-> started + 1, phase |-> IF rollback THEN "verifying" ELSE "queued",
                source |-> engine.active, target |-> target,
                cursor |-> IF rollback THEN n ELSE 0, total |-> n,
                cancel_requested |-> FALSE, revision |-> disk.revision,
                digest |-> disk.content, downtime |-> downtime, retain |-> retain,
                preexisting |-> rollback, snapshot |-> TRUE]
        e == [engine EXCEPT !.journal = replace_current(@, job)] IN
    /\ Open /\ ~failing
    /\ started < MaxSwitches /\ started' = started + 1
    /\ looped' = (looped \/ target = engine.active)
    /\ ~Frozen
    /\ disk.pending = {}
    /\ Cardinality(Present(disk.docs[engine.serving])) = n
    /\ IF ~rollback THEN target \in Gens /\ Unused(target)
       ELSE /\ ~Blocked(target)
            /\ IF target = Legacy THEN LegacyCurrent(engine.journal)
               ELSE SameSource(disk.manifest[target].digest, disk.manifest[target].revision)
    /\ LET stages == Stages(<<disk>>, engine, e)
       IN Completes(stages) \/ Fails(stages, FALSE) \/ Crashes(stages)
    /\ UNCHANGED acked

\* Accepted before the commit only, by the engine or, when it is not open,
\* on the file; other phases answer and save the journal as it is.
Cancelled(job) == [job EXCEPT !.cancel_requested = TRUE, !.phase = "cancel_requested"]

cancel_model_switch ==
    /\ Open /\ ~failing
    /\ Job.phase \in can_cancel /\ Job # NoJob
    /\ LET stages == Stages(<<disk>>, engine, WithJob(engine, Cancelled(Job))) IN
       \/ Completes(stages) /\ acked' = acked \cup {Job.id}
       \/ (Fails(stages, FALSE) \/ Crashes(stages)) /\ UNCHANGED acked
    /\ UNCHANGED <<started, looped>>

cancel_switch_from_disk ==
    /\ ~Open
    /\ disk.journal.current.phase \in can_cancel
    /\ disk' = [disk EXCEPT !.journal.current = Cancelled(@)]
    /\ acked' = acked \cup {disk.journal.current.id}
    /\ UNCHANGED <<engine, failing, faults, crashes, started, looped>>
-----------------------------------------------------------------------------
(* run_model_switch_step_inner: one step of the running job.               *)

\* A deliberately wrong variant: a restart does not load the target's model again.
InPhaseLoaded(ph) ==
    /\ Open /\ ~failing
    /\ Job.phase = ph /\ ~Job.cancel_requested
    /\ ph \in {"queued", "validating", "downloading"} \/ engine.target
    /\ UNCHANGED <<acked, started, looped>>

InPhase(ph) ==
    /\ Open /\ ~failing
    /\ Job.phase = ph /\ ~Job.cancel_requested
    /\ UNCHANGED <<acked, started, looped>>

To(ph) == WithJob(engine, [Job EXCEPT !.phase = ph])
transition_switch(ph) == Stages(<<disk>>, engine, To(ph))

\* The target's model is loaded, after the engine's own is dropped when the
\* request allows that.
Replaced(e) ==          \* deliberately wrong: it becomes the model of the engine
    [e EXCEPT !.target = TRUE, !.embedder = IF Job.downtime THEN ProfileOf[Job.target] ELSE @]

Loaded(e) == [e EXCEPT !.target = TRUE, !.embedder = IF Job.downtime THEN None ELSE @]
Dropped(e) == [e EXCEPT !.target = FALSE]

StepQueued == InPhase("queued") /\ Runs(transition_switch("validating"))

\* The preflight of the request to roll back to the target of the job.
StepValidating ==
    /\ InPhase("validating")
    /\ \/ (MayRefuse \/ Blocked(Job.target) \/ engine.active # Job.source) /\ Errs
       \/ /\ ~Blocked(Job.target) /\ engine.active = Job.source
          /\ Runs(transition_switch("downloading"))

StepDownloading ==
    /\ InPhase("downloading")
    /\ \/ MayRefuse /\ failing' = TRUE /\ engine' \in {engine, Dropped(Loaded(engine))}
          /\ UNCHANGED <<disk, faults, crashes>>
       \/ Runs(Stages(<<disk>>, Loaded(engine), Loaded(To("preparing"))))

\* What every later step needs: the source as it was, the target's runtime.
Ready ==
    ensure_source_unchanged(Job) /\ (Job.target = Legacy => disk.store[Legacy] = "sealed")

StepPreparing ==
    /\ InPhase("preparing")
    /\ \/ (MayRefuse \/ ~Ready \/ ~Openable(Job.target)) /\ Errs
       \/ /\ Ready /\ Openable(Job.target)
          /\ LET disks == created(Job.target)
                 manifest == [state |-> "building", digest |-> Job.digest,
                              revision |-> Job.revision]
                 all == IF disk.manifest[Job.target] # NoManifest THEN disks
                        ELSE Append(disks, [Last(disks) EXCEPT !.manifest[Job.target] = manifest])
             IN Runs(Stages(all, Loaded(engine), Loaded(To("reindexing"))))

\* The next record in the order of the ids, read from the serving collection.
StepReindexing ==
    /\ InPhase("reindexing")
    /\ LET ids == SetToSortSeq(Present(disk.content), <)
           id == ids[Job.cursor + 1]
           last == Job.cursor >= Len(ids) IN
       \/ (MayRefuse \/ ~Ready \/ (~last /\ disk.docs[engine.serving][id] = 0)) /\ Errs
       \/ Ready /\ last /\ Runs(Stages(<<disk>>, engine, Loaded(To("verifying"))))
       \/ /\ Ready /\ ~last /\ disk.docs[engine.serving][id] # 0
          /\ Runs(Stages(<<disk, [disk EXCEPT !.docs[Job.target][id] =
                                      disk.docs[engine.serving][id]]>>,
                         Loaded(engine),
                         Loaded(WithJob(engine, [Job EXCEPT !.cursor = @ + 1]))))

\* The ids of the target are those of the records; its vectors are probed.
StepVerifying ==
    /\ InPhase("verifying")
    /\ LET matches == Present(disk.docs[Job.target]) = Present(disk.content)
           disks == IF Job.target = Legacy THEN <<disk>>
                    ELSE <<disk, [disk EXCEPT !.manifest[Job.target].state = "complete"]>> IN
       \/ (MayRefuse \/ ~Ready \/ ~matches) /\ Errs
       \/ /\ Ready /\ matches
          /\ Runs(Stages(disks, Loaded(engine), Loaded(To("committing"))))

\* The directory of the old generation goes file by file.
Removed(d, g, first) ==
    LET gone == [d EXCEPT !.store[g] = "absent", !.docs[g] = Empty] IN
    IF g = Legacy
    THEN <<[d EXCEPT !.store[g] = "hollow", !.docs[g] = Empty], gone>>
    ELSE <<IF first THEN [d EXCEPT !.store[g] = "unsealed", !.manifest[g] = NoManifest]
                    ELSE [d EXCEPT !.store[g] = "hollow", !.docs[g] = Empty],
           [gone EXCEPT !.manifest[g] = NoManifest]>>

\* finalize_committed_generation, from the files d and the engine e.
Finalized(d, e, first) ==
    LET source == Job.source
        d1 == IF Job.target = Legacy THEN d
              ELSE [d EXCEPT !.manifest[Job.target].state = "active"]
        d2 == IF source = Legacy \/ d1.manifest[source] = NoManifest THEN d1
              ELSE [d1 EXCEPT !.manifest[source] = [state |-> "retained",
                        digest |-> Job.digest, revision |-> d1.revision]]
        removal == IF Job.retain \/ d2.store[source] = "absent" THEN <<>>
                   ELSE Removed(d2, source, first)
    IN Stages(<<d, d1, d2>> \o removal, e, WithJob(e, [Job EXCEPT !.phase = "succeeded"]))

Finalizes(d) ==
    Job.source # Legacy /\ Job.retain => d.manifest[Job.source] # NoManifest

\* The pointer is installed, the engine turns to the target, and the manifests
\* follow; after a restart or an error the pointer tells that it was installed.
StepCommitting ==
    /\ InPhase("committing")
    /\ LET committed == engine.active = Job.target
           d == [disk EXCEPT !.pointer = Job.target]
           taken == Dropped(Loaded(engine))
           e == [taken EXCEPT !.active = Job.target, !.serving = Job.target,
                              !.embedder = ProfileOf[Job.target]] IN
       \/ IF committed THEN ~Finalizes(disk) /\ Errs
          ELSE ((MayRefuse /\ ~engine.target) \/ ~Ready) /\ Errs
       \/ committed /\ Finalizes(disk) /\ \E first \in BOOLEAN : Runs(Finalized(disk, engine, first))
       \/ /\ ~committed /\ Ready /\ Finalizes(d)
          /\ \E first \in BOOLEAN :
                Runs(<<Stage(disk, taken)>> \o Finalized(d, e, first))

finish_switch_cancelled ==
    /\ Open /\ ~failing
    /\ Job.phase \notin Terminal /\ Job.cancel_requested
    /\ LET quarantined == [disk EXCEPT !.manifest[Job.target].state = "quarantined"]
           e == Dropped(To("cancelled"))
           reloads(x) == IF x.embedder # None THEN {x}
                         ELSE {[x EXCEPT !.embedder = ProfileOf[engine.serving]]}
                                \cup IF MayRefuse THEN {x} ELSE {}
           disks == IF Job.preexisting \/ Job.target = Legacy \/ disk.manifest[Job.target] = NoManifest
                    THEN <<disk>> ELSE <<disk, quarantined>>
           stages == Stages(disks, engine, e) IN
       \/ Fails(stages, TRUE)
       \/ Crashes(stages)
       \/ /\ disk' = Last(stages).disk /\ engine' \in reloads(e) /\ failing' = FALSE
          /\ UNCHANGED <<faults, crashes>>
    /\ UNCHANGED <<acked, started, looped>>

\* An error of a step.  When the pointer already names the target the commit
\* is to be completed; otherwise the job has failed.
fail_model_switch ==
    /\ failing
    /\ LET e == IF disk.pointer = Job.target
                THEN [Dropped(To("committing")) EXCEPT !.active = disk.pointer]
                ELSE Dropped(To("failed"))
           reloads(x) == IF x.embedder # None \/ disk.pointer = Job.target THEN {x}
                         ELSE {[x EXCEPT !.embedder = ProfileOf[engine.serving]]}
                                \cup IF MayRefuse THEN {x} ELSE {}
           disks == IF \/ disk.pointer = Job.target \/ Job.preexisting \/ Job.target = Legacy
                       \/ disk.manifest[Job.target] = NoManifest
                    THEN <<disk>>
                    ELSE <<disk, [disk EXCEPT !.manifest[Job.target].state = "quarantined"]>>
           stages == Stages(disks, e, e) IN
       \/ Fails(SubSeq(stages, Len(disks), Len(stages)), FALSE)
       \/ /\ faults < MaxFaults /\ faults' = faults + 1      \* the pointer cannot be read
          /\ failing' = FALSE /\ UNCHANGED <<disk, engine, crashes>>
       \/ /\ faults < MaxFaults /\ faults' = faults + 1      \* a manifest not saved is passed over
          /\ Len(disks) > 1
          /\ disk' = Saved(disk, e) /\ engine' \in reloads(e)
          /\ failing' = FALSE /\ UNCHANGED crashes
       \/ Crashes(stages)
       \/ /\ disk' = Last(stages).disk /\ engine' \in reloads(e) /\ failing' = FALSE
          /\ UNCHANGED <<faults, crashes>>
    /\ UNCHANGED <<acked, started, looped>>

\* The process dies between two handlers.
Crash ==
    /\ Open /\ crashes < MaxCrashes
    /\ crashes' = crashes + 1 /\ engine' = Closed /\ failing' = FALSE
    /\ UNCHANGED <<disk, acked, faults, started, looped>>

Step ==
    \/ StepQueued \/ StepValidating \/ StepDownloading \/ StepPreparing
    \/ StepReindexing \/ StepVerifying \/ StepCommitting
    \/ finish_switch_cancelled \/ fail_model_switch

Next ==
    \/ OpenEngine
    \/ \E i \in Ids, v \in Versions : Mutate(i, v) \/ MutateJournaled(i, v)
    \/ Search
    \/ \E target \in All, rollback, retain, downtime \in BOOLEAN :
          start_model_switch(target, rollback, retain, downtime)
    \/ cancel_model_switch \/ cancel_switch_from_disk
    \/ Step
    \/ Crash

Fairness == WF_vars(OpenEngine) /\ WF_vars(Step)
Spec == Init /\ [][Next]_vars /\ Fairness
-----------------------------------------------------------------------------
(* Properties.                                                             *)

Engines == [active : All, serving : All, embedder : Profiles \cup {None},
            target : BOOLEAN, journal : [current : Jobs \cup {NoJob}, history : Seq(Jobs)]]

\* Types of the files and of the open engine.
TypeOK ==
    /\ disk.pointer \in All
    /\ disk.journal.current \in Jobs \cup {NoJob}
    /\ \A k \in DOMAIN disk.journal.history :
          disk.journal.history[k] \in Jobs /\ disk.journal.history[k].phase \in Terminal
    /\ \A g \in Gens : disk.manifest[g] \in Manifests \cup {NoManifest}
    /\ disk.store \in [All -> {"absent", "unsealed", "hollow", "sealed"}]
    /\ disk.docs \in [All -> Content] /\ disk.content \in Content
    /\ disk.revision \in Versions /\ disk.pending \subseteq Ids \X Versions
    /\ engine \in Engines \cup {Closed}
    /\ failing => Open

Settled(i) == \A p \in disk.pending : p[1] # i
Holds(g) == \A i \in Ids : Settled(i) => disk.docs[g][i] = disk.content[i]

\* Whatever is interrupted, the generation the pointer names can be opened and
\* holds exactly the memories of state.json (open_with_inference_lock); and the
\* open engine reads and writes that collection, with the model that made its
\* vectors (commit_target_generation, fail_model_switch).  So it is until the active
\* generation is asked to be switched to itself.
ActiveIsCurrent == ~looped =>
    /\ disk.store[disk.pointer] = "sealed"
    /\ disk.pointer # Legacy => disk.manifest[disk.pointer].state \in {"active", "complete"}
    /\ Holds(disk.pointer)
    /\ Open => /\ engine.serving = disk.pointer /\ engine.active = disk.pointer
               /\ engine.embedder \in {None, ProfileOf[engine.serving]}

\* A switch whose cancellation was promised is never committed, whatever
\* fails or restarts afterwards (cancel_model_switch, cancel_switch_from_disk).  A
\* switch of the active generation to itself counts as committed from its start
\* (fail_model_switch), so with one, this holds as long as no write fails.
CancelHolds == ~looped \/ faults = 0 =>
    \A j \in {disk.journal.current} \cup ToSet(disk.journal.history) :
        j # NoJob /\ j.id \in acked => j.phase \notin {"committing", "succeeded"}

\* A generation a rollback would be admitted to holds the memories of today,
\* and the one a finished switch was told to retain is there to return to.
RollbackIsCurrent ==
    LET job == disk.journal.current IN
    /\ \A g \in All \ {disk.pointer} :
          /\ ~Frozen /\ ~failing /\ ~Blocked(g)
          /\ g # Legacy => SameSource(disk.manifest[g].digest, disk.manifest[g].revision)
          => disk.store[g] = "sealed" /\ Holds(g)
    /\ /\ job # NoJob /\ job.phase = "succeeded" /\ job.retain /\ job.source # Legacy
       => /\ disk.manifest[job.source].state \in {"retained", "complete"}
          /\ disk.store[job.source] = "sealed"

\* A switch ends, committed, cancelled or failed, when faults and crashes do,
\* and with it the freeze of the mutations (run_model_switch_step).  Only a switch
\* of the active generation to itself may leave one that cannot be opened.
FreezeEnds == Frozen ~> ~Frozen \/ looped

\* The code keeps the promise of EmbeddingGeneration.tla: the pointer is what
\* cuts over, and a switch changes nothing that is read.  A request to switch the
\* active generation to itself, which start_model_switch admits, ends the promise.
Promise == INSTANCE EmbeddingGeneration WITH
    Generations <- All, Contents <- Content,
    active <- disk.pointer, view <- disk.docs[disk.pointer],
    frozen <- Frozen /\ disk.pending = {}, void <- looped
KeepsPromise == Promise!Spec

InPhases(n, phases) ==
    LET job == disk.journal.current
    IN job # NoJob /\ job.id = n /\ job.phase \in phases

\* "Model switch apply creates a durable target generation, reindexes in
\* bounded actor-owned steps, verifies it, and cuts it over" (README.md:137).
FreshSwitchCommits ==
    \A n \in 1 .. MaxSwitches :
        InPhases(n, {"queued"}) ~> InPhases(n, {"succeeded", "cancelled"})
=============================================================================

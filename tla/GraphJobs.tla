------------------------------ MODULE GraphJobs ------------------------------
(***************************************************************************)
(* Extraction jobs of the knowledge graph: the leases of src/src/graph/    *)
(* mod.rs, its two files (state and pending transaction), the handlers of  *)
(* src/src/engine/knowledge_graph.rs, and the changes of memories that     *)
(* take the ground from under a job.                                       *)
(*                                                                         *)
(* Workers call over a connection: an answer may be lost and the call is   *)
(* made again.  A handler is a sequence of stages, one per durable write:  *)
(* it completes, one write fails, or the process dies between two of them. *)
(* One thread runs all handlers (ProjectActor.tla).                        *)
(*                                                                         *)
(* Abstracted: texts, scopes and providers; what an extraction finds is a  *)
(* member of Materials and its evidence the set of its sources.  Times are *)
(* kept as what is left of them (lease, delay), so that the clock needs no *)
(* bound; generations count modulo 2, for the files differ by one at most. *)
(* Of a lease token, a hash over job, request, worker, attempt and         *)
(* generation, the last is represented by the number of the enqueue.       *)
(***************************************************************************)
EXTENDS Naturals, Sequences, FiniteSets, SequencesExt

CONSTANTS Jobs, Workers, Sources, Materials,
          SourcesOf,      \* the memories each job extracts from
          MaxAttempts,    \* attempts of a job
          Ttl,            \* ticks a lease lasts
          MaxEnqueues, MaxVersion, MaxChanges,
          MaxFaults, MaxCrashes, MaxTrouble  \* bounds of the environment

None == "none"

ASSUME JobConstants ==
    /\ IsFiniteSet(Jobs) /\ None \notin Jobs \cup Materials
    /\ SourcesOf \in [Jobs -> (SUBSET Sources) \ {{}}]
    /\ {MaxAttempts, Ttl, MaxVersion} \subseteq Nat \ {0}
    /\ {MaxEnqueues, MaxChanges} \subseteq Nat
    /\ {MaxFaults, MaxCrashes, MaxTrouble} \subseteq Nat

VARIABLES disk,      \* the two graph files and the memories
          engine,    \* the graph of the open engine, or Closed
          worker,    \* what each worker knows of its lease
          epoch,     \* enqueues of each job so far
          completed, \* completions that were answered
          stopped,   \* cancellations that were answered
          purged,    \* the number of them that a purge has undone, or has tried to
          changes, faults, crashes
ghosts == <<epoch, completed, stopped, purged, changes>>
vars == <<disk, engine, worker, epoch, completed, stopped, purged, changes, faults, crashes>>

NoGraph == [generation |-> None]
Closed == [generation |-> "closed"]
NoToken == [worker |-> None]
NoFence == [token |-> NoToken]
Open == engine # Closed
Calm == faults + crashes + changes < MaxTrouble   \* bound on the three together
-----------------------------------------------------------------------------
(* Jobs.                                                                   *)

Versions == 0 .. MaxVersion                           \* 0: deleted
Tokens == [epoch : 1 .. MaxEnqueues, worker : Workers, request : Nat,
           attempt : 1 .. MaxAttempts]
NoJob == [state |-> None]
active == {"claimed", "running"}
terminal == {"completed", "failed", "cancelled"}
retry_delay_ms(attempt) == IF attempt = 1 THEN 1 ELSE 2   \* it doubles

\* A deliberately wrong variant: who held the lease is not forgotten.
cleared_but_token(job) == [job EXCEPT !.left = 0]

cleared(job) == [job EXCEPT !.left = 0, !.token = NoToken]
ended(job, state) == [cleared(job) EXCEPT !.state = state, !.wait = 0]

\* A deliberately wrong variant: the last attempt is queued again, too.
queue_always(job) ==
    [cleared(job) EXCEPT !.cancel = FALSE, !.state = "queued",
                         !.wait = retry_delay_ms(job.attempts)]

queue_or_fail_job(job) ==
    LET free == [job EXCEPT !.cancel = FALSE] IN
    IF job.attempts < MaxAttempts
    THEN [cleared(free) EXCEPT !.state = "queued", !.wait = retry_delay_ms(job.attempts)]
    ELSE ended(free, "failed")

recover_expired_jobs(jobs) ==
    [j \in Jobs |->
        IF jobs[j].state \notin active \/ jobs[j].left > 0 THEN jobs[j]
        ELSE IF jobs[j].cancel THEN ended(jobs[j], "cancelled")
        ELSE queue_or_fail_job(jobs[j])]

claimable_job(job) ==
    /\ job.state = "queued" /\ ~job.cancel
    /\ job.attempts < MaxAttempts /\ job.wait = 0

-----------------------------------------------------------------------------
(* The graph, and what a change of memories takes out of it.               *)

NoRun == [material |-> None, evidence |-> {}]
EmptyGraph == [jobs |-> [j \in Jobs |-> NoJob], runs |-> [j \in Jobs |-> NoRun],
               generation |-> 0]

\* The jobs that use the memories fail, their evidence goes.
erase_sources(graph, ids) ==
    [graph EXCEPT
        !.jobs = [j \in Jobs |->
            IF @[j].state \in terminal \cup {None} \/ SourcesOf[j] \cap ids = {} THEN @[j]
            ELSE [ended(@[j], "failed") EXCEPT !.cancel = FALSE]],
        !.runs = [j \in Jobs |-> [material |-> @[j].material,
                                  evidence |-> {p \in @[j].evidence : p[1] \notin ids}]]]

\* graph_source_snapshot: a memory is usable as it is in the collection when
\* nothing of it is journaled.
Usable(s) == disk.memory[s] # 0 /\ s \notin disk.deletes /\ \A p \in disk.upserts : p[1] # s
binding(j) == {<<s, disk.memory[s]>> : s \in SourcesOf[j]}
validate_graph_job_sources(j, job) ==
    (\A s \in SourcesOf[j] : Usable(s)) /\ job.bound = binding(j)
-----------------------------------------------------------------------------
(* Handlers as sequences of durable writes.                                *)

Stage(d, e) == [disk |-> d, engine |-> e]
Here == <<Stage(disk, engine)>>

\* commit_state: the pending file, the state, the copy in memory, the removal.
commit_state(stages, next) ==
    LET d == Last(stages).disk
        e == Last(stages).engine
        graph == [next EXCEPT !.generation = (e.generation + 1) % 2]
        main == [d EXCEPT !.pending = graph, !.main = graph]
    IN stages \o <<Stage([d EXCEPT !.pending = graph], e), Stage(main, graph),
                   Stage([main EXCEPT !.pending = NoGraph], graph)>>

WithJob(graph, j, job) ==
    [graph EXCEPT !.jobs = [i \in Jobs |-> IF i = j THEN job ELSE @[i]]]

Completes(stages) ==
    /\ disk' = Last(stages).disk /\ engine' = Last(stages).engine
    /\ UNCHANGED <<faults, crashes>>

\* A write fails; a write of a graph file may fail after its rename.
Fails(stages) ==
    \E k \in 1 .. Len(stages) - 1 : \E l \in {k, k + 1} :
        /\ faults < MaxFaults /\ Calm /\ faults' = faults + 1
        /\ l = k \/ stages[k].disk.main # stages[l].disk.main
                 \/ stages[k].disk.pending # stages[l].disk.pending
        /\ disk' = stages[l].disk
        /\ engine' = IF Open THEN stages[k].engine ELSE Closed
        /\ UNCHANGED crashes

Crashes(stages) ==
    \E k \in 1 .. Len(stages) - 1 :
        /\ crashes < MaxCrashes /\ Calm /\ crashes' = crashes + 1
        /\ disk' = stages[k].disk /\ engine' = Closed
        /\ UNCHANGED faults

\* The answer of a call is lost, or there is none.
Unanswered(stages) ==
    (Completes(stages) \/ Fails(stages) \/ Crashes(stages)) /\ UNCHANGED <<worker, ghosts>>
-----------------------------------------------------------------------------
Idle == [job |-> None, token |-> NoToken, left |-> 0, request |-> 0]

Init ==
    /\ disk = [main |-> EmptyGraph, pending |-> NoGraph, memory |-> [s \in Sources |-> 1],
               upserts |-> {}, deletes |-> {}]
    /\ engine = EmptyGraph
    /\ worker = [w \in Workers |-> Idle]
    /\ epoch = [j \in Jobs |-> 0]
    /\ completed = {} /\ stopped = {} /\ purged = epoch
    /\ changes = 0 /\ faults = 0 /\ crashes = 0

\* The pending transaction counts when it is the successor of the state.
Newer == disk.pending # NoGraph /\ disk.pending.generation = (disk.main.generation + 1) % 2
Durable == IF Newer THEN disk.pending ELSE disk.main
-----------------------------------------------------------------------------
(* Calls about jobs.                                                       *)

enqueue_job(j) ==
    [state |-> "queued", attempts |-> 0, left |-> 0, wait |-> 0, token |-> NoToken,
     cancel |-> FALSE, bound |-> binding(j), epoch |-> epoch[j] + 1, fence |-> NoFence]

graph_extract_enqueue(j) ==
    /\ Open
    /\ \A s \in SourcesOf[j] : Usable(s)
    /\ engine.jobs[j] = NoJob           \* otherwise nothing is written
    /\ epoch[j] < MaxEnqueues
    /\ LET stages == commit_state(Here, WithJob(engine, j, enqueue_job(j)))
       IN Completes(stages) \/ Fails(stages) \/ Crashes(stages)
    /\ epoch' = [epoch EXCEPT ![j] = @ + 1]
    /\ UNCHANGED <<worker, completed, stopped, purged, changes>>

recover_job_leases(stages) ==
    LET graph == Last(stages).engine
        jobs == recover_expired_jobs(graph.jobs)
    IN IF jobs = graph.jobs THEN stages ELSE commit_state(stages, [graph EXCEPT !.jobs = jobs])

mark_job_source_changed(job) ==
    IF job.state \in terminal THEN job ELSE [ended(job, "failed") EXCEPT !.cancel = FALSE]

\* What a claim does for job j, in the graph with its expired leases recovered.
claim_job(w, j, jobs) ==
    [jobs[j] EXCEPT !.attempts = @ + 1, !.state = "claimed", !.left = Ttl, !.wait = 0,
        !.token = [epoch |-> jobs[j].epoch, worker |-> w, request |-> worker[w].request,
                   attempt |-> jobs[j].attempts + 1]]

Answered(w, j, job) ==
    worker' = [worker EXCEPT ![w] = [@ EXCEPT !.job = j, !.token = job.token, !.left = job.left]]

graph_extract_claim(w) ==
    LET jobs == recover_expired_jobs(engine.jobs)
        base == recover_job_leases(Here)
        replays == {j \in Jobs : jobs[j].state \in active /\ jobs[j].token.worker = w
                                    /\ jobs[j].token.request = worker[w].request}
        free == {j \in Jobs : claimable_job(jobs[j])}
        granted(j) == IF j \in replays THEN jobs[j] ELSE claim_job(w, j, jobs) IN
    /\ Open /\ worker[w].job = None
    /\ \/ replays = {} /\ free = {} /\ Unanswered(base)
       \/ \E j \in IF replays # {} THEN replays ELSE free :
            LET valid == validate_graph_job_sources(j, granted(j))
                failed == mark_job_source_changed(granted(j)) IN
            \E lease \in {IF j \in replays THEN base
                          ELSE commit_state(Here, WithJob([engine EXCEPT !.jobs = jobs], j, granted(j)))} :
                \/ valid /\ Unanswered(lease)
                \/ valid /\ Completes(lease) /\ Answered(w, j, granted(j)) /\ UNCHANGED ghosts
                \/ /\ ~valid
                   /\ \E stages \in {commit_state(lease, WithJob(Last(lease).engine, j, failed))} :
                        Unanswered(stages)

\* A deliberately wrong variant: any lease on the job will do.
HoldsAny(w, jobs) == jobs[worker[w].job].state \in active

Holds(w, jobs) ==
    /\ jobs[worker[w].job].state \in active
    /\ jobs[worker[w].job].token = worker[w].token

graph_extract_renew(w) ==
    LET j == worker[w].job
        jobs == recover_expired_jobs(engine.jobs)
        job == [jobs[j] EXCEPT !.state = "running", !.left = IF @ < Ttl THEN Ttl ELSE @]
        stages == commit_state(Here, WithJob([engine EXCEPT !.jobs = jobs], j, job)) IN
    /\ Open /\ j # None
    /\ Holds(w, jobs)
    /\ \/ Unanswered(stages)
       \/ /\ Completes(stages)
          /\ worker' = [worker EXCEPT ![w].left = job.left]
          /\ UNCHANGED ghosts

graph_extract_job_status ==
    /\ Open
    /\ Unanswered(recover_job_leases(Here))

cancel_job(job) ==
    CASE job.state \in terminal -> job
      [] job.state \in active -> [job EXCEPT !.cancel = TRUE]
      [] OTHER -> [ended(job, "cancelled") EXCEPT !.cancel = TRUE]

graph_extract_cancel(j) ==
    LET jobs == recover_expired_jobs(engine.jobs)
        job == cancel_job(jobs[j])
        stages == commit_state(Here, WithJob([engine EXCEPT !.jobs = jobs], j, job)) IN
    /\ Open /\ engine.jobs[j] # NoJob
    /\ \/ Unanswered(stages)
       \/ /\ jobs[j].state \notin terminal
          /\ Completes(stages)
          /\ stopped' = stopped \cup {<<j, job.epoch>>}
          /\ UNCHANGED <<worker, epoch, completed, purged, changes>>

\* A worker that is done, or gives up, asks under a new request id: one that no
\* lease of it holds.
InUse(d, e, w, n) ==
    \E graph \in {d.main, d.pending, e} \ {NoGraph, Closed}, j \in Jobs :
        /\ graph.jobs[j] # NoJob /\ graph.jobs[j].token # NoToken
        /\ graph.jobs[j].token.worker = w /\ graph.jobs[j].token.request = n

Done(d, e, w) ==
    worker' = [worker EXCEPT ![w] = [Idle EXCEPT
        !.request = CHOOSE n \in 0 .. 3 * Cardinality(Jobs) : ~InUse(d, e, w, n)]]

forgets(w) ==
    /\ UNCHANGED <<disk, engine, ghosts, faults, crashes>>
    /\ Done(disk, engine, w) /\ worker' # worker

\* A completion that is durable is recognised by its token and its material.
Fence(w, m) == [token |-> worker[w].token, material |-> m]

\* A deliberately wrong variant: any completion under the same token is one.
SameToken(w, m, job) == job.fence.token = worker[w].token

Replays(w, m, job) == job.fence = Fence(w, m)

\* A deliberately wrong variant: a cancellation is only seen when the lease ends.
FinishedRegardless(w, m, j, jobs) ==
    CASE m = "retryable" -> queue_or_fail_job(jobs[j])
      [] m = "permanent" -> ended(jobs[j], "failed")
      [] OTHER -> [ended(jobs[j], "completed") EXCEPT !.fence = Fence(w, m)]

Finished(w, m, j, jobs) ==
    IF jobs[j].cancel THEN ended(jobs[j], "cancelled")
    ELSE CASE m = "retryable" -> queue_or_fail_job(jobs[j])
           [] m = "permanent" -> ended(jobs[j], "failed")
           [] OTHER -> [ended(jobs[j], "completed") EXCEPT !.fence = Fence(w, m)]

\* apply_upsert, as far as the run is concerned: a run has one material.
Applies(m, j) == engine.runs[j].material \in {None, m}
Applied(m, j) ==
    IF engine.runs[j].material # None THEN engine.runs[j]
    ELSE [material |-> m, evidence |-> binding(j)]

\* A worker that reports works on the job no longer, whatever the answer; the
\* outcome is chosen anew when the call is made again.
Reported(w, stages) ==
    /\ Completes(stages) \/ Fails(stages) \/ Crashes(stages)
    /\ worker' = [worker EXCEPT ![w].left = 0]
    /\ UNCHANGED ghosts

graph_extract_finish(w, m) ==
    LET j == worker[w].job
        jobs == recover_expired_jobs(engine.jobs)
        completing == m \in Materials
        valid == validate_graph_job_sources(j, engine.jobs[j])
        changed == WithJob(engine, j, mark_job_source_changed(engine.jobs[j]))
        job == Finished(w, m, j, jobs)
        runs == IF job.state = "completed" THEN [engine.runs EXCEPT ![j] = Applied(m, j)]
                ELSE engine.runs
        stages == commit_state(Here, [engine EXCEPT !.jobs = [jobs EXCEPT ![j] = job],
                                                    !.runs = runs])
        answered == completed \cup {[job |-> j, epoch |-> worker[w].token.epoch,
                                     material |-> m]} IN
    /\ Open /\ j # None
    /\ engine.jobs[j] # NoJob
    /\ \/ completing /\ ~valid /\ Reported(w, commit_state(Here, changed))
       \/ /\ completing /\ valid /\ jobs[j].state = "completed" /\ Replays(w, m, jobs[j])
          /\ completed' = answered
          /\ UNCHANGED <<disk, engine, epoch, stopped, purged, changes, faults, crashes>>
          /\ Done(disk', engine', w)
       \/ /\ completing => valid
          /\ Holds(w, jobs)
          /\ job.state = "completed" => Applies(m, j)
          /\ \/ Reported(w, stages)
             \/ /\ Completes(stages)
                /\ completed' = IF job.state = "completed" THEN answered ELSE completed
                /\ Done(disk', engine', w)
                /\ UNCHANGED <<epoch, stopped, purged, changes>>
-----------------------------------------------------------------------------
(* Changes of memories.  An update is journaled, the graph is erased, the  *)
(* document written; a delete erases the graph before it is journaled.     *)

Changes ==
    /\ changes < MaxChanges /\ Calm /\ changes' = changes + 1
    /\ UNCHANGED <<worker, epoch, completed, stopped, purged>>

On(stages, d) == Append(stages, Stage(d, Last(stages).engine))
Erased(stages, ids) == commit_state(stages, erase_sources(Last(stages).engine, ids))

\* What a batch of upserts does to the memories, and whose revision changes.
Written(memory, U) ==
    [s \in Sources |-> IF \E u \in U : u[1] = s THEN (CHOOSE u \in U : u[1] = s)[2]
                       ELSE memory[s]]
Changed(memory, U) == {u[1] : u \in {u \in U : memory[u[1]] \notin {0, u[2]}}}

\* A deliberately wrong variant: the document is written before the erasure.
WrittenFirst(stages, U) ==
    LET written == On(stages, [Last(stages).disk EXCEPT !.memory = Written(@, U)])
        changed == Changed(Last(stages).disk.memory, U)
        erased == IF changed = {} THEN written ELSE Erased(written, changed)
    IN On(erased, [Last(erased).disk EXCEPT !.upserts = @ \ U])

\* From the journaled upsert on, as the commit and the recovery do it: only
\* a memory whose revision changes is erased.
Upserted(stages, U) ==
    LET changed == Changed(Last(stages).disk.memory, U)
        erased == IF changed = {} THEN stages ELSE Erased(stages, changed)
        written == On(erased, [Last(erased).disk EXCEPT !.memory = Written(@, U)])
    IN On(written, [Last(written).disk EXCEPT !.upserts = @ \ U])

Deleted(stages, ids) ==
    LET d == [Last(stages).disk EXCEPT !.memory = [s \in Sources |-> IF s \in ids THEN 0 ELSE @[s]]]
    IN stages \o <<Stage(d, Last(stages).engine),
                   Stage([d EXCEPT !.deletes = @ \ ids], Last(stages).engine)>>

Upsert(s, v) ==
    /\ Open /\ v \in Versions \ {0, disk.memory[s]}
    /\ \A u \in disk.upserts : u[1] # s
    /\ LET stages == Upserted(On(Here, [disk EXCEPT !.upserts = @ \cup {<<s, v>>}]), {<<s, v>>})
       IN Completes(stages) \/ Fails(stages) \/ Crashes(stages)
    /\ Changes

Delete(s) ==
    /\ Open /\ disk.memory[s] # 0
    /\ LET erased == Erased(Here, {s})
           stages == Deleted(On(erased, [Last(erased).disk EXCEPT !.deletes = @ \cup {s}]), {s})
       IN Completes(stages) \/ Fails(stages) \/ Crashes(stages)
    /\ Changes

Purge ==
    /\ Open
    /\ LET emptied == commit_state(Here, EmptyGraph)
           gone == [Last(emptied).disk EXCEPT !.memory = [s \in Sources |-> 0]]
           stages == On(On(emptied, gone), [gone EXCEPT !.upserts = {}, !.deletes = {}])
       IN Completes(stages) \/ Fails(stages) \/ Crashes(stages)
    /\ changes < MaxChanges /\ Calm /\ changes' = changes + 1
    /\ purged' = epoch
    /\ UNCHANGED <<worker, epoch, completed, stopped>>
-----------------------------------------------------------------------------
(* Restart: the graph files, the leases, then the journaled changes.       *)

\* The pending transaction becomes the state when it is the newer one.
Loaded ==
    <<Stage(disk, Durable)>>
    \o (IF Newer THEN <<Stage([disk EXCEPT !.main = disk.pending], Durable)>> ELSE <<>>)
    \o (IF disk.pending = NoGraph THEN <<>>
        ELSE <<Stage([disk EXCEPT !.main = Durable, !.pending = NoGraph], Durable)>>)

recover_pending_upserts(stages) ==
    IF disk.upserts = {} THEN stages
    ELSE Upserted(stages, disk.upserts)

recover_pending_deletes(stages) ==
    IF disk.deletes = {} THEN stages ELSE Deleted(Erased(stages, disk.deletes), disk.deletes)

OpenEngine ==
    /\ ~Open
    /\ \E leases \in {recover_job_leases(Loaded)} :
       \E upserts \in {recover_pending_upserts(leases)} :
       \E stages \in {recover_pending_deletes(upserts)} : Unanswered(stages)

Crash ==
    /\ Open /\ crashes < MaxCrashes /\ Calm
    /\ crashes' = crashes + 1 /\ engine' = Closed
    /\ UNCHANGED <<disk, worker, ghosts, faults>>

\* A tick of the clock takes one off every time that is left.
less(n) == IF n = 0 THEN 0 ELSE n - 1
aged(job) == IF job = NoJob THEN NoJob ELSE [job EXCEPT !.left = less(@), !.wait = less(@)]
older(graph) ==
    IF graph \in {NoGraph, Closed} THEN graph
    ELSE [graph EXCEPT !.jobs = [j \in Jobs |-> aged(@[j])]]

Tick ==
    /\ disk' = [disk EXCEPT !.main = older(@), !.pending = older(@)]
    /\ engine' = older(engine)
    /\ worker' = [w \in Workers |-> [worker[w] EXCEPT !.left = less(@)]]
    /\ <<disk', engine', worker'>> # <<disk, engine, worker>>
    /\ UNCHANGED <<ghosts, faults, crashes>>

Next ==
    \/ \E j \in Jobs : graph_extract_enqueue(j) \/ graph_extract_cancel(j)
    \/ \E w \in Workers :
          \/ graph_extract_claim(w) \/ graph_extract_renew(w) \/ forgets(w)
          \/ \E m \in Materials \cup {"retryable", "permanent"} : graph_extract_finish(w, m)
    \/ graph_extract_job_status
    \/ \E s \in Sources : Delete(s) \/ \E v \in Versions : Upsert(s, v)
    \/ Purge
    \/ OpenEngine \/ Crash
    \/ Tick

Fairness ==
    /\ WF_vars(Tick) /\ WF_vars(OpenEngine)
    /\ WF_vars(\E w \in Workers : graph_extract_claim(w))
    /\ WF_vars(\E w \in Workers : forgets(w))

Spec == Init /\ [][Next]_vars /\ Fairness
-----------------------------------------------------------------------------
(* Properties.                                                             *)

JobType ==
    [state : {"queued"} \cup active \cup terminal, attempts : 0 .. MaxAttempts, left : 0 .. Ttl,
     wait : 0 .. 2, token : Tokens \cup {NoToken}, cancel : BOOLEAN,
     bound : SUBSET (Sources \X Versions), epoch : 1 .. MaxEnqueues,
     fence : [token : Tokens, material : Materials] \cup {NoFence}]

\* What validate_state demands of the jobs of a graph.
GraphOK(graph) ==
    \A j \in {j \in Jobs : graph.jobs[j] # NoJob} : LET job == graph.jobs[j] IN
        /\ job \in JobType
        /\ (job.token # NoToken) <=> job.state \in active
        /\ (job.fence # NoFence) <=> job.state = "completed"
        /\ job.wait > 0 => job.state = "queued"

\* Every graph on disk or in memory is one that validate_state accepts.
TypeOK ==
    /\ GraphOK(disk.main)
    /\ disk.pending # NoGraph => GraphOK(disk.pending)
    /\ Open => GraphOK(engine)
    /\ disk.memory \in [Sources -> Versions]
    /\ disk.upserts \subseteq Sources \X Versions /\ disk.deletes \subseteq Sources

Graphs == {Durable} \cup IF Open THEN {engine} ELSE {}

\* Two workers never both believe that their lease on a job still lasts,
\* whatever answers they missed (claim_job, renew_job, recover_expired_jobs).
OneHolder ==
    \A v, w \in Workers :
        /\ v # w /\ worker[v].left > 0 /\ worker[w].left > 0
        /\ worker[v].job = worker[w].job
        => worker[v].token.epoch # worker[w].token.epoch

\* A completion that was answered is the only one of its job, and neither a
\* late or repeated finish nor a restart changes what it stored, until a purge.
OneResult ==
    \A r \in completed :
        /\ \A q \in completed : q.job = r.job /\ q.epoch = r.epoch => q = r
        /\ \A graph \in Graphs :
             \/ r.epoch <= purged[r.job]
             \/ /\ graph.runs[r.job].material = r.material
                /\ LET job == graph.jobs[r.job]
                   IN job # NoJob /\ job.epoch = r.epoch => job.state = "completed"

\* A job whose cancellation was answered is not completed and not tried again,
\* whatever its worker reports and whenever its lease ends.
CancelHolds ==
    \A p \in stopped : \A graph \in Graphs :
        LET job == graph.jobs[p[1]] IN
        job # NoJob /\ job.epoch = p[2]
        => job.state \in {"cancelled", "failed"} \/ (job.state \in active /\ job.cancel)

\* No evidence is kept of a memory that has changed or is deleted, unless the
\* change is still journaled, in which case no search shows it.
EvidenceIsCurrent ==
    \A graph \in Graphs, j \in Jobs : \A p \in graph.runs[j].evidence :
        \/ disk.memory[p[1]] = p[2]
        \/ p[1] \in disk.deletes \/ \E u \in disk.upserts : u[1] = p[1]

Unfinished(j) == engine.jobs[j].state \in {"queued"} \cup active

\* When workers keep asking, every job ends: attempts are bounded, a lease
\* whose worker died runs out, and a delay passes.
JobsSettle == \A j \in Jobs : (Open /\ Unfinished(j)) ~> (Open /\ ~Unfinished(j))
=============================================================================

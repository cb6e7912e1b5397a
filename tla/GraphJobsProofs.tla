--------------------------- MODULE GraphJobsProofs ---------------------------
(***************************************************************************)
(* What holds of extraction jobs for every set of jobs, workers, memories  *)
(* and materials, every number of attempts and ticks, and any number of    *)
(* changes, failed writes and crashes:                                     *)
(*                                                                         *)
(*   JobsTyped         Spec => []TypeOK                                    *)
(*   HolderIsOne       Spec => []OneHolder                                 *)
(*   ResultIsOne       Spec => []OneResult                                 *)
(*   CancelIsKept      Spec => []CancelHolds                               *)
(*   EvidenceIsTrue    Spec => []EvidenceIsCurrent                         *)
(*                                                                         *)
(* Three graphs may become the graph of the next engine: the state file,   *)
(* the pending transaction and the graph in memory.  The invariant says    *)
(* the same of each of them (GraphInv), and how the graphs on disk may     *)
(* differ from that of an open engine (Successor): they are what a write   *)
(* that failed would have made of it.                                      *)
(***************************************************************************)
EXTENDS GraphJobs, SequenceTheorems, FiniteSetTheorems, TLAPS

-----------------------------------------------------------------------------
(***************************************************************************)
(* The invariant.  "v" is what the environment knows: workers and ghosts.  *)
(***************************************************************************)
RunType ==
    [material : Materials \cup {None}, evidence : SUBSET (Sources \X Versions)]
GraphType ==
    [jobs : [Jobs -> JobType \cup {NoJob}], runs : [Jobs -> RunType],
     generation : {0, 1}]
DiskType ==
    [main : GraphType, pending : GraphType \cup {NoGraph},
     memory : [Sources -> Versions], upserts : SUBSET (Sources \X Versions),
     deletes : SUBSET Sources]
StageType == [disk : DiskType, engine : GraphType]

Env == [worker |-> worker, epoch |-> epoch, completed |-> completed,
        stopped |-> stopped, purged |-> purged]

\* What validate_state demands, and that tokens and fences are of this job.
JobTyped(j, job, v) ==
    job # NoJob =>
        /\ (job.token # NoToken) <=> job.state \in active
        /\ (job.fence # NoFence) <=> job.state = "completed"
        /\ job.wait > 0 => job.state = "queued"
        /\ job.epoch <= v.epoch[j]
        /\ job.state \in active => job.token.epoch = job.epoch
        /\ job.state = "completed" => job.fence.token.epoch = job.epoch

\* Only a completed job has a run, that of its fence.
RunTyped(job, run) ==
    /\ run.material # None <=> job # NoJob /\ job.state = "completed"
    /\ run.material # None => job.fence.material = run.material

KeepsCancel(j, job, v) ==
    \A p \in v.stopped :
        p[1] = j /\ job # NoJob /\ job.epoch = p[2] =>
            \/ job.state \in {"cancelled", "failed"}
            \/ job.state \in active /\ job.cancel

\* An answered completion: its job is completed by it, or a purge came after.
KeepsResult(j, job, v) ==
    \A r \in v.completed : r.job = j =>
        /\ job # NoJob /\ job.epoch = r.epoch =>
              job.state = "completed" /\ job.fence.material = r.material
        /\ r.epoch <= v.purged[j] \/ (job # NoJob /\ job.epoch = r.epoch)

\* A lease that a worker believes in is not given to another.
KeepsLease(j, job, v) ==
    \A w \in Workers :
        /\ v.worker[w].job = j /\ v.worker[w].left > 0
        /\ job # NoJob /\ job.epoch = v.worker[w].token.epoch
        => \/ job.state \in terminal
           \/ /\ job.state \in active /\ job.token = v.worker[w].token
              /\ v.worker[w].left <= job.left

JobInv(j, job, run, v) ==
    /\ JobTyped(j, job, v)
    /\ RunTyped(job, run)
    /\ KeepsCancel(j, job, v)
    /\ KeepsResult(j, job, v)
    /\ KeepsLease(j, job, v)

\* A piece of evidence is of the memory as it is, or an upsert is journaled
\* that will change the memory and has yet to erase the evidence.
Current(p, d) ==
    /\ p[1] \notin d.deletes /\ p[2] # 0
    /\ \/ d.memory[p[1]] = p[2]
       \/ /\ d.memory[p[1]] # 0
          /\ \E u \in d.upserts : u[1] = p[1] /\ u[2] # d.memory[p[1]]

GraphInv(graph, d, v) ==
    \A j \in Jobs :
        /\ JobInv(j, graph.jobs[j], graph.runs[j], v)
        /\ \A p \in graph.runs[j].evidence : Current(p, d)

\* What a durable graph may have made of a completed job of the open engine,
\* and of a lease that its worker has yet to hear of.
KeepsCompleted(j, ejob, job, v) ==
    ejob # NoJob /\ ejob.state = "completed" =>
        \/ job = NoJob /\ ejob.epoch <= v.purged[j]
        \/ /\ job # NoJob /\ job.state = "completed"
           /\ job.epoch = ejob.epoch /\ job.fence = ejob.fence

KeepsGrant(j, ejob, job, v) ==
    /\ ejob # NoJob /\ ejob.state \in active /\ ejob.left > 0
    /\ v.worker[ejob.token.worker].job = None
    /\ v.worker[ejob.token.worker].request = ejob.token.request
    => \/ job = NoJob
       \/ /\ job # NoJob /\ job.epoch = ejob.epoch
          /\ \/ job.state \in terminal
             \/ /\ job.state \in active /\ job.token = ejob.token
                /\ ejob.left <= job.left

Successor(e, graph, v) ==
    \A j \in Jobs : /\ KeepsCompleted(j, e.jobs[j], graph.jobs[j], v)
                    /\ KeepsGrant(j, e.jobs[j], graph.jobs[j], v)

DiskInv(d, v) ==
    /\ d \in DiskType
    /\ GraphInv(d.main, d, v)
    /\ d.pending # NoGraph => GraphInv(d.pending, d, v)
    /\ \A u \in d.upserts : u[2] # 0
    /\ \A t, u \in d.upserts : t[1] = u[1] => t = u

\* "mode": whether the engine is open, or only being opened.
Stages(v, mode) ==
    {x \in StageType :
        /\ DiskInv(x.disk, v)
        /\ GraphInv(x.engine, x.disk, v)
        /\ mode = "open" => Successor(x.engine, x.disk.main, v)
        /\ mode = "open" /\ x.disk.pending # NoGraph =>
              Successor(x.engine, x.disk.pending, v)}

\* Nothing else is known of a worker.
LeaseRecord(k) ==
    /\ k = [job |-> k.job, token |-> k.token, left |-> k.left, request |-> k.request]
    /\ k.request \in Nat

\* The fence of a completion under a token.
IsFence(fence, token, m) == fence = [token |-> token, material |-> m]

WorkerInv(w, v) ==
    LET k == v.worker[w]
    IN /\ LeaseRecord(k)
       /\ k.job \in Jobs \cup {None}
       /\ k.left \in 0 .. Ttl
       /\ k.job = None => k.left = 0
       /\ k.job # None => /\ k.token \in Tokens /\ k.token.worker = w
                          /\ k.token.epoch <= v.epoch[k.job]

\* What is known before and after a worker learns something.
Learns(v, w, u, k) ==
    /\ w.worker = [v.worker EXCEPT ![u] = k]
    /\ w.epoch = v.epoch /\ w.completed = v.completed
    /\ w.stopped = v.stopped /\ w.purged = v.purged

\* OneHolder of an environment.
Exclusive(v) ==
    \A u, w \in Workers :
        /\ u # w /\ v.worker[u].left > 0 /\ v.worker[w].left > 0
        /\ v.worker[u].job = v.worker[w].job
        => v.worker[u].token.epoch # v.worker[w].token.epoch

EnvInv(v) ==
    /\ v.epoch \in [Jobs -> 0 .. MaxEnqueues]
    /\ v.purged \in [Jobs -> Nat]
    /\ \A j \in Jobs : v.purged[j] <= v.epoch[j]
    /\ v.completed \subseteq
          [job : Jobs, epoch : 1 .. MaxEnqueues, material : Materials]
    /\ \A r \in v.completed : r.epoch <= v.epoch[r.job]
    /\ \A q, r \in v.completed : q.job = r.job /\ q.epoch = r.epoch => q = r
    /\ v.stopped \subseteq Jobs \X (1 .. MaxEnqueues)
    /\ \A p \in v.stopped : p[2] <= v.epoch[p[1]]
    /\ DOMAIN v.worker = Workers
    /\ \A w \in Workers : WorkerInv(w, v)
    /\ Exclusive(v)

JobsInv ==
    /\ EnvInv(Env)
    /\ DiskInv(disk, Env)
    /\ Open => Stage(disk, engine) \in Stages(Env, "open")
-----------------------------------------------------------------------------
(***************************************************************************)
(* The shapes of the values.                                               *)
(***************************************************************************)

\* A job, a graph, a token and a fence are never taken for the absent one.
LEMMA Shapes ==
    /\ \A job \in JobType : job # NoJob
    /\ \A graph \in GraphType : graph # NoGraph /\ graph # Closed
    /\ \A t \in Tokens : t # NoToken
    /\ NoGraph # Closed
    /\ \A t \in Tokens : \A m : [token |-> t, material |-> m] # NoFence
  <1>1. \A job \in JobType : "attempts" \in DOMAIN job
    BY DEF JobType
  <1>2. \A graph \in GraphType : "jobs" \in DOMAIN graph
    BY DEF GraphType
  <1>3. \A t \in Tokens : "epoch" \in DOMAIN t
    BY DEF Tokens
  <1>4. \A t, m : "material" \in DOMAIN [token |-> t, material |-> m]
    OBVIOUS
  <1>5. /\ DOMAIN NoJob = {"state"} /\ DOMAIN NoToken = {"worker"}
        /\ DOMAIN NoGraph = {"generation"} /\ DOMAIN Closed = {"generation"}
        /\ DOMAIN NoFence = {"token"}
    BY DEF NoJob, NoToken, NoGraph, Closed, NoFence
  <1>6. NoGraph.generation # Closed.generation
    BY DEF NoGraph, Closed, None
  <1> QED
    BY <1>1, <1>2, <1>3, <1>4, <1>5, <1>6
-----------------------------------------------------------------------------
(***************************************************************************)
(* Sequences of stages.  A write of a graph file that fails may be durable *)
(* all the same: the disk of a stage with the engine of the one before.    *)
(***************************************************************************)
Writes(x, y) ==
    x.disk.main # y.disk.main \/ x.disk.pending # y.disk.pending

Sound(stages, S) ==
    /\ stages \in Seq(S)
    /\ stages # <<>>
    /\ \A k \in 1 .. Len(stages) - 1 :
          Writes(stages[k], stages[k + 1]) =>
              Stage(stages[k + 1].disk, stages[k].engine) \in S

\* A handler starts from the state it finds.
LEMMA HereSound ==
    ASSUME NEW S, NEW x \in S
    PROVE  Sound(<<x>>, S) /\ Last(<<x>>) = x
  BY DEF Sound, Last

\* The last stage of a sequence.
LEMMA LastSound ==
    ASSUME NEW S, NEW stages, Sound(stages, S)
    PROVE  Last(stages) \in S
  BY DEF Sound, Last

\* One more durable write.
LEMMA AppendSound ==
    ASSUME NEW S, NEW stages, Sound(stages, S), NEW x \in S,
           Writes(Last(stages), x) => Stage(x.disk, Last(stages).engine) \in S
    PROVE  Sound(Append(stages, x), S) /\ Last(Append(stages, x)) = x
  <1> DEFINE t == Append(stages, x)
  <1>1. /\ stages \in Seq(S) /\ Len(stages) \in Nat \ {0}
    BY DEF Sound
  <1>2. /\ t \in Seq(S) /\ t # <<>> /\ Len(t) = Len(stages) + 1
        /\ \A i \in 1 .. Len(stages) : t[i] = stages[i]
        /\ t[Len(stages) + 1] = x
    BY <1>1, AppendProperties
  <1> HIDE DEF t
  <1>3. ASSUME NEW k \in 1 .. Len(t) - 1, Writes(t[k], t[k + 1])
        PROVE  Stage(t[k + 1].disk, t[k].engine) \in S
    <2>1. CASE k = Len(stages)
      BY <1>1, <1>2, <1>3, <2>1 DEF Last
    <2>2. CASE k # Len(stages)
      <3>1. k \in 1 .. Len(stages) - 1
        BY <1>1, <1>2, <2>2
      <3>2. t[k] = stages[k] /\ t[k + 1] = stages[k + 1]
        BY <1>1, <1>2, <3>1
      <3> QED
        BY <1>3, <3>1, <3>2 DEF Sound
    <2> QED
      BY <2>1, <2>2
  <1>4. Last(t) = x
    BY <1>2 DEF Last
  <1> QED
    BY <1>2, <1>3, <1>4 DEF Sound, t

\* Wherever a handler of the open engine ends, it leaves a sound stage.
LEMMA OutcomeSound ==
    ASSUME NEW S, NEW stages, Sound(stages, S), Open,
           Completes(stages) \/ Fails(stages) \/ Crashes(stages)
    PROVE  \/ /\ engine' = Closed
              /\ \E x \in S : disk' = x.disk
           \/ \E x \in S : disk' = x.disk /\ engine' = x.engine
  <1>1. stages \in Seq(S) /\ Len(stages) \in Nat \ {0}
    BY DEF Sound
  <1>2. \A k \in 1 .. Len(stages) : stages[k] \in S
    BY <1>1
  <1>3. CASE Completes(stages)
    BY <1>3, LastSound DEF Completes
  <1>4. CASE Fails(stages)
    <2>0. PICK k \in 1 .. Len(stages) - 1 : \E l \in {k, k + 1} :
             /\ \/ l = k
                \/ stages[k].disk.main # stages[l].disk.main
                \/ stages[k].disk.pending # stages[l].disk.pending
             /\ disk' = stages[l].disk
             /\ engine' = stages[k].engine
      BY <1>4 DEF Fails
    <2>1. PICK l \in {k, k + 1} :
             /\ \/ l = k
                \/ stages[k].disk.main # stages[l].disk.main
                \/ stages[k].disk.pending # stages[l].disk.pending
             /\ disk' = stages[l].disk
             /\ engine' = stages[k].engine
      BY <2>0
    <2>2. CASE l = k
      BY <1>1, <1>2, <2>1, <2>2
    <2>3. CASE l = k + 1 /\ l # k
      <3> DEFINE x == Stage(stages[k + 1].disk, stages[k].engine)
      <3>1. x \in S
        BY <2>1, <2>3 DEF Sound, Writes
      <3>2. x.disk = disk' /\ x.engine = engine'
        BY <2>1, <2>3 DEF Stage
      <3> QED
        BY <3>1, <3>2
    <2> QED
      BY <2>2, <2>3
  <1>5. CASE Crashes(stages)
    BY <1>1, <1>2, <1>5 DEF Crashes
  <1> QED
    BY <1>3, <1>4, <1>5

\* The same of an engine that is being opened: it is open if all went well.
LEMMA OpeningOutcome ==
    ASSUME NEW S, NEW stages, Sound(stages, S), ~Open,
           Completes(stages) \/ Fails(stages) \/ Crashes(stages)
    PROVE  \/ /\ engine' = Closed
              /\ \E x \in S : disk' = x.disk
           \/ disk' = Last(stages).disk /\ engine' = Last(stages).engine
  <1>1. stages \in Seq(S) /\ Len(stages) \in Nat \ {0}
    BY DEF Sound
  <1>2. \A k \in 1 .. Len(stages) : stages[k] \in S
    BY <1>1
  <1>3. CASE Completes(stages)
    BY <1>3 DEF Completes
  <1>4. CASE Fails(stages)
    <2>1. PICK k \in 1 .. Len(stages) - 1 : \E l \in {k, k + 1} :
             disk' = stages[l].disk /\ engine' = Closed
      BY <1>4 DEF Fails
    <2>2. k \in 1 .. Len(stages) /\ k + 1 \in 1 .. Len(stages)
      BY <1>1, <2>1
    <2> QED
      BY <1>2, <2>1, <2>2
  <1>5. CASE Crashes(stages)
    BY <1>1, <1>2, <1>5 DEF Crashes
  <1> QED
    BY <1>3, <1>4, <1>5
-----------------------------------------------------------------------------
(***************************************************************************)
(* commit_state.                                                           *)
(***************************************************************************)

\* What the invariant says of a graph is about its jobs and its runs, and of
\* the disk about the memories and their journal.
LEMMA GraphInvOf ==
    ASSUME NEW v, NEW g, NEW h, NEW d, NEW e, GraphInv(g, d, v),
           h.jobs = g.jobs, h.runs = g.runs,
           e.memory = d.memory, e.upserts = d.upserts, e.deletes = d.deletes
    PROVE  GraphInv(h, e, v)
  BY DEF GraphInv, Current

\* A graph is its own successor.
LEMMA SuccessorOfItself ==
    ASSUME NEW v, NEW g \in GraphType
    PROVE  Successor(g, g, v)
  <1>1. \A j \in Jobs : g.jobs[j] \in JobType \cup {NoJob}
    BY DEF GraphType
  <1>2. \A job \in JobType : job.left \in Nat
    BY JobConstants DEF JobType
  <1> QED
    BY <1>1, <1>2 DEF Successor, KeepsCompleted, KeepsGrant

\* A new graph takes the place of a graph on disk, or of all of them.
LEMMA StageOf ==
    ASSUME NEW v, NEW mode, NEW x \in Stages(v, mode),
           NEW g \in GraphType, GraphInv(g, x.disk, v),
           mode = "open" => Successor(x.engine, g, v),
           NEW main, NEW pending, NEW e,
           \/ main = x.disk.main /\ pending = g /\ e = x.engine
           \/ main = g /\ pending \in {g, NoGraph} /\ e \in {x.engine, g}
    PROVE  Stage([x.disk EXCEPT !.main = main, !.pending = pending], e)
             \in Stages(v, mode)
  <1> DEFINE d == x.disk
             f == [d EXCEPT !.main = main, !.pending = pending]
             y == Stage(f, e)
  <1>1. /\ d \in DiskType /\ x.engine \in GraphType
        /\ DiskInv(d, v) /\ GraphInv(x.engine, d, v)
        /\ mode = "open" => Successor(x.engine, d.main, v)
    BY DEF Stages, StageType
  <1>2. /\ d.main \in GraphType /\ d.memory \in [Sources -> Versions]
        /\ d.upserts \subseteq Sources \X Versions /\ d.deletes \subseteq Sources
    BY <1>1 DEF DiskType
  <1>3. /\ f \in DiskType
        /\ f.main = main /\ f.pending = pending /\ f.memory = d.memory
        /\ f.upserts = d.upserts /\ f.deletes = d.deletes
    BY <1>1, <1>2 DEF DiskType
  <1>4. y \in StageType /\ y.disk = f /\ y.engine = e
    BY <1>1, <1>3 DEF Stage, StageType
  <1> HIDE DEF f, y
  <1>5. GraphInv(g, f, v) /\ GraphInv(d.main, f, v) /\ GraphInv(x.engine, f, v)
    BY <1>1, <1>3, GraphInvOf DEF DiskInv
  <1>6. DiskInv(f, v)
    BY <1>1, <1>3, <1>5 DEF DiskInv
  <1>7. Successor(g, g, v)
    BY SuccessorOfItself
  <1>8. y \in Stages(v, mode)
    BY <1>1, <1>3, <1>4, <1>5, <1>6, <1>7 DEF Stages
  <1> QED
    BY <1>8 DEF f, y

\* A commit of a sound graph is sound, and ends with the graph everywhere.
LEMMA CommitSound ==
    ASSUME NEW v, NEW mode, NEW stages,
           Sound(stages, Stages(v, mode)),
           NEW next \in GraphType, GraphInv(next, Last(stages).disk, v),
           mode = "open" => Successor(Last(stages).engine, next, v)
    PROVE  LET all == commit_state(stages, next)
               x == Last(all)
           IN /\ Sound(all, Stages(v, mode))
              /\ x \in Stages(v, mode)
              /\ x.engine.jobs = next.jobs /\ x.engine.runs = next.runs
              /\ x.disk.main = x.engine /\ x.disk.pending = NoGraph
              /\ x.disk.memory = Last(stages).disk.memory
              /\ x.disk.upserts = Last(stages).disk.upserts
              /\ x.disk.deletes = Last(stages).disk.deletes
  <1> DEFINE S == Stages(v, mode)
             x == Last(stages)
             d == x.disk
             e == x.engine
             g == [next EXCEPT !.generation = (e.generation + 1) % 2]
             a == Stage([d EXCEPT !.pending = g], e)
             b == Stage([d EXCEPT !.main = g, !.pending = g], g)
             c == Stage([d EXCEPT !.main = g, !.pending = NoGraph], g)
  <1>1. x \in S
    BY LastSound
  <1>2. d \in DiskType /\ e \in GraphType
    BY <1>1 DEF Stages, StageType
  <1>3. g \in GraphType /\ g.jobs = next.jobs /\ g.runs = next.runs
    BY <1>2 DEF GraphType
  <1>4. GraphInv(g, d, v)
    BY <1>3, GraphInvOf
  <1>5. mode = "open" => Successor(e, g, v)
    BY <1>3 DEF Successor
  <1>6. /\ commit_state(stages, next) = stages \o <<a, b, c>>
    BY <1>2 DEF commit_state, DiskType
  <1>7. [d EXCEPT !.pending = g] = [d EXCEPT !.main = d.main, !.pending = g]
    BY <1>2 DEF DiskType
  <1> HIDE DEF S, x, g
  <1>8. /\ a \in S /\ b \in S /\ c \in S
        /\ Stage([d EXCEPT !.main = g, !.pending = g], e) \in S
    <2>1. ASSUME NEW main, NEW pending, NEW f,
                 \/ main = d.main /\ pending = g /\ f = e
                 \/ main = g /\ pending \in {g, NoGraph} /\ f \in {e, g}
          PROVE  Stage([d EXCEPT !.main = main, !.pending = pending], f) \in S
      BY <1>1, <1>3, <1>4, <1>5, <2>1, StageOf, ZenonT(30) DEF S
    <2>2. a \in S
      BY <1>7, <2>1, ZenonT(30)
    <2>3. b \in S
      BY <2>1, ZenonT(30)
    <2>4. c \in S
      BY <2>1, ZenonT(30)
    <2>5. Stage([d EXCEPT !.main = g, !.pending = g], e) \in S
      BY <2>1, ZenonT(30)
    <2> QED
      BY <2>2, <2>3, <2>4, <2>5
  <1>9. a.engine = e /\ b.engine = g /\ c.engine = g
        /\ Stage(b.disk, a.engine) = Stage([d EXCEPT !.main = g, !.pending = g], e)
        /\ Stage(a.disk, e) = a /\ Stage(c.disk, b.engine) = c
    BY DEF Stage
  <1>10. /\ c.disk.main = g /\ c.disk.pending = NoGraph
         /\ c.disk.memory = d.memory /\ c.disk.upserts = d.upserts
         /\ c.disk.deletes = d.deletes
    BY <1>2 DEF Stage, DiskType
  <1> HIDE DEF a, b, c
  <1> DEFINE s1 == Append(stages, a)
             s2 == Append(s1, b)
             s3 == Append(s2, c)
  <1>11. Sound(s1, S) /\ Last(s1) = a
    BY <1>8, <1>9, AppendSound DEF S, x
  <1>12. Sound(s2, S) /\ Last(s2) = b
    BY <1>8, <1>9, <1>11, AppendSound
  <1>13. Sound(s3, S) /\ Last(s3) = c
    BY <1>8, <1>9, <1>12, AppendSound
  <1>14. stages \o <<a, b, c>> = s3
    BY <1>8 DEF Sound, S
  <1> QED
    BY <1>3, <1>6, <1>8, <1>9, <1>10, <1>13, <1>14 DEF S, x
-----------------------------------------------------------------------------
(***************************************************************************)
(* What a handler does to one job.                                         *)
(***************************************************************************)

\* The step of a job from "o" to "n": what the invariant asks of the durable
\* graph that "n" is in, if the engine still has "o".
Follows(j, o, n, v) == KeepsCompleted(j, o, n, v) /\ KeepsGrant(j, o, n, v)

\* A job stays as it is.
LEMMA JobStays ==
    ASSUME NEW v, NEW j, NEW o \in JobType \cup {NoJob}
    PROVE  Follows(j, o, o, v)
  <1>1. o # NoJob => o.left \in Nat
    BY JobConstants DEF JobType
  <1> QED
    BY <1>1 DEF Follows, KeepsCompleted, KeepsGrant

\* An unfinished job fails or is cancelled (ended).
LEMMA JobEnds ==
    ASSUME NEW v, NEW j, NEW run,
           NEW o \in JobType, JobInv(j, o, run, v), o.state \notin terminal,
           NEW n \in JobType, n.state \in {"failed", "cancelled"},
           n.token = NoToken, n.fence = o.fence, n.wait = 0, n.epoch = o.epoch
    PROVE  JobInv(j, n, run, v) /\ Follows(j, o, n, v)
  <1>1. o # NoJob /\ n # NoJob
    BY Shapes
  <1>2. JobTyped(j, n, v)
    BY <1>1 DEF JobInv, JobTyped, terminal, active
  <1>3. RunTyped(n, run)
    BY <1>1 DEF JobInv, RunTyped, terminal
  <1>4. KeepsCancel(j, n, v)
    BY DEF KeepsCancel
  <1>5. KeepsResult(j, n, v)
    BY <1>1 DEF JobInv, KeepsResult, terminal
  <1>6. KeepsLease(j, n, v)
    BY DEF KeepsLease, terminal
  <1>7. Follows(j, o, n, v)
    BY <1>1 DEF Follows, KeepsCompleted, KeepsGrant, terminal
  <1> QED
    BY <1>2, <1>3, <1>4, <1>5, <1>6, <1>7 DEF JobInv

\* A leased job is queued again (queue_or_fail_job): its lease has expired or
\* its worker has just reported.
LEMMA JobQueued ==
    ASSUME NEW v, EnvInv(v), NEW j, NEW run,
           NEW o \in JobType, JobInv(j, o, run, v), o.state \in active, ~o.cancel,
           \/ o.left = 0
           \/ /\ v.worker[o.token.worker].left = 0
              /\ v.worker[o.token.worker].job # None,
           NEW n \in JobType, n.state = "queued", n.token = NoToken,
           n.fence = o.fence, n.epoch = o.epoch
    PROVE  JobInv(j, n, run, v) /\ Follows(j, o, n, v)
  <1>1. o # NoJob /\ n # NoJob
    BY Shapes
  <1>2. JobTyped(j, n, v)
    BY <1>1 DEF JobInv, JobTyped, terminal, active
  <1>3. RunTyped(n, run)
    BY <1>1 DEF JobInv, RunTyped, active
  <1>4. KeepsCancel(j, n, v)
    BY <1>1 DEF JobInv, KeepsCancel, active
  <1>5. KeepsResult(j, n, v)
    BY <1>1 DEF JobInv, KeepsResult, active
  <1>6. KeepsLease(j, n, v)
    <2>1. SUFFICES ASSUME NEW w \in Workers, v.worker[w].job = j,
                          v.worker[w].left > 0, n.epoch = v.worker[w].token.epoch
                   PROVE  FALSE
      BY DEF KeepsLease
    <2>2. /\ o.token = v.worker[w].token
          /\ v.worker[w].left <= o.left
      BY <1>1, <2>1 DEF JobInv, KeepsLease, terminal, active
    <2>3. /\ v.worker[w].left \in 0 .. Ttl
          /\ v.worker[w].job = None => v.worker[w].left = 0
          /\ v.worker[w].job # None => v.worker[w].token.worker = w
      BY DEF EnvInv, WorkerInv
    <2>4. o.left \in 0 .. Ttl /\ Ttl \in Nat
      BY JobConstants DEF JobType
    <2> QED
      BY <2>1, <2>2, <2>3, <2>4
  <1>7. Follows(j, o, n, v)
    BY <1>1 DEF Follows, KeepsCompleted, KeepsGrant, terminal, active
  <1> QED
    BY <1>2, <1>3, <1>4, <1>5, <1>6, <1>7 DEF JobInv

\* A queued job is claimed (claim_job).
LEMMA JobClaimed ==
    ASSUME NEW v, NEW j, NEW run,
           NEW o \in JobType, JobInv(j, o, run, v), o.state = "queued", ~o.cancel,
           NEW n \in JobType, n.state = "claimed", n.token \in Tokens,
           n.token.epoch = o.epoch, n.fence = o.fence, n.wait = 0, n.epoch = o.epoch
    PROVE  JobInv(j, n, run, v) /\ Follows(j, o, n, v)
  <1>1. o # NoJob /\ n # NoJob /\ n.token # NoToken
    BY Shapes
  <1>2. JobTyped(j, n, v)
    BY <1>1 DEF JobInv, JobTyped, terminal, active
  <1>3. RunTyped(n, run)
    BY <1>1 DEF JobInv, RunTyped
  <1>4. KeepsCancel(j, n, v)
    BY <1>1 DEF JobInv, KeepsCancel, active
  <1>5. KeepsResult(j, n, v)
    BY <1>1 DEF JobInv, KeepsResult
  <1>6. KeepsLease(j, n, v)
    BY <1>1 DEF JobInv, KeepsLease, terminal, active
  <1>7. Follows(j, o, n, v)
    BY <1>1 DEF Follows, KeepsCompleted, KeepsGrant, active
  <1> QED
    BY <1>2, <1>3, <1>4, <1>5, <1>6, <1>7 DEF JobInv

\* A lease goes on: it is renewed, or marked to be cancelled (renew_job,
\* cancel_job).
LEMMA JobKept ==
    ASSUME NEW v, EnvInv(v), NEW j, NEW run,
           NEW o \in JobType, JobInv(j, o, run, v), o.state \in active,
           NEW n \in JobType, n.state \in active, n.token = o.token,
           o.left <= n.left, o.cancel => n.cancel,
           n.fence = o.fence, n.wait = o.wait, n.epoch = o.epoch
    PROVE  JobInv(j, n, run, v) /\ Follows(j, o, n, v)
  <1>1. o # NoJob /\ n # NoJob
    BY Shapes
  <1>2. JobTyped(j, n, v)
    BY <1>1 DEF JobInv, JobTyped, active
  <1>3. RunTyped(n, run)
    BY <1>1 DEF JobInv, RunTyped, active
  <1>4. KeepsCancel(j, n, v)
    BY <1>1 DEF JobInv, KeepsCancel, active
  <1>5. KeepsResult(j, n, v)
    BY <1>1 DEF JobInv, KeepsResult, active
  <1>6. KeepsLease(j, n, v)
    <2>1. SUFFICES ASSUME NEW w \in Workers, v.worker[w].job = j,
                          v.worker[w].left > 0, n.epoch = v.worker[w].token.epoch
                   PROVE  /\ n.token = v.worker[w].token
                          /\ v.worker[w].left <= n.left
      BY DEF KeepsLease
    <2>2. /\ o.token = v.worker[w].token
          /\ v.worker[w].left <= o.left
      BY <1>1, <2>1 DEF JobInv, KeepsLease, terminal, active
    <2>3. v.worker[w].left \in 0 .. Ttl
      BY DEF EnvInv, WorkerInv
    <2>4. o.left \in 0 .. Ttl /\ n.left \in 0 .. Ttl /\ Ttl \in Nat
      BY JobConstants DEF JobType
    <2> QED
      BY <2>2, <2>3, <2>4
  <1>7. Follows(j, o, n, v)
    BY <1>1 DEF Follows, KeepsCompleted, KeepsGrant, active
  <1> QED
    BY <1>2, <1>3, <1>4, <1>5, <1>6, <1>7 DEF JobInv

\* A leased job is completed, and its run is stored (finish_job, apply_upsert).
LEMMA JobCompleted ==
    ASSUME NEW v, NEW j, NEW run,
           NEW o \in JobType, JobInv(j, o, run, v), o.state \in active, ~o.cancel,
           NEW m \in Materials,
           NEW n \in JobType, n.state = "completed", n.token = NoToken,
           IsFence(n.fence, o.token, m), n.wait = 0,
           n.epoch = o.epoch,
           NEW ran, ran.material = m
    PROVE  JobInv(j, n, ran, v) /\ Follows(j, o, n, v)
  <1>0. n.fence = [token |-> o.token, material |-> m]
    BY DEF IsFence
  <1>1. o # NoJob /\ n # NoJob /\ m # None
    BY Shapes, JobConstants
  <1>2. o.token \in Tokens
    BY <1>1 DEF JobType, JobInv, JobTyped
  <1>3. n.fence # NoFence
    BY <1>0, <1>2, Shapes
  <1>4. JobTyped(j, n, v)
    BY <1>0, <1>1, <1>3 DEF JobInv, JobTyped, terminal, active
  <1>5. RunTyped(n, ran)
    BY <1>0, <1>1 DEF RunTyped
  <1>6. KeepsCancel(j, n, v)
    BY <1>1 DEF JobInv, KeepsCancel, active
  <1>7. KeepsResult(j, n, v)
    BY <1>0, <1>1 DEF JobInv, KeepsResult, active
  <1>8. KeepsLease(j, n, v)
    BY DEF KeepsLease, terminal
  <1>9. Follows(j, o, n, v)
    BY <1>1 DEF Follows, KeepsCompleted, KeepsGrant, terminal, active
  <1> QED
    BY <1>4, <1>5, <1>6, <1>7, <1>8, <1>9 DEF JobInv
-----------------------------------------------------------------------------
(***************************************************************************)
(* The same of the operators of the module.                                *)
(***************************************************************************)

\* A job whose lease is cleared, and one that has ended, are jobs.
LEMMA ClearedType ==
    ASSUME NEW o \in JobType,
           NEW state \in {"queued"} \cup active \cup terminal, NEW wait \in 0 .. 2
    PROVE  /\ cleared(o) \in JobType
           /\ [cleared(o) EXCEPT !.state = state, !.wait = wait] \in JobType
  <1>1. 0 \in 0 .. Ttl
    BY JobConstants
  <1>2. cleared(o) \in JobType
    BY <1>1 DEF JobType, cleared
  <1> QED
    BY <1>2 DEF JobType

\* A job that fails or is cancelled.
LEMMA EndedJob ==
    ASSUME NEW v, NEW j, NEW run,
           NEW o \in JobType, JobInv(j, o, run, v), o.state \notin terminal,
           NEW state \in {"failed", "cancelled"}, NEW cancel \in BOOLEAN
    PROVE  LET n == [ended(o, state) EXCEPT !.cancel = cancel]
           IN n \in JobType /\ JobInv(j, n, run, v) /\ Follows(j, o, n, v)
  <1> DEFINE n == [ended(o, state) EXCEPT !.cancel = cancel]
  <1>1. n \in JobType
    <2>1. state \in {"queued"} \cup active \cup terminal /\ 0 \in 0 .. 2
      BY DEF terminal
    <2>2. [cleared(o) EXCEPT !.state = state, !.wait = 0] \in JobType
      BY <2>1, ClearedType, ZenonT(30)
    <2>3. ended(o, state) \in JobType
      BY <2>2 DEF ended
    <2> QED
      BY <2>3 DEF JobType
  <1>2. /\ n.state = state /\ n.token = NoToken /\ n.fence = o.fence
        /\ n.wait = 0 /\ n.epoch = o.epoch
    BY DEF JobType, ended, cleared
  <1> HIDE DEF n
  <1>3. n \in JobType /\ JobInv(j, n, run, v) /\ Follows(j, o, n, v)
    BY <1>1, <1>2, JobEnds
  <1> QED
    BY <1>3 DEF n

\* ended leaves the mark of a cancellation as it is.
LEMMA EndedKeepsMark ==
    ASSUME NEW o \in JobType, NEW state
    PROVE  /\ ended(o, state) = [ended(o, state) EXCEPT !.cancel = o.cancel]
           /\ o.cancel \in BOOLEAN
  BY DEF JobType, ended, cleared

\* A lease that nobody holds any longer is queued again, or its job fails.
LEMMA QueuedOrFailed ==
    ASSUME NEW v, EnvInv(v), NEW j, NEW run,
           NEW o \in JobType, JobInv(j, o, run, v), o.state \in active, ~o.cancel,
           \/ o.left = 0
           \/ /\ v.worker[o.token.worker].left = 0
              /\ v.worker[o.token.worker].job # None
    PROVE  LET n == queue_or_fail_job(o)
           IN n \in JobType /\ JobInv(j, n, run, v) /\ Follows(j, o, n, v)
  <1>1. CASE o.attempts < MaxAttempts
    <2> DEFINE n == [cleared([o EXCEPT !.cancel = FALSE]) EXCEPT
                       !.state = "queued", !.wait = retry_delay_ms(o.attempts)]
    <2>1. queue_or_fail_job(o) = n
      BY <1>1 DEF queue_or_fail_job, JobType
    <2>2. n \in JobType
      <3>1. [o EXCEPT !.cancel = FALSE] \in JobType
        BY DEF JobType
      <3>2. retry_delay_ms(o.attempts) \in 0 .. 2
        BY DEF retry_delay_ms
      <3> QED
        BY <3>1, <3>2, ClearedType, ZenonT(30)
    <2>3. /\ n.state = "queued" /\ n.token = NoToken /\ n.fence = o.fence
          /\ n.epoch = o.epoch
      BY DEF JobType, cleared
    <2> HIDE DEF n
    <2>4. n \in JobType /\ JobInv(j, n, run, v) /\ Follows(j, o, n, v)
      BY <2>2, <2>3, JobQueued
    <2> QED
      BY <2>1, <2>4
  <1>2. CASE ~(o.attempts < MaxAttempts)
    <2>1. queue_or_fail_job(o) = [ended(o, "failed") EXCEPT !.cancel = FALSE]
      BY <1>2 DEF queue_or_fail_job, ended, cleared, JobType
    <2>2. o.state \notin terminal
      BY DEF active, terminal
    <2> DEFINE n == [ended(o, "failed") EXCEPT !.cancel = FALSE]
    <2>3. n \in JobType /\ JobInv(j, n, run, v) /\ Follows(j, o, n, v)
      BY <2>2, EndedJob
    <2> HIDE DEF n
    <2> QED
      BY <2>1, <2>3 DEF n
  <1> QED
    BY <1>1, <1>2

\* recover_expired_jobs, of one job.
LEMMA RecoveredJob ==
    ASSUME NEW v, EnvInv(v), NEW jobs, NEW j \in Jobs, NEW run,
           jobs[j] \in JobType \cup {NoJob}, JobInv(j, jobs[j], run, v)
    PROVE  LET o == jobs[j]
               n == recover_expired_jobs(jobs)[j]
           IN /\ n \in JobType \cup {NoJob} /\ JobInv(j, n, run, v)
              /\ Follows(j, o, n, v)
              /\ \/ n = o
                 \/ /\ o.state \in active /\ o.left = 0
                    /\ n.state \notin active \cup {"completed"}
              /\ n = NoJob <=> o = NoJob
              /\ n.state \in active => n.left > 0
              /\ n.epoch = o.epoch
  <1> DEFINE o == jobs[j]
             n == recover_expired_jobs(jobs)[j]
             late == o.state \in active /\ ~(o.left > 0)
  <1>1. n = IF ~late THEN o ELSE IF o.cancel THEN ended(o, "cancelled")
            ELSE queue_or_fail_job(o)
    BY DEF recover_expired_jobs
  <1>2. NoJob.state \notin active
    BY DEF NoJob, None, active
  <1>3. o \in JobType => o.left \in Nat /\ o.cancel \in BOOLEAN
    BY JobConstants DEF JobType
  <1> HIDE DEF n, o
  <1>4. CASE ~late
    <2>1. n = o
      BY <1>1, <1>4
    <2>2. /\ n \in JobType \cup {NoJob} /\ JobInv(j, n, run, v)
          /\ Follows(j, o, n, v)
      BY <2>1, JobStays DEF o
    <2>3. n.state \in active => n.left > 0
      BY <1>4, <2>1
    <2> QED
      BY <2>1, <2>2, <2>3 DEF o, n
  <1>5. CASE late
    <2>1. o \in JobType /\ o.left = 0 /\ JobInv(j, o, run, v) /\ o.state \notin terminal
      BY <1>2, <1>3, <1>5 DEF o, active, terminal
    <2>2. CASE o.cancel
      <3>1. n = [ended(o, "cancelled") EXCEPT !.cancel = o.cancel]
        BY <1>1, <1>5, <2>1, <2>2, EndedKeepsMark
      <3>2. n \in JobType /\ JobInv(j, n, run, v) /\ Follows(j, o, n, v)
        BY <1>3, <2>1, <3>1, EndedJob
      <3>3. n.state = "cancelled" /\ n.epoch = o.epoch
        BY <2>1, <3>1 DEF ended, cleared, JobType
      <3> QED
        BY <1>5, <2>1, <3>2, <3>3, Shapes DEF active, o, n
    <2>3. CASE ~o.cancel
      <3>1. n = queue_or_fail_job(o)
        BY <1>1, <1>5, <2>3
      <3>2. n \in JobType /\ JobInv(j, n, run, v) /\ Follows(j, o, n, v)
        BY <1>5, <2>1, <2>3, <3>1, QueuedOrFailed
      <3>3. n.state \in {"queued", "failed"} /\ n.epoch = o.epoch
        BY <2>1, <3>1 DEF queue_or_fail_job, ended, cleared, JobType
      <3> QED
        BY <1>5, <2>1, <3>2, <3>3, Shapes DEF active, o, n
    <2> QED
      BY <2>2, <2>3
  <1> QED
    BY <1>4, <1>5

\* A step after the recovery is a step of the job as it was: what the engine
\* may have promised of a job is not about one whose lease has run out.
LEMMA AfterRecovery ==
    ASSUME NEW v, NEW jobs, NEW j \in Jobs, NEW r, NEW n,
           \/ r = jobs[j]
           \/ jobs[j] \in JobType /\ jobs[j].state \in active /\ jobs[j].left = 0,
           Follows(j, r, n, v)
    PROVE  Follows(j, jobs[j], n, v)
  <1>1. CASE r = jobs[j]
    BY <1>1
  <1>2. CASE jobs[j].state \in active /\ jobs[j].left = 0
    BY <1>2 DEF Follows, KeepsCompleted, KeepsGrant, active
  <1> QED
    BY <1>1, <1>2
-----------------------------------------------------------------------------
(***************************************************************************)
(* The graph after a change of its jobs.                                   *)
(***************************************************************************)

\* The jobs of a graph with its expired leases recovered.
LEMMA RecoveredGraph ==
    ASSUME NEW v, EnvInv(v), NEW mode, NEW x \in Stages(v, mode)
    PROVE  LET g == x.engine
               next == [g EXCEPT !.jobs = recover_expired_jobs(@)]
           IN /\ next \in GraphType /\ GraphInv(next, x.disk, v)
              /\ Successor(g, next, v)
  <1> DEFINE g == x.engine
             jobs == recover_expired_jobs(g.jobs)
             next == [g EXCEPT !.jobs = jobs]
  <1>1. g \in GraphType /\ GraphInv(g, x.disk, v)
    BY DEF Stages, StageType
  <1>2. /\ g.jobs \in [Jobs -> JobType \cup {NoJob}] /\ g.runs \in [Jobs -> RunType]
        /\ g.generation \in {0, 1}
    BY <1>1 DEF GraphType
  <1>3. \A j \in Jobs : JobInv(j, g.jobs[j], g.runs[j], v)
    BY <1>1 DEF GraphInv
  <1>4. \A j \in Jobs : /\ jobs[j] \in JobType \cup {NoJob}
                        /\ JobInv(j, jobs[j], g.runs[j], v)
                        /\ Follows(j, g.jobs[j], jobs[j], v)
    <2>1. SUFFICES ASSUME NEW j \in Jobs
                   PROVE  /\ jobs[j] \in JobType \cup {NoJob}
                          /\ JobInv(j, jobs[j], g.runs[j], v)
                          /\ Follows(j, g.jobs[j], jobs[j], v)
      OBVIOUS
    <2>2. g.jobs[j] \in JobType \cup {NoJob} /\ JobInv(j, g.jobs[j], g.runs[j], v)
      BY <1>2, <1>3
    <2> QED
      BY <2>2, RecoveredJob
  <1>5. jobs \in [Jobs -> JobType \cup {NoJob}]
    <2>1. jobs = [j \in Jobs |-> jobs[j]]
      BY DEF recover_expired_jobs
    <2> HIDE DEF jobs
    <2> QED
      BY <1>4, <2>1
  <1> HIDE DEF jobs
  <1>6. next \in GraphType /\ next.jobs = jobs /\ next.runs = g.runs
    BY <1>1, <1>5 DEF GraphType
  <1> HIDE DEF next
  <1>7. GraphInv(next, x.disk, v)
    BY <1>1, <1>4, <1>6 DEF GraphInv
  <1>8. Successor(g, next, v)
    BY <1>4, <1>6 DEF Successor, Follows
  <1> QED
    BY <1>6, <1>7, <1>8 DEF next, jobs

\* One job of a graph changes, and with it its run, after the recovery of the
\* leases or without it.
LEMMA ChangedGraph ==
    ASSUME NEW v, EnvInv(v), NEW mode, NEW x \in Stages(v, mode),
           NEW jobs \in {x.engine.jobs, recover_expired_jobs(x.engine.jobs)},
           NEW j \in Jobs, NEW n \in JobType, NEW ran \in RunType,
           JobInv(j, n, ran, v), Follows(j, jobs[j], n, v),
           \A p \in ran.evidence : Current(p, x.disk),
           NEW next \in GraphType,
           \A i \in Jobs : next.jobs[i] = IF i = j THEN n ELSE jobs[i],
           \A i \in Jobs : next.runs[i] = IF i = j THEN ran ELSE x.engine.runs[i]
    PROVE  GraphInv(next, x.disk, v) /\ Successor(x.engine, next, v)
  <1> DEFINE g == x.engine
  <1>1. g \in GraphType /\ GraphInv(g, x.disk, v)
    BY DEF Stages, StageType
  <1>2. /\ g.jobs \in [Jobs -> JobType \cup {NoJob}] /\ g.runs \in [Jobs -> RunType]
    BY <1>1 DEF GraphType
  <1>3. \A i \in Jobs : JobInv(i, g.jobs[i], g.runs[i], v)
    BY <1>1 DEF GraphInv
  <1>4. ASSUME NEW i \in Jobs
        PROVE  /\ JobInv(i, jobs[i], g.runs[i], v)
               /\ Follows(i, g.jobs[i], jobs[i], v)
               /\ \/ jobs[i] = g.jobs[i]
                  \/ /\ g.jobs[i] \in JobType /\ g.jobs[i].state \in active
                     /\ g.jobs[i].left = 0
    <2>1. g.jobs[i] \in JobType \cup {NoJob} /\ JobInv(i, g.jobs[i], g.runs[i], v)
      BY <1>2, <1>3
    <2>2. CASE jobs = g.jobs
      BY <2>1, <2>2, JobStays
    <2>3. CASE jobs = recover_expired_jobs(g.jobs)
      <3>1. g.jobs[i].state \in active => g.jobs[i] \in JobType
        BY <2>1 DEF NoJob, None, active
      <3> QED
        BY <2>1, <2>3, <3>1, RecoveredJob
    <2> QED
      BY <2>2, <2>3
  <1>5. Follows(j, g.jobs[j], n, v)
    BY <1>4, AfterRecovery
  <1>6. \A i \in Jobs : JobInv(i, next.jobs[i], next.runs[i], v)
    BY <1>4
  <1>7. \A i \in Jobs : \A p \in next.runs[i].evidence : Current(p, x.disk)
    BY <1>1 DEF GraphInv
  <1>8. \A i \in Jobs : Follows(i, g.jobs[i], next.jobs[i], v)
    BY <1>4, <1>5
  <1> QED
    BY <1>6, <1>7, <1>8 DEF GraphInv, Successor, Follows

\* The same of the graphs that the handlers write.
LEMMA WithJobGraph ==
    ASSUME NEW g \in GraphType, NEW jobs \in [Jobs -> JobType \cup {NoJob}],
           NEW j \in Jobs, NEW n \in JobType
    PROVE  LET next == WithJob([g EXCEPT !.jobs = jobs], j, n)
           IN /\ next \in GraphType
              /\ next.jobs = [i \in Jobs |-> IF i = j THEN n ELSE jobs[i]]
              /\ next.runs = g.runs
  <1> DEFINE base == [g EXCEPT !.jobs = jobs]
             new == [i \in Jobs |-> IF i = j THEN n ELSE jobs[i]]
             next == [base EXCEPT !.jobs = new]
  <1>1. base \in GraphType /\ base.jobs = jobs /\ base.runs = g.runs
    BY DEF GraphType
  <1>2. WithJob(base, j, n) = next
    <2> HIDE DEF base
    <2> QED
      BY <1>1 DEF WithJob, GraphType
  <1>3. new \in [Jobs -> JobType \cup {NoJob}]
    OBVIOUS
  <1> HIDE DEF base, new
  <1>4. next \in GraphType /\ next.jobs = new /\ next.runs = g.runs
    BY <1>1, <1>3 DEF GraphType
  <1> QED
    BY <1>2, <1>4 DEF base, new

\* A graph with its own jobs is the graph.
LEMMA OwnJobs ==
    ASSUME NEW g \in GraphType
    PROVE  /\ [g EXCEPT !.jobs = g.jobs] = g
           /\ g.jobs \in [Jobs -> JobType \cup {NoJob}]
           /\ g.runs \in [Jobs -> RunType]
  BY DEF GraphType

\* A change of one job is a sound transaction.
LEMMA JobCommit ==
    ASSUME NEW v, EnvInv(v), NEW mode, NEW stages,
           Sound(stages, Stages(v, mode)),
           NEW jobs \in {Last(stages).engine.jobs,
                         recover_expired_jobs(Last(stages).engine.jobs)},
           NEW j \in Jobs, NEW n \in JobType,
           JobInv(j, n, Last(stages).engine.runs[j], v), Follows(j, jobs[j], n, v),
           NEW next \in GraphType,
           \A i \in Jobs : next.jobs[i] = IF i = j THEN n ELSE jobs[i],
           next.runs = Last(stages).engine.runs
    PROVE  LET x == Last(stages)
               all == commit_state(stages, next)
               y == Last(all)
           IN /\ Sound(all, Stages(v, mode))
              /\ y \in Stages(v, mode)
              /\ y.engine.jobs = next.jobs /\ y.engine.runs = x.engine.runs
              /\ y.disk.main = y.engine /\ y.disk.pending = NoGraph
              /\ y.disk.memory = x.disk.memory
              /\ y.disk.upserts = x.disk.upserts
              /\ y.disk.deletes = x.disk.deletes
  <1> DEFINE x == Last(stages)
             g == x.engine
             ran == g.runs[j]
  <1>1. x \in Stages(v, mode)
    BY LastSound
  <1>2. g \in GraphType /\ GraphInv(g, x.disk, v)
    BY <1>1 DEF Stages, StageType
  <1>3. ran \in RunType /\ \A p \in ran.evidence : Current(p, x.disk)
    BY <1>2, OwnJobs DEF GraphInv
  <1>4. \A i \in Jobs : next.runs[i] = IF i = j THEN ran ELSE g.runs[i]
    OBVIOUS
  <1> HIDE DEF x
  <1>5. GraphInv(next, x.disk, v) /\ Successor(g, next, v)
    BY <1>1, <1>3, <1>4, ChangedGraph DEF x
  <1> QED
    BY <1>5, CommitSound DEF x

\* recover_job_leases, of the graph that the stages end with.
LEMMA LeasesRecovered ==
    ASSUME NEW v, EnvInv(v), NEW mode, NEW stages,
           Sound(stages, Stages(v, mode))
    PROVE  LET x == Last(stages)
               all == recover_job_leases(stages)
               y == Last(all)
           IN /\ Sound(all, Stages(v, mode))
              /\ y \in Stages(v, mode)
              /\ y.engine.jobs = recover_expired_jobs(x.engine.jobs)
              /\ y.engine.runs = x.engine.runs
              /\ y = x \/ (y.disk.main = y.engine /\ y.disk.pending = NoGraph)
              /\ y.disk.memory = x.disk.memory
              /\ y.disk.upserts = x.disk.upserts
              /\ y.disk.deletes = x.disk.deletes
  <1> DEFINE x == Last(stages)
             g == x.engine
             jobs == recover_expired_jobs(g.jobs)
             next == [g EXCEPT !.jobs = jobs]
  <1>1. x \in Stages(v, mode)
    BY LastSound
  <1>2. CASE jobs = g.jobs
    <2>1. recover_job_leases(stages) = stages
      BY <1>2 DEF recover_job_leases
    <2> QED
      BY <1>1, <1>2, <2>1
  <1>3. CASE jobs # g.jobs
    <2>1. recover_job_leases(stages) = commit_state(stages, next)
      BY <1>3 DEF recover_job_leases
    <2>2. /\ next \in GraphType /\ GraphInv(next, x.disk, v)
          /\ Successor(g, next, v)
      BY <1>1, RecoveredGraph
    <2>3. next.jobs = jobs /\ next.runs = g.runs
      BY <1>1 DEF Stages, StageType, GraphType
    <2> HIDE DEF next, jobs
    <2> QED
      BY <2>1, <2>2, <2>3, CommitSound DEF jobs
  <1> QED
    BY <1>2, <1>3
-----------------------------------------------------------------------------
(***************************************************************************)
(* What the environment knows changes.                                     *)
(***************************************************************************)

\* The graphs on disk, when the invariant of each job goes on to hold.
LEMMA DiskOfEnv ==
    ASSUME NEW v, NEW w, NEW d, DiskInv(d, v),
           \A j \in Jobs, job \in JobType \cup {NoJob}, run \in RunType :
               JobInv(j, job, run, v) => JobInv(j, job, run, w)
    PROVE  DiskInv(d, w)
  <1>1. ASSUME NEW g \in GraphType, GraphInv(g, d, v)
        PROVE  GraphInv(g, d, w)
    BY <1>1, OwnJobs DEF GraphInv
  <1>2. d.main \in GraphType /\ (d.pending # NoGraph => d.pending \in GraphType)
    BY DEF DiskInv, DiskType
  <1> QED
    BY <1>1, <1>2 DEF DiskInv

\* A stage.
LEMMA StageOfEnv ==
    ASSUME NEW v, NEW w, NEW mode, NEW x \in Stages(v, mode),
           \A j \in Jobs, job \in JobType \cup {NoJob}, run \in RunType :
               JobInv(j, job, run, v) => JobInv(j, job, run, w),
           \A j \in Jobs, n \in JobType \cup {NoJob} :
               /\ JobInv(j, x.engine.jobs[j], x.engine.runs[j], v)
               /\ Follows(j, x.engine.jobs[j], n, v)
               => Follows(j, x.engine.jobs[j], n, w)
    PROVE  x \in Stages(w, mode)
  <1>1. /\ x.disk \in DiskType /\ x.engine \in GraphType
        /\ DiskInv(x.disk, v) /\ GraphInv(x.engine, x.disk, v)
    BY DEF Stages, StageType
  <1>2. DiskInv(x.disk, w)
    BY <1>1, DiskOfEnv
  <1>3. GraphInv(x.engine, x.disk, w)
    BY <1>1, OwnJobs DEF GraphInv
  <1>4. ASSUME NEW g \in GraphType, Successor(x.engine, g, v)
        PROVE  Successor(x.engine, g, w)
    <2>1. \A j \in Jobs : /\ g.jobs[j] \in JobType \cup {NoJob}
                          /\ JobInv(j, x.engine.jobs[j], x.engine.runs[j], v)
                          /\ Follows(j, x.engine.jobs[j], g.jobs[j], v)
      BY <1>1, <1>4, OwnJobs DEF GraphInv, Successor, Follows
    <2>2. \A j \in Jobs : Follows(j, x.engine.jobs[j], g.jobs[j], w)
      BY <2>1
    <2> QED
      BY <2>2 DEF Successor, Follows
  <1>5. /\ x.disk.main \in GraphType
        /\ x.disk.pending # NoGraph => x.disk.pending \in GraphType
    BY <1>1 DEF DiskType
  <1> QED
    BY <1>1, <1>2, <1>3, <1>4, <1>5 DEF Stages

\* The last stage of a transaction: the same graph is everywhere.
LEMMA SettledStage ==
    ASSUME NEW v, NEW w, NEW mode, NEW x \in Stages(v, mode),
           x.disk.main = x.engine, x.disk.pending = NoGraph,
           \A j \in Jobs : JobInv(j, x.engine.jobs[j], x.engine.runs[j], w)
    PROVE  x \in Stages(w, "open")
  <1>1. /\ x \in StageType /\ x.engine \in GraphType
        /\ DiskInv(x.disk, v) /\ GraphInv(x.engine, x.disk, v)
    BY DEF Stages, StageType
  <1>2. GraphInv(x.engine, x.disk, w)
    BY <1>1 DEF GraphInv
  <1>3. DiskInv(x.disk, w)
    BY <1>1, <1>2 DEF DiskInv
  <1>4. Successor(x.engine, x.disk.main, w)
    BY <1>1, SuccessorOfItself
  <1> QED
    BY <1>1, <1>2, <1>3, <1>4 DEF Stages

\* The invariant holds where a handler of the open engine ends.
LEMMA HandlerEnds ==
    ASSUME Open, EnvInv(Env'),
           NEW stages, Sound(stages, Stages(Env', "open")),
           Completes(stages) \/ Fails(stages) \/ Crashes(stages)
    PROVE  JobsInv'
  <1> DEFINE S == Stages(Env', "open")
  <1>1. \/ engine' = Closed /\ \E x \in S : disk' = x.disk
        \/ \E x \in S : disk' = x.disk /\ engine' = x.engine
    BY OutcomeSound
  <1>2. \A x \in S : DiskInv(x.disk, Env')
    BY DEF Stages
  <1>3. \A x \in S : x = Stage(x.disk, x.engine)
    BY DEF Stages, StageType, Stage
  <1>4. DiskInv(disk', Env')
    BY <1>1, <1>2
  <1>5. engine' # Closed => Stage(disk', engine') \in S
    BY <1>1, <1>3
  <1> QED
    BY <1>4, <1>5 DEF JobsInv, Open

\* The state that a handler of the open engine finds.
LEMMA HandlerStarts ==
    ASSUME JobsInv, Open
    PROVE  /\ Stage(disk, engine) \in Stages(Env, "open")
           /\ Sound(Here, Stages(Env, "open")) /\ Last(Here) = Stage(disk, engine)
           /\ Last(Here).disk = disk /\ Last(Here).engine = engine
           /\ engine \in GraphType /\ GraphInv(engine, disk, Env)
           /\ EnvInv(Env) /\ DiskInv(disk, Env)
  <1>1. Stage(disk, engine) \in Stages(Env, "open")
    BY DEF JobsInv
  <1>2. Sound(Here, Stages(Env, "open")) /\ Last(Here) = Stage(disk, engine)
    BY <1>1, HereSound DEF Here
  <1>3. engine \in GraphType /\ GraphInv(engine, disk, Env)
    BY <1>1 DEF Stages, StageType, Stage
  <1>4. Last(Here).disk = disk /\ Last(Here).engine = engine
    BY <1>2 DEF Stage
  <1> QED
    BY <1>1, <1>2, <1>3, <1>4 DEF JobsInv

\* A call that is not answered teaches nobody anything.
LEMMA UnansweredEnds ==
    ASSUME Open, JobsInv, NEW stages, Sound(stages, Stages(Env, "open")),
           Unanswered(stages)
    PROVE  JobsInv'
  <1>1. Env' = Env /\ EnvInv(Env')
    BY DEF Unanswered, Env, ghosts, JobsInv
  <1>2. Sound(stages, Stages(Env', "open"))
    BY <1>1
  <1> QED
    BY <1>1, <1>2, HandlerEnds DEF Unanswered
-----------------------------------------------------------------------------
(***************************************************************************)
(* The calls about jobs, one by one.                                       *)
(***************************************************************************)

\* graph_extract_job_status.
LEMMA StatusStep ==
    ASSUME JobsInv, graph_extract_job_status
    PROVE  JobsInv'
  <1>1. Open /\ Unanswered(recover_job_leases(Here))
    BY DEF graph_extract_job_status
  <1>2. Sound(recover_job_leases(Here), Stages(Env, "open"))
    BY <1>1, HandlerStarts, LeasesRecovered
  <1> QED
    BY <1>1, <1>2, UnansweredEnds

\* A step of the environment: a job is enqueued again.
LEMMA EpochAdvances ==
    ASSUME NEW v, EnvInv(v), NEW w, EnvInv(w),
           w.worker = v.worker, w.completed = v.completed, w.stopped = v.stopped,
           w.purged = v.purged, \A j \in Jobs : v.epoch[j] <= w.epoch[j],
           NEW mode, NEW x \in Stages(v, mode)
    PROVE  x \in Stages(w, mode)
  <1>1. ASSUME NEW j \in Jobs, NEW job \in JobType \cup {NoJob}, NEW run \in RunType,
               JobInv(j, job, run, v)
        PROVE  JobInv(j, job, run, w)
    <2>1. job # NoJob => job.epoch <= w.epoch[j]
      <3>1. /\ v.epoch[j] \in Nat /\ w.epoch[j] \in Nat
            /\ v.epoch[j] <= w.epoch[j]
        BY JobConstants DEF EnvInv
      <3>2. job # NoJob => job.epoch \in Nat /\ job.epoch <= v.epoch[j]
        BY <1>1 DEF JobInv, JobTyped, JobType
      <3> QED
        BY <3>1, <3>2
    <2>2. JobTyped(j, job, w)
      BY <1>1, <2>1 DEF JobInv, JobTyped
    <2>3. KeepsCancel(j, job, w) /\ KeepsResult(j, job, w) /\ KeepsLease(j, job, w)
      BY <1>1 DEF JobInv, KeepsCancel, KeepsResult, KeepsLease
    <2> QED
      BY <1>1, <2>2, <2>3 DEF JobInv
  <1>2. \A j, o, n : Follows(j, o, n, v) => Follows(j, o, n, w)
    BY DEF Follows, KeepsCompleted, KeepsGrant
  <1> QED
    BY <1>1, <1>2, StageOfEnv

\* A job that is enqueued is a new one: nobody knows of it.
LEMMA JobEnqueued ==
    ASSUME NEW v, EnvInv(v), NEW w, NEW j \in Jobs, NEW run,
           JobInv(j, NoJob, run, v),
           w.worker = v.worker, w.completed = v.completed, w.stopped = v.stopped,
           w.purged = v.purged, w.epoch[j] = v.epoch[j] + 1,
           NEW n \in JobType, n.state = "queued", n.token = NoToken,
           n.fence = NoFence, n.epoch = v.epoch[j] + 1
    PROVE  JobInv(j, n, run, w) /\ Follows(j, NoJob, n, w)
  <1>1. n # NoJob /\ v.epoch[j] \in 0 .. MaxEnqueues /\ v.purged[j] \in Nat
    BY Shapes DEF EnvInv
  <1>2. JobTyped(j, n, w)
    BY <1>1, JobConstants DEF JobTyped, active, terminal
  <1>3. RunTyped(n, run)
    BY <1>1 DEF JobInv, RunTyped
  <1>4. KeepsCancel(j, n, w)
    BY <1>1, JobConstants DEF EnvInv, KeepsCancel
  <1>5. KeepsResult(j, n, w)
    BY <1>1, JobConstants DEF EnvInv, JobInv, KeepsResult
  <1>6. KeepsLease(j, n, w)
    <2>1. SUFFICES ASSUME NEW u \in Workers, v.worker[u].job = j,
                          v.worker[u].left > 0, n.epoch = v.worker[u].token.epoch
                   PROVE  FALSE
      BY DEF KeepsLease
    <2>2. j # None
      <3>1. WorkerInv(u, v) /\ Ttl \in Nat
        BY JobConstants DEF EnvInv
      <3> QED
        BY <2>1, <3>1 DEF WorkerInv
    <2>3. v.worker[u].token.epoch <= v.epoch[j]
      BY <2>1, <2>2 DEF EnvInv, WorkerInv
    <2> QED
      BY <1>1, <2>1, <2>3
  <1>7. Follows(j, NoJob, n, w)
    BY DEF Follows, KeepsCompleted, KeepsGrant
  <1> QED
    BY <1>2, <1>3, <1>4, <1>5, <1>6, <1>7 DEF JobInv

\* The memories of a job, as they are, are its bound sources.
LEMMA BindingType ==
    ASSUME NEW j \in Jobs, disk \in DiskType
    PROVE  binding(j) \in SUBSET (Sources \X Versions)
  <1>1. SourcesOf[j] \subseteq Sources /\ disk.memory \in [Sources -> Versions]
    BY JobConstants DEF DiskType
  <1> QED
    BY <1>1 DEF binding

\* graph_extract_enqueue.
LEMMA EnqueueStep ==
    ASSUME JobsInv, NEW j \in Jobs, graph_extract_enqueue(j)
    PROVE  JobsInv'
  <1> DEFINE n == enqueue_job(j)
             all == commit_state(Here, WithJob(engine, j, n))
  <1>1. /\ Open /\ engine.jobs[j] = NoJob /\ epoch[j] < MaxEnqueues
        /\ Completes(all) \/ Fails(all) \/ Crashes(all)
        /\ epoch' = [epoch EXCEPT ![j] = @ + 1]
        /\ UNCHANGED <<worker, completed, stopped, purged>>
    BY DEF graph_extract_enqueue
  <1>2. /\ Stage(disk, engine) \in Stages(Env, "open")
        /\ engine \in GraphType /\ GraphInv(engine, disk, Env)
        /\ EnvInv(Env) /\ disk \in DiskType
    BY <1>1, HandlerStarts DEF DiskInv
  <1>3. /\ Env.worker = worker /\ Env.epoch = epoch /\ Env.completed = completed
        /\ Env.stopped = stopped /\ Env.purged = purged
        /\ Env'.worker = worker' /\ Env'.epoch = epoch' /\ Env'.completed = completed'
        /\ Env'.stopped = stopped' /\ Env'.purged = purged'
    BY DEF Env
  <1>4. epoch \in [Jobs -> 0 .. MaxEnqueues] /\ MaxEnqueues \in Nat
    BY <1>2, <1>3, JobConstants DEF EnvInv
  <1>5. /\ epoch' \in [Jobs -> 0 .. MaxEnqueues] /\ epoch'[j] = epoch[j] + 1
        /\ \A i \in Jobs : epoch[i] <= epoch'[i]
        /\ \A i \in Jobs : epoch[i] \in Nat /\ epoch'[i] \in Nat
    BY <1>1, <1>4
  <1>6. EnvInv(Env')
    <2>1. \A i \in Jobs : purged'[i] <= epoch'[i] /\ purged'[i] \in Nat
      BY <1>1, <1>2, <1>3, <1>5 DEF EnvInv
    <2>2. \A r \in completed' : r.epoch <= epoch'[r.job]
      BY <1>1, <1>2, <1>3, <1>5 DEF EnvInv
    <2>3. \A p \in stopped' : p[2] <= epoch'[p[1]]
      BY <1>1, <1>2, <1>3, <1>5 DEF EnvInv
    <2>4. ASSUME NEW w \in Workers
          PROVE  WorkerInv(w, Env')
      <3>1. WorkerInv(w, Env)
        BY <1>2 DEF EnvInv
      <3>2. worker[w].token \in Tokens => worker[w].token.epoch \in Nat
        BY DEF Tokens
      <3>3. None \notin Jobs
        BY JobConstants
      <3>4. worker[w].job # None => worker[w].token.epoch <= epoch'[worker[w].job]
        BY <1>3, <1>5, <3>1, <3>2, <3>3 DEF WorkerInv
      <3> QED
        BY <1>1, <1>3, <3>1, <3>4 DEF WorkerInv
    <2>5. Exclusive(Env')
      BY <1>1, <1>2, <1>3 DEF EnvInv, Exclusive
    <2> QED
      BY <1>1, <1>2, <1>3, <1>5, <2>1, <2>2, <2>3, <2>4, <2>5 DEF EnvInv
  <1>7. Stage(disk, engine) \in Stages(Env', "open")
    BY <1>1, <1>2, <1>3, <1>5, <1>6, EpochAdvances
  <1>8. n \in JobType
    <2>1. binding(j) \in SUBSET (Sources \X Versions) /\ epoch[j] + 1 \in 1 .. MaxEnqueues
      BY <1>1, <1>2, <1>4, BindingType
    <2>2. 0 \in 0 .. MaxAttempts /\ 0 \in 0 .. Ttl /\ 0 \in 0 .. 2
      BY JobConstants
    <2> QED
      BY <2>1, <2>2 DEF JobType, enqueue_job
  <1>9. JobInv(j, n, engine.runs[j], Env') /\ Follows(j, engine.jobs[j], n, Env')
    <2>1. JobInv(j, NoJob, engine.runs[j], Env)
      BY <1>1, <1>2 DEF GraphInv
    <2>2. /\ n.state = "queued" /\ n.token = NoToken /\ n.fence = NoFence
          /\ n.epoch = epoch[j] + 1
      BY DEF enqueue_job
    <2> HIDE DEF n
    <2> QED
      BY <1>1, <1>2, <1>3, <1>5, <1>8, <2>1, <2>2, JobEnqueued
  <1>10. /\ Sound(Here, Stages(Env', "open")) /\ Last(Here).engine = engine
    <2>1. Sound(Here, Stages(Env', "open")) /\ Last(Here) = Stage(disk, engine)
      BY <1>7, HereSound DEF Here
    <2>2. Stage(disk, engine).engine = engine
      BY DEF Stage
    <2> QED
      BY <2>1, <2>2
  <1>11. Sound(all, Stages(Env', "open"))
    <2> HIDE DEF n
    <2>1. [engine EXCEPT !.jobs = engine.jobs] = engine
      BY <1>2, OwnJobs
    <2>2. engine.jobs \in [Jobs -> JobType \cup {NoJob}]
      BY <1>2, OwnJobs
    <2> DEFINE next == WithJob([engine EXCEPT !.jobs = engine.jobs], j, n)
    <2>3. /\ next \in GraphType /\ next.runs = engine.runs
          /\ next.jobs = [i \in Jobs |-> IF i = j THEN n ELSE engine.jobs[i]]
      BY <1>2, <1>8, <2>2, WithJobGraph
    <2>4. all = commit_state(Here, next)
      BY <2>1
    <2> HIDE DEF next, all
    <2> QED
      <3>1. \A i \in Jobs : next.jobs[i] = IF i = j THEN n ELSE engine.jobs[i]
        BY <2>3
      <3> QED
        BY <1>6, <1>8, <1>9, <1>10, <2>3, <2>4, <3>1, JobCommit
  <1> HIDE DEF all
  <1> QED
    BY <1>1, <1>6, <1>11, HandlerEnds

\* A stage whose own graphs go on to fit what the environment knows.
LEMMA StageOfGraphs ==
    ASSUME NEW v, NEW w, NEW mode, NEW x \in Stages(v, mode),
           \A g \in {x.engine, x.disk.main, x.disk.pending} \ {NoGraph}, j \in Jobs :
               /\ JobInv(j, g.jobs[j], g.runs[j], w)
               /\ Follows(j, x.engine.jobs[j], g.jobs[j], v)
                  => Follows(j, x.engine.jobs[j], g.jobs[j], w)
    PROVE  x \in Stages(w, mode)
  <1>1. /\ x.disk \in DiskType /\ x.engine \in GraphType
        /\ DiskInv(x.disk, v) /\ GraphInv(x.engine, x.disk, v)
    BY DEF Stages, StageType
  <1>2. x.disk.main # NoGraph /\ x.engine # NoGraph
    BY <1>1, Shapes DEF DiskType
  <1>3. GraphInv(x.engine, x.disk, w) /\ GraphInv(x.disk.main, x.disk, w)
    BY <1>1, <1>2 DEF GraphInv, DiskInv
  <1>4. x.disk.pending # NoGraph => GraphInv(x.disk.pending, x.disk, w)
    BY <1>1 DEF GraphInv, DiskInv
  <1>5. DiskInv(x.disk, w)
    BY <1>1, <1>3, <1>4 DEF DiskInv
  <1>6. mode = "open" => Successor(x.engine, x.disk.main, w)
    <2>1. mode = "open" => Successor(x.engine, x.disk.main, v)
      BY DEF Stages
    <2> QED
      BY <1>2, <2>1 DEF Successor, Follows
  <1>7. mode = "open" /\ x.disk.pending # NoGraph => Successor(x.engine, x.disk.pending, w)
    <2>1. mode = "open" /\ x.disk.pending # NoGraph => Successor(x.engine, x.disk.pending, v)
      BY DEF Stages
    <2> QED
      BY <2>1 DEF Successor, Follows
  <1> QED
    BY <1>1, <1>3, <1>5, <1>6, <1>7 DEF Stages

\* The invariant holds where an answered call ends.
LEMMA AnsweredEnds ==
    ASSUME EnvInv(Env'), NEW x \in Stages(Env', "open"),
           disk' = x.disk, engine' = x.engine
    PROVE  JobsInv'
  <1>1. x = Stage(x.disk, x.engine) /\ DiskInv(x.disk, Env')
    BY DEF Stages, StageType, Stage
  <1> QED
    BY <1>1 DEF JobsInv, Open

\* A worker learns of its lease on job "j", which is "n" in the graph: of
\* another graph, the invariant asks that it keeps this lease.
LEMMA LeaseKnown ==
    ASSUME NEW v, EnvInv(v), NEW u \in Workers, NEW j \in Jobs, NEW run,
           NEW n \in JobType, JobInv(j, n, run, v), n.state \in active,
           n.token.worker = u,
           NEW k, LeaseRecord(k), k.job = j, k.token = n.token, k.left = n.left,
           k.request = v.worker[u].request,
           NEW w, Learns(v, w, u, k)
    PROVE  /\ EnvInv(w)
           /\ \A i, job, ran :
                /\ JobInv(i, job, ran, v)
                /\ i = j /\ job # NoJob /\ job.epoch = n.epoch =>
                      \/ job.state \in terminal
                      \/ /\ job.state \in active /\ job.token = n.token
                         /\ n.left <= job.left
                => JobInv(i, job, ran, w)
  <1>0. /\ w.worker = [v.worker EXCEPT ![u] = k] /\ w.epoch = v.epoch
        /\ w.completed = v.completed /\ w.stopped = v.stopped /\ w.purged = v.purged
    BY DEF Learns
  <1>1. /\ DOMAIN v.worker = Workers
        /\ w.worker[u] = k /\ \A z \in Workers \ {u} : w.worker[z] = v.worker[z]
        /\ DOMAIN w.worker = Workers
    <2>1. DOMAIN v.worker = Workers
      BY DEF EnvInv
    <2> QED
      BY <2>1 DEF Learns
  <1>2. /\ n # NoJob /\ n.token \in Tokens /\ n.token.epoch = n.epoch
        /\ n.epoch <= v.epoch[j] /\ n.left \in 0 .. Ttl /\ j # None
    <2>1. n # NoJob /\ j # None
      BY Shapes, JobConstants
    <2> QED
      BY <2>1 DEF JobInv, JobTyped, JobType
  <1>3. ASSUME NEW z \in Workers
        PROVE  WorkerInv(z, w)
    <2>1. WorkerInv(z, v)
      BY DEF EnvInv
    <2>2. CASE z = u
      BY <1>0, <1>1, <1>2, <2>1, <2>2 DEF WorkerInv
    <2>3. CASE z # u
      <3>1. w.worker[z] = v.worker[z]
        BY <1>1, <2>3
      <3> QED
        BY <1>0, <2>1, <3>1 DEF WorkerInv
    <2> QED
      BY <2>2, <2>3
  <1>4. Exclusive(w)
    <2>1. ASSUME NEW z \in Workers, z # u, v.worker[z].left > 0, v.worker[z].job = j,
                 v.worker[z].token.epoch = n.epoch
          PROVE  FALSE
      <3>1. n.token = v.worker[z].token
        BY <1>2, <2>1 DEF JobInv, KeepsLease, terminal, active
      <3>2. v.worker[z].token.worker = z
        BY <1>2, <2>1 DEF EnvInv, WorkerInv
      <3> QED
        BY <2>1, <3>1, <3>2
    <2>2. \A y, z \in Workers :
            /\ y # z /\ v.worker[y].left > 0 /\ v.worker[z].left > 0
            /\ v.worker[y].job = v.worker[z].job
            => v.worker[y].token.epoch # v.worker[z].token.epoch
      BY DEF EnvInv, Exclusive
    <2>3. SUFFICES ASSUME NEW y \in Workers, NEW z \in Workers, y # z,
                          w.worker[y].left > 0, w.worker[z].left > 0,
                          w.worker[y].job = w.worker[z].job,
                          w.worker[y].token.epoch = w.worker[z].token.epoch
                   PROVE  FALSE
      BY DEF Exclusive
    <2>4. CASE y = u
      BY <1>1, <1>2, <2>1, <2>3, <2>4
    <2>5. CASE z = u
      BY <1>1, <1>2, <2>1, <2>3, <2>5
    <2>6. CASE y # u /\ z # u
      BY <1>1, <2>2, <2>3, <2>6
    <2> QED
      BY <2>4, <2>5, <2>6
  <1>5. EnvInv(w)
    BY <1>0, <1>1, <1>3, <1>4 DEF EnvInv
  <1>6. ASSUME NEW i, NEW job, NEW ran, JobInv(i, job, ran, v),
               i = j /\ job # NoJob /\ job.epoch = n.epoch =>
                  \/ job.state \in terminal
                  \/ /\ job.state \in active /\ job.token = n.token
                     /\ n.left <= job.left
        PROVE  JobInv(i, job, ran, w)
    <2>1. ASSUME NEW z \in Workers, w.worker[z].job = i, w.worker[z].left > 0,
                 job # NoJob, job.epoch = w.worker[z].token.epoch
          PROVE  \/ job.state \in terminal
                 \/ /\ job.state \in active /\ job.token = w.worker[z].token
                    /\ w.worker[z].left <= job.left
      <3>1. CASE z = u
        BY <1>1, <1>2, <1>6, <2>1, <3>1
      <3>2. CASE z # u
        <4>1. w.worker[z] = v.worker[z]
          BY <1>1, <3>2
        <4> QED
          BY <1>6, <2>1, <4>1 DEF JobInv, KeepsLease
      <3> QED
        BY <3>1, <3>2
    <2>2. KeepsLease(i, job, w)
      BY <2>1 DEF KeepsLease
    <2>3. JobTyped(i, job, w) /\ KeepsCancel(i, job, w) /\ KeepsResult(i, job, w)
      BY <1>0, <1>6 DEF JobInv, JobTyped, KeepsCancel, KeepsResult
    <2> QED
      BY <1>6, <2>2, <2>3 DEF JobInv
  <1> QED
    BY <1>5, <1>6

\* The jobs with their expired leases recovered are jobs of a sound graph.
LEMMA HereRecovered ==
    ASSUME JobsInv, Open
    PROVE  LET jobs == recover_expired_jobs(engine.jobs)
           IN /\ jobs \in [Jobs -> JobType \cup {NoJob}]
              /\ \A j \in Jobs : JobInv(j, jobs[j], engine.runs[j], Env)
  <1> DEFINE jobs == recover_expired_jobs(engine.jobs)
  <1>1. engine \in GraphType /\ GraphInv(engine, disk, Env) /\ EnvInv(Env)
    BY HandlerStarts
  <1>2. \A i \in Jobs : /\ engine.jobs[i] \in JobType \cup {NoJob}
                        /\ JobInv(i, engine.jobs[i], engine.runs[i], Env)
    BY <1>1, OwnJobs DEF GraphInv
  <1>3. \A i \in Jobs : /\ jobs[i] \in JobType \cup {NoJob}
                        /\ JobInv(i, jobs[i], engine.runs[i], Env)
    BY <1>1, <1>2, RecoveredJob
  <1>4. jobs = [i \in Jobs |-> jobs[i]]
    BY DEF recover_expired_jobs
  <1> HIDE DEF jobs
  <1> QED
    BY <1>3, <1>4 DEF jobs

\* A handler that changes one job of the graph it finds.
LEMMA HereCommit ==
    ASSUME JobsInv, Open, NEW jobs \in {engine.jobs, recover_expired_jobs(engine.jobs)},
           NEW j \in Jobs, NEW n \in JobType,
           JobInv(j, n, engine.runs[j], Env), Follows(j, jobs[j], n, Env)
    PROVE  LET all == commit_state(Here, WithJob([engine EXCEPT !.jobs = jobs], j, n))
               y == Last(all)
           IN /\ Sound(all, Stages(Env, "open"))
              /\ y \in Stages(Env, "open")
              /\ y.engine.jobs = [i \in Jobs |-> IF i = j THEN n ELSE jobs[i]]
              /\ y.engine.runs = engine.runs
              /\ y.disk.main = y.engine /\ y.disk.pending = NoGraph
              /\ y.disk.memory = disk.memory /\ y.disk.upserts = disk.upserts
              /\ y.disk.deletes = disk.deletes
  <1>1. /\ Sound(Here, Stages(Env, "open")) /\ EnvInv(Env)
        /\ Last(Here).engine = engine /\ Last(Here).disk = disk
        /\ engine \in GraphType
    BY HandlerStarts
  <1> DEFINE next == WithJob([engine EXCEPT !.jobs = jobs], j, n)
             all == commit_state(Here, next)
             y == Last(all)
  <1>2. jobs \in [Jobs -> JobType \cup {NoJob}]
    BY <1>1, HereRecovered, OwnJobs
  <1>3. /\ next \in GraphType /\ next.runs = engine.runs
        /\ next.jobs = [i \in Jobs |-> IF i = j THEN n ELSE jobs[i]]
    BY <1>1, <1>2, WithJobGraph
  <1> HIDE DEF next
  <1>4. /\ Sound(all, Stages(Env, "open")) /\ y \in Stages(Env, "open")
        /\ y.engine.jobs = next.jobs /\ y.engine.runs = engine.runs
        /\ y.disk.main = y.engine /\ y.disk.pending = NoGraph
        /\ y.disk.memory = disk.memory /\ y.disk.upserts = disk.upserts
        /\ y.disk.deletes = disk.deletes
    <2>1. \A i \in Jobs : next.jobs[i] = IF i = j THEN n ELSE jobs[i]
      BY <1>3
    <2> QED
      BY <1>1, <1>3, <2>1, JobCommit
  <1> QED
    BY <1>3, <1>4 DEF next

\* graph_extract_renew.
LEMMA RenewStep ==
    ASSUME JobsInv, NEW u \in Workers, graph_extract_renew(u)
    PROVE  JobsInv'
  <1> DEFINE j == worker[u].job
             jobs == recover_expired_jobs(engine.jobs)
             n == [jobs[j] EXCEPT !.state = "running",
                                  !.left = IF @ < Ttl THEN Ttl ELSE @]
             all == commit_state(Here, WithJob([engine EXCEPT !.jobs = jobs], j, n))
  <1>1. /\ Open /\ j # None /\ Holds(u, jobs)
        /\ \/ Unanswered(all)
           \/ /\ Completes(all) /\ worker' = [worker EXCEPT ![u].left = n.left]
              /\ UNCHANGED ghosts
    BY DEF graph_extract_renew
  <1>2. /\ Stage(disk, engine) \in Stages(Env, "open")
        /\ Sound(Here, Stages(Env, "open")) /\ Last(Here).engine = engine
        /\ engine \in GraphType /\ GraphInv(engine, disk, Env)
        /\ EnvInv(Env)
    BY <1>1, HandlerStarts
  <1>3. /\ Env.worker = worker /\ Env.epoch = epoch /\ Env.completed = completed
        /\ Env.stopped = stopped /\ Env.purged = purged
        /\ Env'.worker = worker' /\ Env'.epoch = epoch' /\ Env'.completed = completed'
        /\ Env'.stopped = stopped' /\ Env'.purged = purged'
    BY DEF Env
  <1>4. WorkerInv(u, Env) /\ DOMAIN worker = Workers
    BY <1>2, <1>3 DEF EnvInv
  <1>5. j \in Jobs
    BY <1>1, <1>3, <1>4 DEF WorkerInv
  <1>6. /\ jobs \in [Jobs -> JobType \cup {NoJob}]
        /\ JobInv(j, jobs[j], engine.runs[j], Env)
    BY <1>1, <1>5, HereRecovered
  <1> HIDE DEF jobs, j
  <1>7. jobs[j].state \in active /\ jobs[j].token = worker[u].token
    BY <1>1 DEF Holds, j
  <1>8. jobs[j] \in JobType
    BY <1>5, <1>6, <1>7 DEF NoJob, None, active
  <1>9. /\ n \in JobType /\ n.state \in active /\ n.token = worker[u].token
        /\ jobs[j].left <= n.left /\ (jobs[j].cancel => n.cancel)
        /\ n.fence = jobs[j].fence /\ n.wait = jobs[j].wait /\ n.epoch = jobs[j].epoch
    <2>1. Ttl \in Nat /\ jobs[j].left \in 0 .. Ttl
      BY <1>8, JobConstants DEF JobType
    <2> DEFINE left == IF jobs[j].left < Ttl THEN Ttl ELSE jobs[j].left
    <2>2. left \in 0 .. Ttl /\ jobs[j].left <= left
      BY <2>1
    <2>3. n = [jobs[j] EXCEPT !.state = "running", !.left = left]
      OBVIOUS
    <2> HIDE DEF left, n
    <2>4. n \in JobType
      BY <1>8, <2>2, <2>3 DEF JobType, active
    <2> QED
      BY <1>7, <1>8, <2>2, <2>3, <2>4 DEF JobType, active
  <1> HIDE DEF n
  <1>10. JobInv(j, n, engine.runs[j], Env) /\ Follows(j, jobs[j], n, Env)
    BY <1>2, <1>6, <1>7, <1>8, <1>9, JobKept
  <1> DEFINE y == Last(all)
  <1>11. /\ Sound(all, Stages(Env, "open")) /\ y \in Stages(Env, "open")
         /\ y.engine.jobs = [i \in Jobs |-> IF i = j THEN n ELSE jobs[i]]
         /\ y.disk.main = y.engine /\ y.disk.pending = NoGraph
    BY <1>1, <1>5, <1>9, <1>10, HereCommit DEF jobs
  <1> HIDE DEF all
  <1>12. CASE Unanswered(all)
    BY <1>1, <1>11, <1>12, UnansweredEnds
  <1>13. CASE /\ Completes(all) /\ worker' = [worker EXCEPT ![u].left = n.left]
              /\ UNCHANGED ghosts
    <2> DEFINE k == [worker[u] EXCEPT !.left = n.left]
    <2>1. /\ k.job = j /\ k.token = n.token /\ k.left = n.left
          /\ LeaseRecord(k) /\ k.request = worker[u].request
      BY <1>3, <1>4, <1>9 DEF WorkerInv, LeaseRecord, j
    <2>2. worker' = [worker EXCEPT ![u] = k]
      BY <1>13
    <2>3. n.token.worker = u
      BY <1>1, <1>3, <1>4, <1>9 DEF WorkerInv, j
    <2> HIDE DEF k
    <2>4. /\ EnvInv(Env')
          /\ \A i, job, ran :
                /\ JobInv(i, job, ran, Env)
                /\ i = j /\ job # NoJob /\ job.epoch = n.epoch =>
                      \/ job.state \in terminal
                      \/ /\ job.state \in active /\ job.token = n.token
                         /\ n.left <= job.left
                => JobInv(i, job, ran, Env')
      <3>1. /\ Env'.epoch = Env.epoch /\ Env'.completed = Env.completed
            /\ Env'.stopped = Env.stopped /\ Env'.purged = Env.purged
        BY <1>3, <1>13 DEF ghosts
      <3>2. /\ Env'.worker = [Env.worker EXCEPT ![u] = k]
            /\ Env.worker[u].request = worker[u].request
        BY <1>3, <2>2
      <3> QED
        <4>1. Learns(Env, Env', u, k)
          BY <3>1, <3>2 DEF Learns
        <4> QED
          BY <1>2, <1>5, <1>9, <1>10, <2>1, <2>3, <3>2, <4>1, LeaseKnown
    <2>5. n.left <= n.left
      BY <1>9, JobConstants DEF JobType
    <2>6. \A i \in Jobs : JobInv(i, y.engine.jobs[i], y.engine.runs[i], Env')
      <3>1. \A i \in Jobs : JobInv(i, y.engine.jobs[i], y.engine.runs[i], Env)
        BY <1>11 DEF Stages, GraphInv
      <3> QED
        BY <1>5, <1>9, <1>11, <2>4, <2>5, <3>1
    <2>7. y \in Stages(Env', "open")
      BY <1>11, <2>6, SettledStage
    <2>8. disk' = y.disk /\ engine' = y.engine
      BY <1>13 DEF Completes
    <2> QED
      BY <2>4, <2>7, <2>8, AnsweredEnds
  <1> QED
    BY <1>1, <1>12, <1>13

\* A cancellation becomes known.
LEMMA CancelKnown ==
    ASSUME NEW v, EnvInv(v), NEW j \in Jobs, NEW e \in 1 .. MaxEnqueues,
           e <= v.epoch[j],
           NEW w, w.worker = v.worker, w.epoch = v.epoch, w.completed = v.completed,
           w.purged = v.purged, w.stopped = v.stopped \cup {<<j, e>>}
    PROVE  /\ EnvInv(w)
           /\ \A i, job, ran :
                /\ JobInv(i, job, ran, v)
                /\ i = j /\ job # NoJob /\ job.epoch = e =>
                      \/ job.state \in {"cancelled", "failed"}
                      \/ job.state \in active /\ job.cancel
                => JobInv(i, job, ran, w)
  <1>1. \A u \in Workers : WorkerInv(u, w)
    BY DEF EnvInv, WorkerInv
  <1>2. Exclusive(w)
    BY DEF EnvInv, Exclusive
  <1>3. EnvInv(w)
    BY <1>1, <1>2 DEF EnvInv
  <1>4. ASSUME NEW i, NEW job, NEW ran, JobInv(i, job, ran, v),
               i = j /\ job # NoJob /\ job.epoch = e =>
                  \/ job.state \in {"cancelled", "failed"}
                  \/ job.state \in active /\ job.cancel
        PROVE  JobInv(i, job, ran, w)
    <2>1. KeepsCancel(i, job, w)
      BY <1>4 DEF JobInv, KeepsCancel
    <2>2. JobTyped(i, job, w) /\ KeepsLease(i, job, w) /\ KeepsResult(i, job, w)
      BY <1>4 DEF JobInv, JobTyped, KeepsLease, KeepsResult
    <2> QED
      BY <1>4, <2>1, <2>2 DEF JobInv
  <1> QED
    BY <1>3, <1>4

\* cancel_job.
LEMMA CancelledJob ==
    ASSUME NEW v, EnvInv(v), NEW j \in Jobs, NEW run,
           NEW o \in JobType, JobInv(j, o, run, v)
    PROVE  LET n == cancel_job(o)
           IN /\ n \in JobType /\ JobInv(j, n, run, v) /\ Follows(j, o, n, v)
              /\ n.epoch = o.epoch
              /\ o.state \notin terminal => \/ n.state = "cancelled"
                                            \/ n.state \in active /\ n.cancel
  <1>1. CASE o.state \in terminal
    <2>1. cancel_job(o) = o
      BY <1>1 DEF cancel_job, active, terminal
    <2> QED
      BY <1>1, <2>1, JobStays
  <1>2. CASE o.state \in active
    <2> DEFINE n == [o EXCEPT !.cancel = TRUE]
    <2>1. o.state \notin terminal /\ cancel_job(o) = n
      BY <1>2 DEF cancel_job, active, terminal
    <2>2. /\ n \in JobType /\ n.state = o.state /\ n.token = o.token
          /\ n.left = o.left /\ n.fence = o.fence /\ n.wait = o.wait
          /\ n.epoch = o.epoch /\ n.cancel = TRUE
      BY DEF JobType
    <2>3. n.left \in Nat
      BY <2>2, JobConstants DEF JobType
    <2> HIDE DEF n
    <2>4. n.cancel /\ o.left <= n.left
      BY <2>2, <2>3
    <2> QED
      BY <1>2, <2>1, <2>2, <2>4, JobKept
  <1>3. CASE o.state \notin terminal \cup active
    <2> DEFINE n == [ended(o, "cancelled") EXCEPT !.cancel = TRUE]
    <2>1. cancel_job(o) = n
      BY <1>3 DEF cancel_job
    <2>2. n \in JobType /\ JobInv(j, n, run, v) /\ Follows(j, o, n, v)
      BY <1>3, EndedJob
    <2>3. n.state = "cancelled" /\ n.epoch = o.epoch
      BY DEF ended, cleared, JobType
    <2> HIDE DEF n
    <2> QED
      BY <2>1, <2>2, <2>3
  <1> QED
    BY <1>1, <1>2, <1>3

\* graph_extract_cancel.
LEMMA CancelStep ==
    ASSUME JobsInv, NEW j \in Jobs, graph_extract_cancel(j)
    PROVE  JobsInv'
  <1> DEFINE jobs == recover_expired_jobs(engine.jobs)
             n == cancel_job(jobs[j])
             all == commit_state(Here, WithJob([engine EXCEPT !.jobs = jobs], j, n))
             y == Last(all)
             known == /\ jobs[j].state \notin terminal
                      /\ Completes(all)
                      /\ stopped' = stopped \cup {<<j, n.epoch>>}
                      /\ UNCHANGED <<worker, epoch, completed, purged, changes>>
  <1>1. /\ Open /\ engine.jobs[j] # NoJob
        /\ Unanswered(all) \/ known
    BY DEF graph_extract_cancel
  <1>2. EnvInv(Env) /\ engine \in GraphType /\ GraphInv(engine, disk, Env)
    BY <1>1, HandlerStarts
  <1>3. /\ Env.worker = worker /\ Env.epoch = epoch /\ Env.completed = completed
        /\ Env.stopped = stopped /\ Env.purged = purged
        /\ Env'.worker = worker' /\ Env'.epoch = epoch' /\ Env'.completed = completed'
        /\ Env'.stopped = stopped' /\ Env'.purged = purged'
    BY DEF Env
  <1>4. /\ jobs[j] \in JobType /\ JobInv(j, jobs[j], engine.runs[j], Env)
    <2>1. /\ engine.jobs[j] \in JobType \cup {NoJob}
          /\ JobInv(j, engine.jobs[j], engine.runs[j], Env)
      BY <1>2, OwnJobs DEF GraphInv
    <2> QED
      BY <1>1, <1>2, <2>1, RecoveredJob
  <1> HIDE DEF jobs
  <1>5. /\ n \in JobType /\ JobInv(j, n, engine.runs[j], Env)
        /\ Follows(j, jobs[j], n, Env)
        /\ jobs[j].state \notin terminal => \/ n.state = "cancelled"
                                            \/ n.state \in active /\ n.cancel
    BY <1>2, <1>4, CancelledJob
  <1> HIDE DEF n
  <1>6. /\ Sound(all, Stages(Env, "open")) /\ y \in Stages(Env, "open")
        /\ y.engine.jobs = [i \in Jobs |-> IF i = j THEN n ELSE jobs[i]]
        /\ y.disk.main = y.engine /\ y.disk.pending = NoGraph
    BY <1>1, <1>5, HereCommit DEF jobs
  <1> HIDE DEF all
  <1>7. CASE Unanswered(all)
    BY <1>1, <1>6, <1>7, UnansweredEnds
  <1>8. CASE known
    <2>1. n.epoch \in 1 .. MaxEnqueues /\ n.epoch <= epoch[j]
      BY <1>3, <1>5, Shapes DEF JobType, JobInv, JobTyped
    <2>2. /\ EnvInv(Env')
          /\ \A i, job, ran :
                /\ JobInv(i, job, ran, Env)
                /\ i = j /\ job # NoJob /\ job.epoch = n.epoch =>
                      \/ job.state \in {"cancelled", "failed"}
                      \/ job.state \in active /\ job.cancel
                => JobInv(i, job, ran, Env')
      <3>1. /\ Env'.worker = Env.worker /\ Env'.epoch = Env.epoch
            /\ Env'.completed = Env.completed /\ Env'.purged = Env.purged
            /\ Env'.stopped = Env.stopped \cup {<<j, n.epoch>>}
        BY <1>3, <1>8
      <3> QED
        BY <1>2, <1>3, <2>1, <3>1, CancelKnown
    <2>3. \A i \in Jobs : JobInv(i, y.engine.jobs[i], y.engine.runs[i], Env')
      <3>1. \A i \in Jobs : JobInv(i, y.engine.jobs[i], y.engine.runs[i], Env)
        BY <1>6 DEF Stages, GraphInv
      <3> QED
        BY <1>5, <1>6, <1>8, <2>2, <3>1
    <2>4. y \in Stages(Env', "open")
      BY <1>6, <2>3, SettledStage
    <2>5. disk' = y.disk /\ engine' = y.engine
      BY <1>8 DEF Completes
    <2> QED
      BY <2>2, <2>4, <2>5, AnsweredEnds
  <1> QED
    BY <1>1, <1>7, <1>8

\* A worker learns of the lease that the graph of a stage gives it, whether
\* the call wrote it or found it there: the graphs on disk have it as well.
LEMMA LeaseAnswered ==
    ASSUME NEW v, EnvInv(v), NEW x \in Stages(v, "open"),
           NEW u \in Workers, v.worker[u].job = None, NEW j \in Jobs,
           NEW n \in JobType, n = x.engine.jobs[j], n.state \in active, n.left > 0,
           n.token.worker = u, n.token.request = v.worker[u].request,
           NEW k, LeaseRecord(k), k.job = j, k.token = n.token, k.left = n.left,
           k.request = v.worker[u].request,
           NEW w, Learns(v, w, u, k)
    PROVE  EnvInv(w) /\ x \in Stages(w, "open")
  <1> DEFINE e == x.engine
             keeps(job) == job # NoJob /\ job.epoch = n.epoch =>
                             \/ job.state \in terminal
                             \/ /\ job.state \in active /\ job.token = n.token
                                /\ n.left <= job.left
  <1>0. /\ w.worker = [v.worker EXCEPT ![u] = k] /\ w.epoch = v.epoch
        /\ w.completed = v.completed /\ w.stopped = v.stopped /\ w.purged = v.purged
    BY DEF Learns
  <1>1. DOMAIN v.worker = Workers /\ j # None
    BY JobConstants DEF EnvInv
  <1>3. JobInv(j, n, e.runs[j], v) /\ n # NoJob
    BY Shapes DEF Stages, GraphInv
  <1>4. /\ EnvInv(w)
        /\ \A i, job, ran :
              JobInv(i, job, ran, v) /\ (i = j => keeps(job)) => JobInv(i, job, ran, w)
    BY <1>3, LeaseKnown
  <1>5. /\ w.worker[u].job = j
        /\ \A z \in Workers \ {u} : w.worker[z] = v.worker[z]
    BY <1>0, <1>1
  <1>6. ASSUME NEW g \in {e, x.disk.main, x.disk.pending} \ {NoGraph}, NEW i \in Jobs
        PROVE  /\ JobInv(i, g.jobs[i], g.runs[i], w)
               /\ Follows(i, e.jobs[i], g.jobs[i], v)
                  => Follows(i, e.jobs[i], g.jobs[i], w)
    <2>1. /\ JobInv(i, g.jobs[i], g.runs[i], v)
          /\ g = e \/ Successor(e, g, v)
      BY <1>6 DEF Stages, DiskInv, GraphInv
    <2>2. e \in GraphType
      BY DEF Stages, StageType
    <2>3. Successor(e, g, v)
      <3> HIDE DEF e
      <3> QED
        BY <2>1, <2>2, SuccessorOfItself
    <2>4. i = j => keeps(g.jobs[i])
      <3>1. KeepsGrant(i, e.jobs[i], g.jobs[i], v)
        BY <2>3 DEF Successor
      <3> QED
        BY <1>3, <3>1, SMTT(30) DEF KeepsGrant
    <2>5. JobInv(i, g.jobs[i], g.runs[i], w)
      BY <1>4, <2>1, <2>4
    <2>6. ASSUME KeepsGrant(i, e.jobs[i], g.jobs[i], v)
          PROVE  KeepsGrant(i, e.jobs[i], g.jobs[i], w)
      <3>1. e.jobs[i] # NoJob /\ e.jobs[i].state \in active =>
               e.jobs[i].token \in Tokens
        <4>1. JobTyped(i, e.jobs[i], v)
          BY DEF Stages, GraphInv, JobInv
        <4>2. e.jobs[i] \in JobType \cup {NoJob}
          BY <2>2, OwnJobs
        <4> QED
          BY <4>1, <4>2 DEF JobTyped, JobType
      <3>2. e.jobs[i].token \in Tokens => e.jobs[i].token.worker \in Workers
        BY DEF Tokens
      <3> QED
        BY <1>1, <1>5, <2>6, <3>1, <3>2 DEF KeepsGrant
    <2>7. KeepsCompleted(i, e.jobs[i], g.jobs[i], v)
            => KeepsCompleted(i, e.jobs[i], g.jobs[i], w)
      BY <1>0 DEF KeepsCompleted
    <2> QED
      BY <2>5, <2>6, <2>7 DEF Follows
  <1>7. x \in Stages(w, "open")
    BY <1>6, StageOfGraphs
  <1> QED
    BY <1>4, <1>7

\* A job after the recovery of the leases.
LEMMA RecoveredHere ==
    ASSUME JobsInv, Open, NEW j \in Jobs
    PROVE  LET o == recover_expired_jobs(engine.jobs)[j]
           IN /\ o \in JobType \cup {NoJob} /\ JobInv(j, o, engine.runs[j], Env)
              /\ o.state \in active => o \in JobType /\ o.left > 0
              /\ o.state = "queued" => o \in JobType
  <1>1. EnvInv(Env) /\ engine \in GraphType /\ GraphInv(engine, disk, Env)
    BY HandlerStarts
  <1>2. /\ engine.jobs[j] \in JobType \cup {NoJob}
        /\ JobInv(j, engine.jobs[j], engine.runs[j], Env)
    BY <1>1, OwnJobs DEF GraphInv
  <1>3. NoJob.state \notin active /\ NoJob.state # "queued"
    BY DEF NoJob, None, active
  <1> QED
    BY <1>1, <1>2, <1>3, RecoveredJob

\* A lease that a claim finds.
LEMMA LeaseFound ==
    ASSUME JobsInv, Open, NEW j \in Jobs,
           recover_expired_jobs(engine.jobs)[j].state \in active
    PROVE  LET n == recover_expired_jobs(engine.jobs)[j]
               lease == recover_job_leases(Here)
           IN /\ Sound(lease, Stages(Env, "open"))
              /\ Last(lease) \in Stages(Env, "open")
              /\ Last(lease).engine.jobs[j] = n
              /\ n \in JobType /\ n.left > 0
  <1>1. EnvInv(Env) /\ Sound(Here, Stages(Env, "open")) /\ Last(Here).engine = engine
    BY HandlerStarts
  <1>2. LET lease == recover_job_leases(Here)
        IN /\ Sound(lease, Stages(Env, "open"))
           /\ Last(lease) \in Stages(Env, "open")
           /\ Last(lease).engine.jobs = recover_expired_jobs(engine.jobs)
    BY <1>1, LeasesRecovered
  <1> QED
    BY <1>2, RecoveredHere

\* A lease that a claim gives.
LEMMA LeaseGiven ==
    ASSUME JobsInv, Open, NEW u \in Workers, NEW j \in Jobs,
           claimable_job(recover_expired_jobs(engine.jobs)[j])
    PROVE  LET jobs == recover_expired_jobs(engine.jobs)
               n == claim_job(u, j, jobs)
               lease == commit_state(Here, WithJob([engine EXCEPT !.jobs = jobs], j, n))
           IN /\ Sound(lease, Stages(Env, "open"))
              /\ Last(lease) \in Stages(Env, "open")
              /\ Last(lease).engine.jobs[j] = n
              /\ n \in JobType /\ n.state \in active /\ n.left > 0
              /\ n.token.worker = u /\ n.token.request = worker[u].request
  <1> DEFINE jobs == recover_expired_jobs(engine.jobs)
             n == claim_job(u, j, jobs)
             lease == commit_state(Here, WithJob([engine EXCEPT !.jobs = jobs], j, n))
             o == jobs[j]
             token == [epoch |-> o.epoch, worker |-> u,
                       request |-> worker[u].request, attempt |-> o.attempts + 1]
  <1>1. EnvInv(Env)
    BY HandlerStarts
  <1>2. /\ o \in JobType /\ o.state = "queued" /\ ~o.cancel
        /\ o.attempts < MaxAttempts /\ JobInv(j, o, engine.runs[j], Env)
    BY RecoveredHere DEF claimable_job
  <1>3. token \in Tokens
    <2>1. worker[u].request \in Nat
      BY <1>1 DEF EnvInv, WorkerInv, LeaseRecord, Env
    <2>2. o.attempts + 1 \in 1 .. MaxAttempts /\ o.epoch \in 1 .. MaxEnqueues
      BY <1>2, JobConstants DEF JobType
    <2> QED
      BY <2>1, <2>2 DEF Tokens
  <1>4. n = [o EXCEPT !.attempts = @ + 1, !.state = "claimed", !.left = Ttl,
                      !.wait = 0, !.token = token]
    BY DEF claim_job
  <1>5. /\ token.worker = u /\ token.request = worker[u].request
        /\ token.epoch = o.epoch
    OBVIOUS
  <1> HIDE DEF o, token, n
  <1>6. o.attempts + 1 \in 0 .. MaxAttempts /\ Ttl \in 0 .. Ttl /\ Ttl > 0
    BY <1>2, JobConstants DEF JobType
  <1>7. /\ n \in JobType /\ n.state = "claimed" /\ n.left = Ttl /\ n.wait = 0
        /\ n.token = token /\ n.fence = o.fence /\ n.epoch = o.epoch
    <2> DEFINE l == [o EXCEPT !.attempts = @ + 1, !.state = "claimed"]
               r == [l EXCEPT !.left = Ttl]
               m == [r EXCEPT !.wait = 0]
    <2>1. /\ l \in JobType /\ l.state = "claimed"
          /\ l.fence = o.fence /\ l.epoch = o.epoch
      BY <1>2, <1>6 DEF JobType, active
    <2>2. n = [m EXCEPT !.token = token]
      BY <1>4
    <2> HIDE DEF l
    <2>3. /\ r \in JobType /\ r.state = "claimed" /\ r.left = Ttl
          /\ r.fence = o.fence /\ r.epoch = o.epoch
      BY <1>6, <2>1 DEF JobType
    <2> HIDE DEF r
    <2>4. /\ m \in JobType /\ m.state = "claimed" /\ m.left = Ttl /\ m.wait = 0
          /\ m.fence = o.fence /\ m.epoch = o.epoch
      BY <2>3 DEF JobType
    <2> HIDE DEF m
    <2> QED
      BY <1>3, <2>2, <2>4 DEF JobType
  <1>8. JobInv(j, n, engine.runs[j], Env) /\ Follows(j, o, n, Env)
    BY <1>2, <1>3, <1>5, <1>7, JobClaimed
  <1>9. /\ Sound(lease, Stages(Env, "open")) /\ Last(lease) \in Stages(Env, "open")
        /\ Last(lease).engine.jobs = [i \in Jobs |-> IF i = j THEN n ELSE jobs[i]]
    BY <1>7, <1>8, HereCommit DEF o
  <1> HIDE DEF lease
  <1>10. /\ Sound(lease, Stages(Env, "open")) /\ Last(lease) \in Stages(Env, "open")
         /\ Last(lease).engine.jobs[j] = n
         /\ n \in JobType /\ n.state \in active /\ n.left > 0
         /\ n.token.worker = u /\ n.token.request = worker[u].request
    BY <1>5, <1>6, <1>7, <1>9 DEF active
  <1> QED
    BY <1>10 DEF lease, n

\* graph_extract_claim.
LEMMA ClaimStep ==
    ASSUME JobsInv, NEW u \in Workers, graph_extract_claim(u)
    PROVE  JobsInv'
  <1> DEFINE jobs == recover_expired_jobs(engine.jobs)
             base == recover_job_leases(Here)
             replays == {j \in Jobs : jobs[j].state \in active /\ jobs[j].token.worker = u
                                         /\ jobs[j].token.request = worker[u].request}
             free == {j \in Jobs : claimable_job(jobs[j])}
             granted(j) == IF j \in replays THEN jobs[j] ELSE claim_job(u, j, jobs)
             lease(j) == IF j \in replays THEN base
                         ELSE commit_state(Here,
                                WithJob([engine EXCEPT !.jobs = jobs], j, granted(j)))
             revoke(j) == commit_state(lease(j), WithJob(Last(lease(j)).engine, j,
                                          mark_job_source_changed(granted(j))))
  <1>1. /\ Open /\ worker[u].job = None
        /\ \/ Unanswered(base)
           \/ \E j \in IF replays # {} THEN replays ELSE free :
                \/ Unanswered(lease(j))
                \/ Completes(lease(j)) /\ Answered(u, j, granted(j)) /\ UNCHANGED ghosts
                \/ Unanswered(revoke(j))
    BY ZenonT(60) DEF graph_extract_claim
  <1>2. CASE Unanswered(base)
    <2>1. Sound(base, Stages(Env, "open"))
      BY <1>1, HandlerStarts, LeasesRecovered, ZenonT(60)
    <2> QED
      BY <1>1, <1>2, <2>1, UnansweredEnds
  <1>3. ASSUME NEW j \in IF replays # {} THEN replays ELSE free,
               \/ Unanswered(lease(j))
               \/ Completes(lease(j)) /\ Answered(u, j, granted(j)) /\ UNCHANGED ghosts
               \/ Unanswered(revoke(j))
        PROVE  JobsInv'
    <2> DEFINE n == granted(j)
               stages == lease(j)
               x == Last(stages)
               failed == mark_job_source_changed(n)
    <2>1. j \in Jobs
      OBVIOUS
    <2>2. \/ /\ jobs[j].state \in active /\ jobs[j].token.worker = u
             /\ jobs[j].token.request = worker[u].request
             /\ n = jobs[j] /\ stages = recover_job_leases(Here)
          \/ /\ claimable_job(jobs[j])
             /\ n = claim_job(u, j, jobs)
             /\ stages = commit_state(Here, WithJob([engine EXCEPT !.jobs = jobs], j, n))
      OBVIOUS
    <2>3. revoke(j) = commit_state(stages, WithJob(x.engine, j, failed))
      OBVIOUS
    <2> HIDE DEF n, stages
    <2>4. /\ Sound(stages, Stages(Env, "open")) /\ x \in Stages(Env, "open")
          /\ x.engine.jobs[j] = n
          /\ n \in JobType /\ n.state \in active /\ n.left > 0
          /\ n.token.worker = u /\ n.token.request = worker[u].request
      <3>1. CASE /\ jobs[j].state \in active /\ jobs[j].token.worker = u
                 /\ jobs[j].token.request = worker[u].request
                 /\ n = jobs[j] /\ stages = recover_job_leases(Here)
        BY <1>1, <2>1, <3>1, LeaseFound, ZenonT(60)
      <3>2. CASE /\ claimable_job(jobs[j])
                 /\ n = claim_job(u, j, jobs)
                 /\ stages = commit_state(Here, WithJob([engine EXCEPT !.jobs = jobs], j, n))
        BY <1>1, <2>1, <3>2, LeaseGiven, ZenonT(60)
      <3> QED
        BY <2>2, <3>1, <3>2
    <2>5. EnvInv(Env)
      BY DEF JobsInv
    <2>6. CASE Unanswered(stages)
      BY <1>1, <2>4, <2>6, UnansweredEnds, ZenonT(30)
    <2>7. CASE Completes(stages) /\ Answered(u, j, n) /\ UNCHANGED ghosts
      <3>1. /\ Env.worker = worker /\ Env'.worker = worker' /\ Env'.epoch = Env.epoch
            /\ Env'.completed = Env.completed /\ Env'.stopped = Env.stopped
            /\ Env'.purged = Env.purged
        BY <2>7 DEF Env, ghosts
      <3>2. worker' = [worker EXCEPT ![u] = [@ EXCEPT !.job = j, !.token = n.token,
                                                       !.left = n.left]]
        BY <2>7 DEF Answered
      <3> HIDE DEF x
      <3>3. EnvInv(Env') /\ x \in Stages(Env', "open")
        <4> DEFINE k == [job |-> j, token |-> n.token, left |-> n.left,
                         request |-> worker[u].request]
        <4>1. WorkerInv(u, Env)
          BY <2>5 DEF EnvInv
        <4>2. worker[u] = [job |-> worker[u].job, token |-> worker[u].token,
                           left |-> worker[u].left, request |-> worker[u].request]
          BY <3>1, <4>1 DEF WorkerInv, LeaseRecord
        <4>3. [worker[u] EXCEPT !.job = j, !.token = n.token, !.left = n.left] = k
          <5> DEFINE m == [worker[u] EXCEPT !.job = j, !.token = n.token, !.left = n.left]
          <5>1. DOMAIN worker[u] = {"job", "token", "left", "request"}
            BY <4>2
          <5>2. /\ DOMAIN m = {"job", "token", "left", "request"}
                /\ m.job = j /\ m.token = n.token /\ m.left = n.left
                /\ m.request = worker[u].request
            BY <5>1
          <5>3. m = [i \in DOMAIN m |-> m[i]]
            OBVIOUS
          <5> HIDE DEF m
          <5>4. m = k
            BY <5>2, <5>3
          <5> QED
            BY <5>4 DEF m
        <4>4. Env'.worker = [Env.worker EXCEPT ![u] = k]
          BY <3>1, <3>2, <4>3
        <4>5. /\ k.job = j /\ k.token = n.token /\ k.left = n.left
              /\ LeaseRecord(k) /\ k.request = Env.worker[u].request
          <5>1. worker[u].request \in Nat
            BY <3>1, <4>1 DEF WorkerInv, LeaseRecord
          <5> QED
            BY <3>1, <5>1 DEF LeaseRecord
        <4>6. /\ Env.worker[u].job = None
              /\ n.token.request = Env.worker[u].request
          BY <1>1, <2>4, <3>1, ZenonT(30)
        <4> HIDE DEF k
        <4> QED
          <5>1. Learns(Env, Env', u, k)
            BY <3>1, <4>4 DEF Learns
          <5> QED
            BY <2>1, <2>4, <2>5, <4>5, <4>6, <5>1, LeaseAnswered
      <3>4. disk' = x.disk /\ engine' = x.engine
        BY <2>7 DEF Completes, x
      <3> QED
        BY <3>3, <3>4, AnsweredEnds
    <2>8. CASE Unanswered(revoke(j))
      <3> DEFINE g == x.engine
                 next == WithJob(g, j, failed)
      <3>1. g \in GraphType /\ JobInv(j, n, g.runs[j], Env)
        BY <2>1, <2>4 DEF Stages, StageType, GraphInv
      <3>2. n.state \notin terminal
        BY <2>4 DEF active, terminal
      <3>3. failed = [ended(n, "failed") EXCEPT !.cancel = FALSE]
        BY <3>2 DEF mark_job_source_changed
      <3>4. /\ failed \in JobType /\ JobInv(j, failed, g.runs[j], Env)
            /\ Follows(j, n, failed, Env)
        <4> DEFINE f == [ended(n, "failed") EXCEPT !.cancel = FALSE]
        <4>1. f \in JobType /\ JobInv(j, f, g.runs[j], Env) /\ Follows(j, n, f, Env)
          BY <2>4, <3>1, <3>2, EndedJob
        <4> HIDE DEF f
        <4> QED
          BY <3>3, <4>1 DEF f
      <3> HIDE DEF failed
      <3>5. [g EXCEPT !.jobs = g.jobs] = g /\ g.jobs \in [Jobs -> JobType \cup {NoJob}]
        BY <3>1, OwnJobs
      <3>6. /\ next \in GraphType /\ next.runs = g.runs
            /\ next.jobs = [i \in Jobs |-> IF i = j THEN failed ELSE g.jobs[i]]
        <4> DEFINE same == WithJob([g EXCEPT !.jobs = g.jobs], j, failed)
        <4>1. /\ same \in GraphType /\ same.runs = g.runs
              /\ same.jobs = [i \in Jobs |-> IF i = j THEN failed ELSE g.jobs[i]]
          BY <2>1, <3>1, <3>4, <3>5, WithJobGraph
        <4> QED
          BY <3>5, <4>1
      <3>7. \A i \in Jobs : next.jobs[i] = IF i = j THEN failed ELSE g.jobs[i]
        BY <3>6
      <3> HIDE DEF next
      <3>8. Sound(commit_state(stages, next), Stages(Env, "open"))
        BY <2>1, <2>4, <2>5, <3>1, <3>4, <3>6, <3>7, JobCommit
      <3>9. revoke(j) = commit_state(stages, next)
        BY <2>3 DEF next
      <3> QED
        BY <1>1, <2>8, <3>8, <3>9, UnansweredEnds, ZenonT(30)
    <2> QED
      BY <1>3, <2>6, <2>7, <2>8, ZenonT(30) DEF n, stages
  <1> QED
    BY <1>1, <1>2, <1>3, ZenonT(60)

\* A worker lets go of its lease: it has reported, or starts anew under a
\* request that no lease of the engine has.
LEMMA WorkerLets ==
    ASSUME NEW v, EnvInv(v), NEW u \in Workers,
           NEW k, LeaseRecord(k), k.left = 0,
           \/ /\ k.job = v.worker[u].job /\ k.token = v.worker[u].token
              /\ k.request = v.worker[u].request
           \/ k.job = None,
           NEW w, Learns(v, w, u, k)
    PROVE  /\ EnvInv(w)
           /\ \A i, job, run : JobInv(i, job, run, v) => JobInv(i, job, run, w)
  <1>0. /\ w.worker = [v.worker EXCEPT ![u] = k] /\ w.epoch = v.epoch
        /\ w.completed = v.completed /\ w.stopped = v.stopped /\ w.purged = v.purged
    BY DEF Learns
  <1>1. /\ DOMAIN v.worker = Workers
        /\ w.worker[u] = k /\ \A z \in Workers \ {u} : w.worker[z] = v.worker[z]
        /\ DOMAIN w.worker = Workers /\ k.left = 0
    <2>1. DOMAIN v.worker = Workers
      BY DEF EnvInv
    <2>2. k.left = 0
      OBVIOUS
    <2> QED
      BY <2>1, <2>2 DEF Learns
  <1>2. ASSUME NEW z \in Workers
        PROVE  WorkerInv(z, w)
    <2>1. WorkerInv(z, v)
      BY DEF EnvInv
    <2>2. CASE z = u
      <3>1. 0 \in 0 .. Ttl
        BY JobConstants
      <3> QED
        BY <1>0, <1>1, <2>1, <2>2, <3>1 DEF WorkerInv
    <2>3. CASE z # u
      <3>1. w.worker[z] = v.worker[z]
        BY <1>1, <2>3
      <3> QED
        BY <1>0, <2>1, <3>1 DEF WorkerInv
    <2> QED
      BY <2>2, <2>3
  <1>3. Exclusive(w)
    <2>1. \A y, z \in Workers :
            /\ y # z /\ v.worker[y].left > 0 /\ v.worker[z].left > 0
            /\ v.worker[y].job = v.worker[z].job
            => v.worker[y].token.epoch # v.worker[z].token.epoch
      BY DEF EnvInv, Exclusive
    <2>2. \A z \in Workers : w.worker[z].left > 0 => w.worker[z] = v.worker[z]
      BY <1>1
    <2> QED
      BY <2>1, <2>2 DEF Exclusive
  <1>4. EnvInv(w)
    BY <1>0, <1>1, <1>2, <1>3 DEF EnvInv
  <1>5. ASSUME NEW i, NEW job, NEW run, JobInv(i, job, run, v)
        PROVE  JobInv(i, job, run, w)
    <2>1. \A z \in Workers : w.worker[z].left > 0 => w.worker[z] = v.worker[z]
      BY <1>1
    <2>2. KeepsLease(i, job, w)
      BY <1>5, <2>1 DEF JobInv, KeepsLease
    <2>3. JobTyped(i, job, w) /\ KeepsCancel(i, job, w) /\ KeepsResult(i, job, w)
      BY <1>0, <1>5 DEF JobInv, JobTyped, KeepsCancel, KeepsResult
    <2> QED
      BY <1>5, <2>2, <2>3 DEF JobInv
  <1> QED
    BY <1>4, <1>5

\* What may follow on a job then: what might before, unless it is a lease of
\* that worker under its request.
LEMMA FollowsLets ==
    ASSUME NEW v, EnvInv(v), NEW u \in Workers,
           NEW k, LeaseRecord(k), NEW w, Learns(v, w, u, k),
           NEW i, NEW n, NEW run, NEW o \in JobType \cup {NoJob},
           JobInv(i, o, run, v), Follows(i, o, n, v),
           \/ k.job = v.worker[u].job /\ k.request = v.worker[u].request
           \/ o # NoJob /\ o.state \in active =>
                ~ (o.token.worker = u /\ o.token.request = k.request)
    PROVE  Follows(i, o, n, w)
  <1>1. /\ w.worker[u] = k /\ \A z \in Workers \ {u} : w.worker[z] = v.worker[z]
        /\ w.epoch = v.epoch /\ w.purged = v.purged
    <2>1. DOMAIN v.worker = Workers
      BY DEF EnvInv
    <2> QED
      BY <2>1 DEF Learns
  <1>2. o # NoJob /\ o.state \in active => o.token.worker \in Workers
    BY DEF JobInv, JobTyped, JobType, Tokens
  <1>3. KeepsGrant(i, o, n, w)
    BY <1>1, <1>2 DEF Follows, KeepsGrant
  <1>4. KeepsCompleted(i, o, n, w)
    BY <1>1 DEF Follows, KeepsCompleted
  <1> QED
    BY <1>3, <1>4 DEF Follows

\* There is a request that no lease of a worker has: they have at most one for
\* each job of three graphs.
LEMMA FreshRequest ==
    ASSUME NEW d, NEW e, NEW u
    PROVE  LET n == CHOOSE n \in 0 .. 3 * Cardinality(Jobs) : ~InUse(d, e, u, n)
           IN n \in Nat /\ ~InUse(d, e, u, n)
  <1> DEFINE C == Cardinality(Jobs)
             S == 0 .. 3 * C
             T == (1 .. 3) \X Jobs
             graph(k) == IF k = 1 THEN d.main ELSE IF k = 2 THEN d.pending ELSE e
             request(p) == graph(p[1]).jobs[p[2]].token.request
             f == [n \in S |-> CHOOSE p \in T : request(p) = n]
  <1>1. C \in Nat /\ IsFiniteSet(Jobs)
    BY JobConstants, FS_CardinalityType
  <1>2. IsFiniteSet(1 .. 3) /\ Cardinality(1 .. 3) = 3
    <2>1. 1 \in Int /\ 3 \in Int
      OBVIOUS
    <2>2. /\ IsFiniteSet(1 .. 3)
          /\ Cardinality(1 .. 3) = IF 1 > 3 THEN 0 ELSE 3 - 1 + 1
      BY <2>1, FS_Interval
    <2> QED
      BY <2>2
  <1>3. 3 * C \in Nat
    BY <1>1
  <1> HIDE DEF C
  <1>4. IsFiniteSet(S) /\ Cardinality(S) = 3 * C + 1
    BY <1>3, FS_Interval
  <1>5. IsFiniteSet(T) /\ Cardinality(T) = 3 * C
    BY <1>1, <1>2, FS_Product DEF C
  <1>6. \E n \in S : ~InUse(d, e, u, n)
    <2>1. SUFFICES ASSUME \A n \in S : InUse(d, e, u, n)
                   PROVE  FALSE
      OBVIOUS
    <2>2. \A n \in S : \E p \in T : request(p) = n
      <3>1. SUFFICES ASSUME NEW n \in S
                     PROVE  \E p \in T : request(p) = n
        OBVIOUS
      <3>2. PICK g \in {d.main, d.pending, e}, j \in Jobs :
               g.jobs[j].token.request = n
        BY <2>1 DEF InUse
      <3>3. \E k \in 1 .. 3 : graph(k) = g
        BY <3>2
      <3>4. PICK k \in 1 .. 3 : graph(k) = g
        BY <3>3
      <3>5. <<k, j>> \in T /\ request(<<k, j>>) = n
        BY <3>2, <3>4
      <3> QED
        BY <3>5
    <2> HIDE DEF T, S
    <2>3. \A n \in S : f[n] \in T /\ request(f[n]) = n
      BY <2>2, ZenonT(60)
    <2>4. f \in [S -> T]
      BY <2>3, ZenonT(30)
    <2> HIDE DEF f
    <2>5. Cardinality(T) < Cardinality(S)
      BY <1>3, <1>4, <1>5
    <2>6. PICK x \in S, y \in S : x # y /\ f[x] = f[y]
      BY <1>4, <1>5, <2>4, <2>5, FS_PigeonHole
    <2> QED
      BY <2>3, <2>6
  <1>7. \A n \in S : n \in Nat
    BY <1>3
  <1> QED
    BY <1>6, <1>7 DEF C

\* What a worker knows when it starts anew.
LEMMA DoneRecord ==
    ASSUME NEW d, NEW e, NEW u \in Workers, Done(d, e, u)
    PROVE  \E k : /\ LeaseRecord(k) /\ k.left = 0
                  /\ k.job = None
                  /\ ~InUse(d, e, u, k.request)
                  /\ worker' = [worker EXCEPT ![u] = k]
  <1> DEFINE n == CHOOSE n \in 0 .. 3 * Cardinality(Jobs) : ~InUse(d, e, u, n)
             k == [Idle EXCEPT !.request = n]
  <1>1. n \in Nat /\ ~InUse(d, e, u, n)
    BY FreshRequest
  <1>2. worker' = [worker EXCEPT ![u] = k]
    BY DEF Done
  <1> HIDE DEF n
  <1>3. LeaseRecord(k) /\ k.left = 0 /\ k.job = None /\ k.request = n
    BY <1>1 DEF Idle, LeaseRecord
  <1> QED
    BY <1>1, <1>2, <1>3

\* Such a request is not that of a lease of the engine.
LEMMA NotInUse ==
    ASSUME NEW d, NEW e \in GraphType, NEW u, NEW q, ~InUse(d, e, u, q), NEW v
    PROVE  \A j \in Jobs :
             /\ JobInv(j, e.jobs[j], e.runs[j], v)
             /\ e.jobs[j] # NoJob /\ e.jobs[j].state \in active
             => ~ (e.jobs[j].token.worker = u /\ e.jobs[j].token.request = q)
  <1>1. e # NoGraph /\ e # Closed
    BY Shapes
  <1>2. \A j \in Jobs : JobInv(j, e.jobs[j], e.runs[j], v) /\ e.jobs[j] # NoJob
           /\ e.jobs[j].state \in active => e.jobs[j].token # NoToken
    BY DEF JobInv, JobTyped
  <1> QED
    BY <1>1, <1>2 DEF InUse

\* The same of the engine of a stage.
LEMMA NotOfStage ==
    ASSUME NEW v, NEW x \in Stages(v, "open"), NEW d, NEW u, NEW q,
           ~InUse(d, x.engine, u, q)
    PROVE  \A j \in Jobs :
             /\ x.engine.jobs[j] \in JobType \cup {NoJob}
             /\ JobInv(j, x.engine.jobs[j], x.engine.runs[j], v)
             /\ x.engine.jobs[j] # NoJob /\ x.engine.jobs[j].state \in active =>
                   ~ (x.engine.jobs[j].token.worker = u
                        /\ x.engine.jobs[j].token.request = q)
  <1> DEFINE e == x.engine
  <1>1. e \in GraphType /\ GraphInv(e, x.disk, v)
    BY DEF Stages, StageType
  <1>2. \A j \in Jobs : JobInv(j, e.jobs[j], e.runs[j], v)
    BY <1>1 DEF GraphInv
  <1>3. \A j \in Jobs : e.jobs[j] \in JobType \cup {NoJob}
    BY <1>1, OwnJobs
  <1> HIDE DEF e
  <1>4. ~InUse(d, e, u, q)
    BY DEF e
  <1>5. \A j \in Jobs :
             /\ JobInv(j, e.jobs[j], e.runs[j], v)
             /\ e.jobs[j] # NoJob /\ e.jobs[j].state \in active
             => ~ (e.jobs[j].token.worker = u /\ e.jobs[j].token.request = q)
    BY <1>1, <1>4, NotInUse
  <1> QED
    BY <1>2, <1>3, <1>5 DEF e

\* A stage goes on to fit when a worker starts anew.
LEMMA StageOfDone ==
    ASSUME NEW v, EnvInv(v), NEW x \in Stages(v, "open"), NEW d, NEW u \in Workers,
           NEW k, LeaseRecord(k), k.left = 0,
           k.job = None, ~InUse(d, x.engine, u, k.request),
           NEW w, Learns(v, w, u, k)
    PROVE  EnvInv(w) /\ x \in Stages(w, "open")
  <1>1. x.engine \in GraphType /\ GraphInv(x.engine, x.disk, v)
    BY DEF Stages, StageType
  <1>2. /\ EnvInv(w)
        /\ \A i, job, run : JobInv(i, job, run, v) => JobInv(i, job, run, w)
    BY WorkerLets
  <1>3. ASSUME NEW j \in Jobs, NEW n \in JobType \cup {NoJob},
               JobInv(j, x.engine.jobs[j], x.engine.runs[j], v),
               Follows(j, x.engine.jobs[j], n, v)
        PROVE  Follows(j, x.engine.jobs[j], n, w)
    <2> DEFINE e == x.engine
    <2>1. \A i \in Jobs : /\ e.jobs[i] \in JobType \cup {NoJob}
                          /\ e.jobs[i] # NoJob /\ e.jobs[i].state \in active =>
                               ~ (e.jobs[i].token.worker = u
                                    /\ e.jobs[i].token.request = k.request)
      BY NotOfStage
    <2>2. /\ e.jobs[j] \in JobType \cup {NoJob}
          /\ e.jobs[j] # NoJob /\ e.jobs[j].state \in active =>
                  ~ (e.jobs[j].token.worker = u /\ e.jobs[j].token.request = k.request)
      BY <2>1
    <2>3. JobInv(j, e.jobs[j], e.runs[j], v) /\ Follows(j, e.jobs[j], n, v)
      BY <1>3
    <2> HIDE DEF e
    <2>5. Follows(j, e.jobs[j], n, w)
      BY <2>2, <2>3, FollowsLets
    <2> QED
      BY <2>5 DEF e
  <1>4. x \in Stages(w, "open")
    BY <1>2, <1>3, StageOfEnv
  <1> QED
    BY <1>2, <1>4

\* forgets.
LEMMA ForgetsStep ==
    ASSUME JobsInv, NEW u \in Workers, forgets(u)
    PROVE  JobsInv'
  <1>1. /\ UNCHANGED <<disk, engine, ghosts>> /\ Done(disk, engine, u)
    BY DEF forgets
  <1>2. PICK k : /\ LeaseRecord(k) /\ k.left = 0
                 /\ k.job = None
                 /\ ~InUse(disk, engine, u, k.request)
                 /\ worker' = [worker EXCEPT ![u] = k]
    BY <1>1, DoneRecord
  <1>3. Learns(Env, Env', u, k) /\ EnvInv(Env)
    BY <1>1, <1>2 DEF Env, ghosts, JobsInv, Learns
  <1>4. CASE Open
    <2> DEFINE x == Stage(disk, engine)
    <2>1. x \in Stages(Env, "open")
      BY <1>4 DEF JobsInv
    <2>2. x.disk = disk /\ x.engine = engine
      BY DEF Stage
    <2> HIDE DEF x
    <2>3. EnvInv(Env') /\ x \in Stages(Env', "open")
      BY <1>2, <1>3, <2>1, <2>2, StageOfDone
    <2> QED
      BY <1>1, <2>2, <2>3, AnsweredEnds
  <1>5. CASE ~Open
    <2>1. /\ EnvInv(Env')
          /\ \A i, job, run : JobInv(i, job, run, Env) => JobInv(i, job, run, Env')
      BY <1>2, <1>3, WorkerLets
    <2>2. DiskInv(disk, Env')
      BY <2>1, DiskOfEnv DEF JobsInv
    <2> QED
      BY <1>1, <1>5, <2>1, <2>2 DEF JobsInv, Open
  <1> QED
    BY <1>4, <1>5

\* A completion becomes known: it is the result of its job in every graph that
\* may become that of the engine.
LEMMA ResultKnown ==
    ASSUME NEW v, EnvInv(v), NEW x \in Stages(v, "open"), NEW j \in Jobs,
           x.engine.jobs[j] # NoJob, x.engine.jobs[j].state = "completed",
           NEW r \in [job : Jobs, epoch : 1 .. MaxEnqueues, material : Materials],
           r.job = j, r.epoch = x.engine.jobs[j].epoch,
           r.material = x.engine.jobs[j].fence.material,
           NEW w, w.worker = v.worker, w.epoch = v.epoch,
           w.completed = v.completed \cup {r}, w.stopped = v.stopped,
           w.purged = v.purged
    PROVE  EnvInv(w) /\ x \in Stages(w, "open")
  <1> DEFINE e == x.engine
  <1>1. /\ JobInv(j, e.jobs[j], e.runs[j], v)
        /\ r.epoch <= v.epoch[j]
    <2>1. JobInv(j, e.jobs[j], e.runs[j], v)
      BY DEF Stages, GraphInv
    <2> QED
      BY <2>1 DEF JobInv, JobTyped
  <1>2. \A q \in v.completed : q.job = j /\ q.epoch = r.epoch => q = r
    <2>1. SUFFICES ASSUME NEW q \in v.completed, q.job = j, q.epoch = r.epoch
                   PROVE  q = r
      OBVIOUS
    <2>2. q.material = r.material
      BY <1>1, <2>1 DEF JobInv, KeepsResult
    <2>3. q \in [job : Jobs, epoch : 1 .. MaxEnqueues, material : Materials]
      BY DEF EnvInv
    <2> QED
      BY <2>1, <2>2, <2>3
  <1>3. EnvInv(w)
    <2>1. w.completed \subseteq
             [job : Jobs, epoch : 1 .. MaxEnqueues, material : Materials]
      BY DEF EnvInv
    <2>2. \A q \in w.completed : q.epoch <= w.epoch[q.job]
      BY <1>1 DEF EnvInv
    <2>3. \A p, q \in w.completed : p.job = q.job /\ p.epoch = q.epoch => p = q
      BY <1>2 DEF EnvInv
    <2>4. \A u \in Workers : WorkerInv(u, w)
      BY DEF EnvInv, WorkerInv
    <2>5. Exclusive(w)
      BY DEF EnvInv, Exclusive
    <2> QED
      BY <2>1, <2>2, <2>3, <2>4, <2>5 DEF EnvInv
  <1>4. ASSUME NEW g \in {e, x.disk.main, x.disk.pending} \ {NoGraph}, NEW i \in Jobs
        PROVE  /\ JobInv(i, g.jobs[i], g.runs[i], w)
               /\ Follows(i, e.jobs[i], g.jobs[i], v)
                  => Follows(i, e.jobs[i], g.jobs[i], w)
    <2>1. /\ JobInv(i, g.jobs[i], g.runs[i], v)
          /\ g = e \/ Successor(e, g, v)
      BY <1>4 DEF Stages, DiskInv, GraphInv
    <2>2. e \in GraphType
      BY DEF Stages, StageType
    <2>3. Successor(e, g, v)
      BY <2>1, <2>2, SuccessorOfItself
    <2>4. i = j => /\ g.jobs[i] # NoJob /\ g.jobs[i].epoch = r.epoch =>
                         /\ g.jobs[i].state = "completed"
                         /\ g.jobs[i].fence.material = r.material
                   /\ \/ r.epoch <= v.purged[j]
                      \/ g.jobs[i] # NoJob /\ g.jobs[i].epoch = r.epoch
      BY <2>3 DEF Successor, KeepsCompleted
    <2>5. KeepsResult(i, g.jobs[i], w)
      BY <2>1, <2>4 DEF JobInv, KeepsResult
    <2>6. /\ JobTyped(i, g.jobs[i], w) /\ KeepsCancel(i, g.jobs[i], w)
          /\ KeepsLease(i, g.jobs[i], w) /\ RunTyped(g.jobs[i], g.runs[i])
      BY <2>1 DEF JobInv, JobTyped, KeepsCancel, KeepsLease
    <2>7. Follows(i, e.jobs[i], g.jobs[i], v) => Follows(i, e.jobs[i], g.jobs[i], w)
      BY ZenonT(30) DEF Follows, KeepsCompleted, KeepsGrant
    <2> QED
      BY <2>5, <2>6, <2>7 DEF JobInv
  <1>5. x \in Stages(w, "open")
    BY <1>4, StageOfGraphs
  <1> QED
    BY <1>3, <1>5

\* What is known once a worker has reported, whatever became of the call.
Released(v, u) ==
    [worker |-> [v.worker EXCEPT ![u].left = 0], epoch |-> v.epoch,
     completed |-> v.completed, stopped |-> v.stopped, purged |-> v.purged]

LEMMA ReleasedStage ==
    ASSUME JobsInv, Open, NEW u \in Workers
    PROVE  LET v == Released(Env, u)
           IN /\ EnvInv(v) /\ Stage(disk, engine) \in Stages(v, "open")
              /\ v.worker[u].left = 0 /\ v.worker[u].job = worker[u].job
              /\ v.worker[u].token = worker[u].token
              /\ v.worker = [worker EXCEPT ![u].left = 0]
              /\ v.epoch = epoch /\ v.completed = completed
              /\ v.stopped = stopped /\ v.purged = purged
              /\ v = [worker |-> v.worker, epoch |-> v.epoch, completed |-> v.completed,
                      stopped |-> v.stopped, purged |-> v.purged]
  <1> DEFINE v == Released(Env, u)
             k == [worker[u] EXCEPT !.left = 0]
             x == Stage(disk, engine)
  <1>1. /\ Env.worker = worker /\ Env.epoch = epoch /\ Env.completed = completed
        /\ Env.stopped = stopped /\ Env.purged = purged
    BY DEF Env
  <1>2. /\ v.worker = [worker EXCEPT ![u] = k] /\ v.epoch = epoch
        /\ v.completed = completed /\ v.stopped = stopped /\ v.purged = purged
        /\ v = [worker |-> v.worker, epoch |-> v.epoch, completed |-> v.completed,
                stopped |-> v.stopped, purged |-> v.purged]
    BY DEF Released, Env
  <1>3. /\ EnvInv(Env) /\ x \in Stages(Env, "open")
    BY HandlerStarts
  <1>4. DOMAIN worker = Workers /\ WorkerInv(u, Env)
    BY <1>1, <1>3 DEF EnvInv
  <1>5. LeaseRecord(worker[u])
    BY <1>1, <1>4 DEF WorkerInv
  <1>6. /\ LeaseRecord(k) /\ k.left = 0 /\ k.job = worker[u].job
        /\ k.token = worker[u].token /\ k.request = worker[u].request
    <2>1. /\ DOMAIN worker[u] = {"job", "token", "left", "request"}
          /\ worker[u].request \in Nat
      BY <1>5 DEF LeaseRecord
    <2>2. k = [job |-> worker[u].job, token |-> worker[u].token, left |-> 0,
               request |-> worker[u].request]
      BY <2>1
    <2> HIDE DEF k
    <2>3. /\ k.left = 0 /\ k.job = worker[u].job
          /\ k.token = worker[u].token /\ k.request = worker[u].request
      BY <2>2
    <2> QED
      BY <2>1, <2>2, <2>3 DEF LeaseRecord
  <1>7. v.worker[u] = k /\ v.worker = [worker EXCEPT ![u].left = 0]
    BY <1>2, <1>4
  <1> HIDE DEF v, k
  <1>8. Learns(Env, v, u, k)
    BY <1>1, <1>2 DEF Learns
  <1>9. /\ EnvInv(v)
        /\ \A i, job, run : JobInv(i, job, run, Env) => JobInv(i, job, run, v)
    BY <1>1, <1>3, <1>6, <1>8, WorkerLets
  <1>10. x \in Stages(v, "open")
    <2>1. x.engine = engine /\ engine \in GraphType
      BY HandlerStarts DEF Stage
    <2>2. \A j \in Jobs : engine.jobs[j] \in JobType \cup {NoJob}
      BY <2>1, OwnJobs
    <2>3. ASSUME NEW j \in Jobs, NEW n \in JobType \cup {NoJob},
                 JobInv(j, x.engine.jobs[j], x.engine.runs[j], Env),
                 Follows(j, x.engine.jobs[j], n, Env)
          PROVE  Follows(j, x.engine.jobs[j], n, v)
      <3>1. k.job = Env.worker[u].job /\ k.request = Env.worker[u].request
        BY <1>1, <1>6
      <3>2. x.engine.jobs[j] \in JobType \cup {NoJob}
        BY <2>1, <2>2
      <3> HIDE DEF x
      <3> QED
        BY <1>3, <1>6, <1>8, <2>3, <3>1, <3>2, FollowsLets
    <2> HIDE DEF x
    <2> QED
      BY <1>3, <1>9, <2>3, StageOfEnv
  <1> QED
    BY <1>2, <1>6, <1>7, <1>9, <1>10 DEF v, x

\* A commit of the open engine that changes one job and its run.
LEMMA RunCommit ==
    ASSUME NEW v, EnvInv(v), Stage(disk, engine) \in Stages(v, "open"),
           NEW jobs \in {engine.jobs, recover_expired_jobs(engine.jobs)},
           NEW j \in Jobs, NEW n \in JobType, NEW ran \in RunType,
           JobInv(j, n, ran, v), Follows(j, jobs[j], n, v),
           \A p \in ran.evidence : Current(p, disk),
           NEW next \in GraphType,
           \A i \in Jobs : next.jobs[i] = IF i = j THEN n ELSE jobs[i],
           \A i \in Jobs : next.runs[i] = IF i = j THEN ran ELSE engine.runs[i]
    PROVE  LET all == commit_state(Here, next)
               y == Last(all)
           IN /\ Sound(all, Stages(v, "open"))
              /\ y \in Stages(v, "open")
              /\ y.engine.jobs = next.jobs
  <1> DEFINE x == Stage(disk, engine)
  <1>1. x.disk = disk /\ x.engine = engine /\ x \in Stages(v, "open")
    BY DEF Stage
  <1>2. Sound(Here, Stages(v, "open")) /\ Last(Here) = x
    BY <1>1, HereSound DEF Here
  <1> HIDE DEF x
  <1>3. GraphInv(next, x.disk, v) /\ Successor(x.engine, next, v)
    BY <1>1, ChangedGraph
  <1> QED
    BY <1>2, <1>3, CommitSound

\* How a finish leaves the job that its worker holds.
LEMMA FinishedJob ==
    ASSUME NEW v, EnvInv(v), NEW u \in Workers, NEW j \in Jobs, NEW run,
           NEW m \in Materials \cup {"retryable", "permanent"},
           NEW jobs, jobs[j] \in JobType, JobInv(j, jobs[j], run, v),
           jobs[j].state \in active, jobs[j].token = worker[u].token,
           worker[u].token.worker = u,
           v.worker[u].left = 0, v.worker[u].job # None
    PROVE  LET o == jobs[j]
               n == Finished(u, m, j, jobs)
           IN /\ n \in JobType /\ Follows(j, o, n, v) /\ n.epoch = o.epoch
              /\ n.state # "completed" => JobInv(j, n, run, v)
              /\ n.state = "completed" =>
                    /\ m \in Materials /\ IsFence(n.fence, o.token, m)
                    /\ \A ran : ran.material = m => JobInv(j, n, ran, v)
  <1> DEFINE o == jobs[j]
             n == Finished(u, m, j, jobs)
  <1>0. /\ o \in JobType /\ JobInv(j, o, run, v) /\ o.state \in active
        /\ o.state \notin terminal /\ o.token = worker[u].token /\ o.token.worker = u
        /\ o.cancel \in BOOLEAN
    BY DEF active, terminal, JobType
  <1>1. CASE o.cancel
    <2>1. n = ended(o, "cancelled")
      BY <1>1 DEF Finished
    <2> HIDE DEF o
    <2>2. ended(o, "cancelled") = [ended(o, "cancelled") EXCEPT !.cancel = o.cancel]
      BY <1>0, EndedKeepsMark
    <2>3. LET f == [ended(o, "cancelled") EXCEPT !.cancel = o.cancel]
          IN f \in JobType /\ JobInv(j, f, run, v) /\ Follows(j, o, f, v)
      BY <1>0, EndedJob
    <2>4. n \in JobType /\ JobInv(j, n, run, v) /\ Follows(j, o, n, v)
      BY <2>1, <2>2, <2>3
    <2>5. n.state = "cancelled" /\ n.epoch = o.epoch
      BY <1>0, <2>1 DEF ended, cleared, JobType
    <2> QED
      BY <2>4, <2>5 DEF o
  <1>2. CASE ~o.cancel /\ m = "retryable"
    <2>1. n = queue_or_fail_job(o)
      BY <1>2 DEF Finished
    <2> HIDE DEF o
    <2>2. LET f == queue_or_fail_job(o)
          IN f \in JobType /\ JobInv(j, f, run, v) /\ Follows(j, o, f, v)
      BY <1>0, <1>2, QueuedOrFailed
    <2>3. n \in JobType /\ JobInv(j, n, run, v) /\ Follows(j, o, n, v)
      BY <2>1, <2>2
    <2>4. n.state \in {"queued", "failed"} /\ n.epoch = o.epoch
      BY <1>0, <2>1 DEF queue_or_fail_job, ended, cleared, JobType
    <2> QED
      BY <2>3, <2>4 DEF o
  <1>3. CASE ~o.cancel /\ m = "permanent"
    <2>1. n = ended(o, "failed")
      BY <1>3 DEF Finished
    <2> HIDE DEF o
    <2>2. ended(o, "failed") = [ended(o, "failed") EXCEPT !.cancel = o.cancel]
      BY <1>0, EndedKeepsMark
    <2>3. LET f == [ended(o, "failed") EXCEPT !.cancel = o.cancel]
          IN f \in JobType /\ JobInv(j, f, run, v) /\ Follows(j, o, f, v)
      BY <1>0, EndedJob
    <2>4. n \in JobType /\ JobInv(j, n, run, v) /\ Follows(j, o, n, v)
      BY <2>1, <2>2, <2>3
    <2>5. n.state = "failed" /\ n.epoch = o.epoch
      BY <1>0, <2>1 DEF ended, cleared, JobType
    <2> QED
      BY <2>4, <2>5 DEF o
  <1>4. CASE ~o.cancel /\ m \notin {"retryable", "permanent"}
    <2>1. n = [ended(o, "completed") EXCEPT !.fence = Fence(u, m)] /\ m \in Materials
      BY <1>4 DEF Finished
    <2> HIDE DEF o
    <2> DEFINE c == [cleared(o) EXCEPT !.state = "completed", !.wait = 0]
    <2>2. c \in JobType
      <3>1. "completed" \in {"queued"} \cup active \cup terminal /\ 0 \in 0 .. 2
        BY DEF terminal
      <3> QED
        BY <1>0, <3>1, ClearedType, ZenonT(30)
    <2>3. /\ c.state = "completed" /\ c.token = NoToken /\ c.wait = 0
          /\ c.epoch = o.epoch
      BY <1>0 DEF cleared, JobType
    <2>4. n = [c EXCEPT !.fence = Fence(u, m)]
      BY <2>1 DEF ended
    <2> HIDE DEF c, n
    <2>5. Fence(u, m) = [token |-> o.token, material |-> m]
      BY <1>0 DEF Fence
    <2>6. o.token \in Tokens
      BY <1>0, Shapes DEF JobInv, JobTyped, JobType
    <2>7. Fence(u, m) \in [token : Tokens, material : Materials]
      BY <2>1, <2>5, <2>6
    <2>8. n \in JobType
      BY <2>2, <2>4, <2>7 DEF JobType
    <2>9. /\ n.state = "completed" /\ n.token = NoToken /\ n.wait = 0
          /\ n.epoch = o.epoch /\ IsFence(n.fence, o.token, m)
      BY <2>2, <2>3, <2>4, <2>5 DEF JobType, IsFence
    <2>10. ASSUME NEW ran, ran.material = m
           PROVE  JobInv(j, n, ran, v) /\ Follows(j, o, n, v)
      BY <1>0, <1>4, <2>1, <2>8, <2>9, <2>10, JobCompleted, ZenonT(60)
    <2>11. Follows(j, o, n, v)
      <3>1. [material |-> m].material = m
        OBVIOUS
      <3> QED
        BY <2>10, <3>1
    <2> QED
      BY <2>1, <2>8, <2>9, <2>10, <2>11 DEF o, n
  <1> QED
    BY <1>0, <1>1, <1>2, <1>3, <1>4

\* What is known of the workers, up to the lease of "u", is what was known.
LeaseKept(v, u) == v.worker = worker \/ v.worker = [worker EXCEPT ![u].left = 0]

\* A worker whose finish is answered starts anew.
LEMMA FinishUnknown ==
    ASSUME NEW v, EnvInv(v), NEW y \in Stages(v, "open"), NEW u \in Workers,
           disk' = y.disk, engine' = y.engine, Done(disk', engine', u),
           completed' = v.completed,
           LeaseKept(v, u),
           v.epoch = epoch', v.stopped = stopped', v.purged = purged'
    PROVE  JobsInv'
  <1>1. PICK k : /\ LeaseRecord(k) /\ k.left = 0 /\ k.job = None
                 /\ ~InUse(disk', engine', u, k.request)
                 /\ worker' = [worker EXCEPT ![u] = k]
    BY DoneRecord
  <1>2. worker' = [v.worker EXCEPT ![u] = k]
    <2>1. CASE v.worker = worker
      BY <1>1, <2>1
    <2>2. CASE v.worker = [worker EXCEPT ![u].left = 0]
      <3>1. [[worker EXCEPT ![u].left = 0] EXCEPT ![u] = k] = [worker EXCEPT ![u] = k]
        OBVIOUS
      <3> QED
        BY <1>1, <2>2, <3>1
    <2> QED
      BY <2>1, <2>2 DEF LeaseKept
  <1>3. Learns(v, Env', u, k)
    <2>1. /\ Env'.worker = worker' /\ Env'.epoch = epoch' /\ Env'.completed = completed'
          /\ Env'.stopped = stopped' /\ Env'.purged = purged'
      BY DEF Env
    <2> QED
      BY <1>2, <2>1 DEF Learns
  <1>4. ~InUse(disk', y.engine, u, k.request)
    BY <1>1
  <1>5. EnvInv(Env') /\ y \in Stages(Env', "open")
    BY <1>1, <1>3, <1>4, StageOfDone
  <1> QED
    BY <1>5, AnsweredEnds

\* The same of a completion, which becomes known.
LEMMA FinishAnswered ==
    ASSUME NEW v, EnvInv(v), NEW y \in Stages(v, "open"), NEW u \in Workers,
           disk' = y.disk, engine' = y.engine, Done(disk', engine', u),
           NEW j \in Jobs,
           NEW r \in [job : Jobs, epoch : 1 .. MaxEnqueues, material : Materials],
           completed' = v.completed \cup {r}, r.job = j,
           y.engine.jobs[j] # NoJob, y.engine.jobs[j].state = "completed",
           r.epoch = y.engine.jobs[j].epoch,
           r.material = y.engine.jobs[j].fence.material,
           LeaseKept(v, u),
           v.epoch = epoch', v.stopped = stopped', v.purged = purged'
    PROVE  JobsInv'
  <1> DEFINE w == [worker |-> v.worker, epoch |-> v.epoch, completed |-> completed',
                   stopped |-> v.stopped, purged |-> v.purged]
  <1>1. /\ w.worker = v.worker /\ w.epoch = v.epoch /\ w.completed = completed'
        /\ w.stopped = v.stopped /\ w.purged = v.purged
    OBVIOUS
  <1> HIDE DEF w
  <1>2. EnvInv(w) /\ y \in Stages(w, "open")
    BY <1>1, ResultKnown
  <1>3. LeaseKept(w, u)
    BY <1>1 DEF LeaseKept
  <1> QED
    BY <1>1, <1>2, <1>3, FinishUnknown

\* A finish whose memories have changed fails the job.
LEMMA FinishRefused ==
    ASSUME JobsInv, Open, NEW u \in Workers, NEW j \in Jobs, engine.jobs[j] # NoJob,
           Reported(u, commit_state(Here,
               WithJob(engine, j, mark_job_source_changed(engine.jobs[j]))))
    PROVE  JobsInv'
  <1> DEFINE v == Released(Env, u)
             o == engine.jobs[j]
             n == mark_job_source_changed(o)
             next == WithJob(engine, j, n)
             all == commit_state(Here, next)
  <1>1. /\ EnvInv(v) /\ Stage(disk, engine) \in Stages(v, "open")
        /\ v.worker = [worker EXCEPT ![u].left = 0]
        /\ v.epoch = epoch /\ v.completed = completed
        /\ v.stopped = stopped /\ v.purged = purged
        /\ v = [worker |-> v.worker, epoch |-> v.epoch, completed |-> v.completed,
                stopped |-> v.stopped, purged |-> v.purged]
    BY ReleasedStage
  <1>2. /\ Completes(all) \/ Fails(all) \/ Crashes(all)
        /\ worker' = [worker EXCEPT ![u].left = 0] /\ UNCHANGED ghosts
    BY DEF Reported
  <1> HIDE DEF v
  <1>3. Env' = v
    BY <1>1, <1>2 DEF Env, ghosts
  <1>4. /\ engine \in GraphType /\ engine.runs[j] \in RunType
        /\ o \in JobType /\ JobInv(j, o, engine.runs[j], v)
        /\ \A p \in engine.runs[j].evidence : Current(p, disk)
    <2>1. engine \in GraphType /\ GraphInv(engine, disk, v)
      BY <1>1 DEF Stages, StageType, Stage
    <2> QED
      BY <2>1, OwnJobs DEF GraphInv
  <1> HIDE DEF o
  <1>5. n \in JobType /\ JobInv(j, n, engine.runs[j], v) /\ Follows(j, o, n, v)
    <2>1. CASE o.state \in terminal
      <3>1. n = o
        BY <2>1 DEF mark_job_source_changed
      <3> QED
        BY <1>4, <3>1, JobStays
    <2>2. CASE o.state \notin terminal
      <3> DEFINE f == [ended(o, "failed") EXCEPT !.cancel = FALSE]
      <3>1. n = f
        BY <2>2 DEF mark_job_source_changed
      <3>2. f \in JobType /\ JobInv(j, f, engine.runs[j], v) /\ Follows(j, o, f, v)
        BY <1>4, <2>2, EndedJob
      <3> HIDE DEF f, n
      <3> QED
        BY <3>1, <3>2
    <2> QED
      BY <2>1, <2>2
  <1> HIDE DEF n
  <1>6. /\ next \in GraphType /\ next.runs = engine.runs
        /\ next.jobs = [i \in Jobs |-> IF i = j THEN n ELSE engine.jobs[i]]
    <2>1. [engine EXCEPT !.jobs = engine.jobs] = engine
          /\ engine.jobs \in [Jobs -> JobType \cup {NoJob}]
      BY <1>4, OwnJobs
    <2> DEFINE same == WithJob([engine EXCEPT !.jobs = engine.jobs], j, n)
    <2>2. /\ same \in GraphType /\ same.runs = engine.runs
          /\ same.jobs = [i \in Jobs |-> IF i = j THEN n ELSE engine.jobs[i]]
      BY <1>4, <1>5, <2>1, WithJobGraph
    <2> QED
      BY <2>1, <2>2
  <1> HIDE DEF next
  <1>7. Sound(all, Stages(v, "open"))
    <2>1. /\ \A i \in Jobs : next.jobs[i] = IF i = j THEN n ELSE engine.jobs[i]
          /\ \A i \in Jobs : next.runs[i] = IF i = j THEN engine.runs[j] ELSE engine.runs[i]
      BY <1>6
    <2>2. Follows(j, engine.jobs[j], n, v)
      BY <1>5 DEF o
    <2> QED
      BY <1>1, <1>4, <1>5, <1>6, <2>1, <2>2, RunCommit
  <1>8. EnvInv(Env') /\ Sound(all, Stages(Env', "open"))
    BY <1>1, <1>3, <1>7
  <1>9. Completes(all) \/ Fails(all) \/ Crashes(all)
    BY <1>2
  <1> HIDE DEF all
  <1> QED
    BY <1>8, <1>9, HandlerEnds

\* A finish that is made again: the job is completed by it already.
LEMMA FinishReplayed ==
    ASSUME JobsInv, Open, NEW u \in Workers, NEW m \in Materials,
           NEW j \in Jobs, engine.jobs[j] # NoJob,
           recover_expired_jobs(engine.jobs)[j].state = "completed",
           Replays(u, m, recover_expired_jobs(engine.jobs)[j]),
           completed' = completed \cup
               {[job |-> j, epoch |-> worker[u].token.epoch, material |-> m]},
           UNCHANGED <<disk, engine, epoch, stopped, purged>>,
           Done(disk', engine', u)
    PROVE  JobsInv'
  <1> DEFINE o == engine.jobs[j]
             r == [job |-> j, epoch |-> worker[u].token.epoch, material |-> m]
             x == Stage(disk, engine)
  <1>1. /\ EnvInv(Env) /\ x \in Stages(Env, "open") /\ engine \in GraphType
        /\ GraphInv(engine, disk, Env)
    BY HandlerStarts
  <1>2. o \in JobType /\ JobInv(j, o, engine.runs[j], Env)
    BY <1>1, OwnJobs DEF GraphInv
  <1>3. recover_expired_jobs(engine.jobs)[j] = o
    BY <1>1, <1>2, RecoveredJob
  <1>4. o.state = "completed" /\ o.fence = [token |-> worker[u].token, material |-> m]
    BY <1>3 DEF Replays, Fence
  <1>5. o.fence.token.epoch = o.epoch /\ o.epoch \in 1 .. MaxEnqueues
    BY <1>2, <1>4 DEF JobInv, JobTyped, JobType
  <1>6. /\ r \in [job : Jobs, epoch : 1 .. MaxEnqueues, material : Materials]
        /\ r.job = j /\ r.epoch = o.epoch /\ r.material = o.fence.material
    BY <1>4, <1>5
  <1>7. completed' = completed \cup {r}
    OBVIOUS
  <1>8. x.disk = disk /\ x.engine = engine
    BY DEF Stage
  <1>9. /\ Env.worker = worker /\ Env.epoch = epoch /\ Env.completed = completed
        /\ Env.stopped = stopped /\ Env.purged = purged
    BY DEF Env
  <1> HIDE DEF r, x
  <1>10. /\ disk' = x.disk /\ engine' = x.engine
         /\ Env.epoch = epoch' /\ Env.stopped = stopped' /\ Env.purged = purged'
    BY <1>8, <1>9
  <1>11. /\ completed' = Env.completed \cup {r} /\ r.job = j
         /\ x.engine.jobs[j] # NoJob /\ x.engine.jobs[j].state = "completed"
         /\ r.epoch = x.engine.jobs[j].epoch
         /\ r.material = x.engine.jobs[j].fence.material
    BY <1>2, <1>4, <1>6, <1>7, <1>8, <1>9, Shapes
  <1>12. LeaseKept(Env, u)
    BY <1>9 DEF LeaseKept
  <1> QED
    BY <1>1, <1>6, <1>10, <1>11, <1>12, FinishAnswered

\* A finish under a lease that holds: the job, the runs, the writes, and what
\* is known once it is answered.
HeldJob(u, m) == Finished(u, m, worker[u].job, recover_expired_jobs(engine.jobs))
HeldRuns(u, m) ==
    IF HeldJob(u, m).state = "completed"
    THEN [engine.runs EXCEPT ![worker[u].job] = Applied(m, worker[u].job)]
    ELSE engine.runs
HeldStages(u, m) ==
    commit_state(Here,
        [engine EXCEPT
            !.jobs = [recover_expired_jobs(engine.jobs) EXCEPT ![worker[u].job] = HeldJob(u, m)],
            !.runs = HeldRuns(u, m)])
Held(u, m) ==
    /\ m \in Materials =>
          validate_graph_job_sources(worker[u].job, engine.jobs[worker[u].job])
    /\ Holds(u, recover_expired_jobs(engine.jobs))
    /\ \/ Reported(u, HeldStages(u, m))
       \/ /\ Completes(HeldStages(u, m))
          /\ completed' = IF HeldJob(u, m).state = "completed"
                          THEN completed \cup {[job |-> worker[u].job,
                                                epoch |-> worker[u].token.epoch,
                                                material |-> m]}
                          ELSE completed
          /\ Done(disk', engine', u)
          /\ UNCHANGED <<epoch, stopped, purged, changes>>

LEMMA FinishHeld ==
    ASSUME JobsInv, Open, NEW u \in Workers, worker[u].job \in Jobs,
           NEW m \in Materials \cup {"retryable", "permanent"}, Held(u, m)
    PROVE  JobsInv'
  <1> DEFINE j == worker[u].job
             jobs == recover_expired_jobs(engine.jobs)
             n == HeldJob(u, m)
             ran == IF n.state = "completed" THEN Applied(m, j) ELSE engine.runs[j]
             runs == HeldRuns(u, m)
             stages == HeldStages(u, m)
             v == Released(Env, u)
             o == jobs[j]
             next == [engine EXCEPT !.jobs = [jobs EXCEPT ![j] = n], !.runs = runs]
             y == Last(stages)
  <1>0. /\ j \in Jobs /\ jobs = recover_expired_jobs(engine.jobs)
        /\ m \in Materials => validate_graph_job_sources(j, engine.jobs[j])
        /\ Holds(u, jobs) /\ n = Finished(u, m, j, jobs)
        /\ runs = IF n.state = "completed" THEN [engine.runs EXCEPT ![j] = ran]
                  ELSE engine.runs
        /\ stages = commit_state(Here, next)
        /\ \/ Reported(u, stages)
           \/ /\ Completes(stages)
              /\ completed' = IF n.state = "completed"
                              THEN completed \cup {[job |-> j, epoch |-> worker[u].token.epoch,
                                                    material |-> m]}
                              ELSE completed
              /\ Done(disk', engine', u)
              /\ UNCHANGED <<epoch, stopped, purged, changes>>
    BY DEF Held, HeldJob, HeldRuns, HeldStages
  <1>1. /\ EnvInv(v) /\ Stage(disk, engine) \in Stages(v, "open")
        /\ v.worker[u].left = 0 /\ v.worker[u].job = worker[u].job
        /\ v.worker[u].token = worker[u].token
        /\ v.worker = [worker EXCEPT ![u].left = 0]
        /\ v.epoch = epoch /\ v.completed = completed
        /\ v.stopped = stopped /\ v.purged = purged
        /\ v = [worker |-> v.worker, epoch |-> v.epoch, completed |-> v.completed,
                stopped |-> v.stopped, purged |-> v.purged]
    BY ReleasedStage
  <1> HIDE DEF v
  <1>2. /\ engine \in GraphType /\ disk \in DiskType
        /\ engine.jobs \in [Jobs -> JobType \cup {NoJob}]
        /\ engine.runs \in [Jobs -> RunType]
        /\ \A i \in Jobs : /\ JobInv(i, engine.jobs[i], engine.runs[i], v)
                           /\ \A p \in engine.runs[i].evidence : Current(p, disk)
    <2>1. engine \in GraphType /\ disk \in DiskType /\ GraphInv(engine, disk, v)
      BY <1>1 DEF Stages, StageType, Stage
    <2> QED
      BY <2>1, OwnJobs DEF GraphInv
  <1>3. jobs \in [Jobs -> JobType \cup {NoJob}]
    BY <1>0, HereRecovered
  <1>4. /\ o \in JobType /\ JobInv(j, o, engine.runs[j], v)
        /\ o.state \in active /\ o.token = worker[u].token
    <2>1. JobInv(j, o, engine.runs[j], v)
      BY <1>0, <1>1, <1>2, RecoveredJob
    <2>2. o.state \in active /\ o.token = worker[u].token
      BY <1>0 DEF Holds
    <2>3. o # NoJob
      BY <2>2 DEF NoJob, active, None
    <2> QED
      BY <1>3, <2>1, <2>2, <2>3
  <1>5. worker[u].token.worker = u /\ worker[u].job # None
    <2>1. WorkerInv(u, v) /\ j # None
      BY <1>1, JobConstants DEF EnvInv
    <2> QED
      BY <1>1, <2>1 DEF WorkerInv
  <1>6. engine.runs[j].material = None
    BY <1>4, SMTT(30) DEF JobInv, RunTyped, active
  <1>7. /\ n \in JobType /\ Follows(j, o, n, v) /\ n.epoch = o.epoch
        /\ n.state # "completed" => JobInv(j, n, engine.runs[j], v)
        /\ n.state = "completed" =>
              /\ m \in Materials /\ IsFence(n.fence, o.token, m)
              /\ \A run : run.material = m => JobInv(j, n, run, v)
    <2>1. v.worker[u].left = 0 /\ v.worker[u].job # None
      BY <1>1, <1>5
    <2> HIDE DEF o
    <2>2. /\ jobs[j] \in JobType /\ JobInv(j, jobs[j], engine.runs[j], v)
          /\ jobs[j].state \in active /\ jobs[j].token = worker[u].token
      BY <1>4 DEF o
    <2> DEFINE f == Finished(u, m, j, jobs)
    <2>3. /\ f \in JobType /\ Follows(j, jobs[j], f, v) /\ f.epoch = jobs[j].epoch
          /\ f.state # "completed" => JobInv(j, f, engine.runs[j], v)
          /\ f.state = "completed" =>
                /\ m \in Materials /\ IsFence(f.fence, jobs[j].token, m)
                /\ \A run : run.material = m => JobInv(j, f, run, v)
      BY <1>0, <1>1, <1>5, <2>1, <2>2, FinishedJob
    <2>4. n = f
      BY <1>0
    <2> HIDE DEF f
    <2> QED
      BY <2>3, <2>4 DEF o
  <1>8. n.state = "completed" =>
          /\ ran.material = m /\ ran \in RunType
          /\ \A p \in ran.evidence : Current(p, disk)
    <2>1. SUFFICES ASSUME n.state = "completed"
                   PROVE  /\ ran.material = m /\ ran \in RunType
                          /\ \A p \in ran.evidence : Current(p, disk)
      OBVIOUS
    <2>2. ran = [material |-> m, evidence |-> binding(j)]
      BY <1>6, <2>1 DEF Applied
    <2>3. binding(j) \in SUBSET (Sources \X Versions)
      BY <1>2, BindingType
    <2>4. \A s \in SourcesOf[j] : Usable(s)
      BY <1>0, <1>7, <2>1 DEF validate_graph_job_sources
    <2>5. \A p \in binding(j) : Current(p, disk)
      BY <2>4 DEF binding, Usable, Current
    <2> QED
      BY <1>7, <2>1, <2>2, <2>3, <2>5 DEF RunType
  <1>9. /\ JobInv(j, n, ran, v) /\ ran \in RunType
        /\ \A p \in ran.evidence : Current(p, disk)
    BY <1>2, <1>7, <1>8, SMTT(30)
  <1>10. /\ runs \in [Jobs -> RunType]
         /\ \A i \in Jobs : runs[i] = IF i = j THEN ran ELSE engine.runs[i]
    BY <1>0, <1>2, <1>9
  <1>11. /\ next \in GraphType
         /\ \A i \in Jobs : next.jobs[i] = IF i = j THEN n ELSE jobs[i]
         /\ \A i \in Jobs : next.runs[i] = IF i = j THEN ran ELSE engine.runs[i]
    <2> DEFINE changed == [jobs EXCEPT ![j] = n]
               g == [engine EXCEPT !.jobs = changed]
    <2>1. /\ changed \in [Jobs -> JobType \cup {NoJob}]
          /\ \A i \in Jobs : changed[i] = IF i = j THEN n ELSE jobs[i]
      BY <1>3, <1>7
    <2> HIDE DEF changed
    <2>2. g \in GraphType /\ g.jobs = changed
      BY <1>2, <2>1 DEF GraphType
    <2>3. next = [g EXCEPT !.runs = runs]
      BY DEF changed
    <2> HIDE DEF g, next
    <2>4. next \in GraphType /\ next.jobs = changed /\ next.runs = runs
      BY <1>10, <2>2, <2>3 DEF GraphType
    <2> QED
      BY <1>10, <2>1, <2>4
  <1>12. stages = commit_state(Here, next)
    BY <1>0
  <1> HIDE DEF next
  <1>13. /\ Sound(stages, Stages(v, "open")) /\ y \in Stages(v, "open")
         /\ y.engine.jobs = next.jobs
    <2>1. jobs \in {engine.jobs, recover_expired_jobs(engine.jobs)}
      BY <1>0
    <2>2. Follows(j, jobs[j], n, v)
      BY <1>7
    <2> HIDE DEF o
    <2>3. LET all == commit_state(Here, next)
              z == Last(all)
          IN /\ Sound(all, Stages(v, "open")) /\ z \in Stages(v, "open")
             /\ z.engine.jobs = next.jobs
      BY <1>0, <1>1, <1>7, <1>9, <1>11, <2>1, <2>2, RunCommit
    <2> QED
      BY <1>12, <2>3
  <1>14. CASE Reported(u, stages)
    <2>1. /\ Completes(stages) \/ Fails(stages) \/ Crashes(stages)
          /\ worker' = [worker EXCEPT ![u].left = 0] /\ UNCHANGED ghosts
      BY <1>14 DEF Reported
    <2>2. Env' = v
      BY <1>1, <2>1 DEF Env, ghosts
    <2>3. EnvInv(Env') /\ Sound(stages, Stages(Env', "open"))
      BY <1>1, <1>13, <2>2
    <2> QED
      BY <2>1, <2>3, HandlerEnds
  <1>15. CASE ~Reported(u, stages)
    <2>1. /\ Completes(stages) /\ Done(disk', engine', u)
          /\ UNCHANGED <<epoch, stopped, purged>>
          /\ completed' = IF n.state = "completed"
                          THEN completed \cup
                                   {[job |-> j, epoch |-> worker[u].token.epoch,
                                     material |-> m]}
                          ELSE completed
      BY <1>0, <1>15
    <2>2. disk' = y.disk /\ engine' = y.engine
      BY <2>1 DEF Completes
    <2>3. /\ y.engine.jobs[j] = n /\ n # NoJob
          /\ o.epoch \in 1 .. MaxEnqueues /\ o.token.epoch = o.epoch
      <3>1. n # NoJob /\ o # NoJob
        BY <1>4, <1>7, Shapes
      <3>2. o.epoch \in 1 .. MaxEnqueues
        BY <1>4 DEF JobType
      <3>3. o.token.epoch = o.epoch
        BY <1>4, <3>1 DEF JobInv, JobTyped
      <3>4. y.engine.jobs[j] = n
        BY <1>11, <1>13
      <3> QED
        BY <3>1, <3>2, <3>3, <3>4
    <2>4. CASE n.state = "completed"
      <3> DEFINE q == [job |-> j, epoch |-> o.epoch, material |-> m]
      <3>1. /\ q \in [job : Jobs, epoch : 1 .. MaxEnqueues, material : Materials]
            /\ q.job = j /\ q.epoch = n.epoch /\ q.material = n.fence.material
        BY <1>0, <1>7, <2>3, <2>4 DEF IsFence
      <3>2. completed' = v.completed \cup {q}
        BY <1>1, <1>4, <2>1, <2>3, <2>4
      <3> HIDE DEF q
      <3>3. /\ q.job = j
            /\ y.engine.jobs[j] # NoJob /\ y.engine.jobs[j].state = "completed"
            /\ q.epoch = y.engine.jobs[j].epoch
            /\ q.material = y.engine.jobs[j].fence.material
        BY <2>3, <2>4, <3>1
      <3>4. v.epoch = epoch' /\ v.stopped = stopped' /\ v.purged = purged'
        BY <1>1, <2>1
      <3>5. LeaseKept(v, u)
        BY <1>1 DEF LeaseKept
      <3> QED
        BY <1>1, <1>13, <2>1, <2>2, <3>1, <3>2, <3>3, <3>4, <3>5, <1>0, FinishAnswered
    <2>5. CASE n.state # "completed"
      <3>1. completed' = v.completed
        BY <1>1, <2>1, <2>5
      <3>2. v.epoch = epoch' /\ v.stopped = stopped' /\ v.purged = purged'
        BY <1>1, <2>1
      <3>3. LeaseKept(v, u)
        BY <1>1 DEF LeaseKept
      <3> QED
        BY <1>1, <1>13, <2>1, <2>2, <3>1, <3>2, <3>3, FinishUnknown
    <2> QED
      BY <2>4, <2>5
  <1> QED
    BY <1>14, <1>15

\* graph_extract_finish.
LEMMA FinishStep ==
    ASSUME JobsInv, NEW u \in Workers,
           NEW m \in Materials \cup {"retryable", "permanent"},
           graph_extract_finish(u, m)
    PROVE  JobsInv'
  <1> DEFINE j == worker[u].job
             jobs == recover_expired_jobs(engine.jobs)
             n == Finished(u, m, j, jobs)
             runs == IF n.state = "completed" THEN [engine.runs EXCEPT ![j] = Applied(m, j)]
                     ELSE engine.runs
             stages == commit_state(Here, [engine EXCEPT !.jobs = [jobs EXCEPT ![j] = n],
                                                         !.runs = runs])
             answered == completed \cup {[job |-> j, epoch |-> worker[u].token.epoch,
                                          material |-> m]}
             refused == Reported(u, commit_state(Here,
                            WithJob(engine, j, mark_job_source_changed(engine.jobs[j]))))
             replayed == /\ m \in Materials /\ jobs[j].state = "completed"
                         /\ Replays(u, m, jobs[j]) /\ completed' = answered
                         /\ UNCHANGED <<disk, engine, epoch, stopped, purged>>
                         /\ Done(disk', engine', u)
             held == /\ m \in Materials => validate_graph_job_sources(j, engine.jobs[j])
                     /\ Holds(u, jobs)
                     /\ \/ Reported(u, stages)
                        \/ /\ Completes(stages)
                           /\ completed' = IF n.state = "completed" THEN answered
                                           ELSE completed
                           /\ Done(disk', engine', u)
                           /\ UNCHANGED <<epoch, stopped, purged, changes>>
  <1>1. /\ Open /\ j # None /\ engine.jobs[j] # NoJob
        /\ refused \/ replayed \/ held
    BY DEF graph_extract_finish
  <1>2. j \in Jobs
    <2>1. EnvInv(Env) /\ Env.worker = worker
      BY DEF JobsInv, Env
    <2>2. WorkerInv(u, Env)
      BY <2>1 DEF EnvInv
    <2> QED
      BY <1>1, <2>1, <2>2 DEF WorkerInv
  <1>3. CASE refused
    <2> HIDE DEF j
    <2> QED
      BY <1>1, <1>2, <1>3, FinishRefused
  <1>4. CASE replayed
    <2>1. /\ m \in Materials
          /\ recover_expired_jobs(engine.jobs)[j].state = "completed"
          /\ Replays(u, m, recover_expired_jobs(engine.jobs)[j])
          /\ completed' = completed \cup
               {[job |-> j, epoch |-> worker[u].token.epoch, material |-> m]}
          /\ UNCHANGED <<disk, engine, epoch, stopped, purged>>
          /\ Done(disk', engine', u)
      BY <1>4
    <2> HIDE DEF j, replayed
    <2> QED
      BY <1>1, <1>2, <2>1, FinishReplayed
  <1>5. CASE held
    <2>1. Held(u, m)
      BY <1>5 DEF Held, HeldJob, HeldRuns, HeldStages
    <2> HIDE DEF held, replayed, refused
    <2> QED
      BY <1>1, <1>2, <2>1, FinishHeld
  <1> QED
    BY <1>1, <1>3, <1>4, <1>5
-----------------------------------------------------------------------------
(***************************************************************************)
(* Changes of memories.                                                    *)
(***************************************************************************)
GraphsOf(x) == {x.engine, x.disk.main, x.disk.pending} \ {NoGraph}

\* A durable write of the memories, or of their journal, leaves the evidence
\* that the graphs hold current.
LEMMA MemoryWrite ==
    ASSUME NEW v, NEW mode, NEW stages, Sound(stages, Stages(v, mode)),
           NEW d \in DiskType, d.main = Last(stages).disk.main,
           d.pending = Last(stages).disk.pending,
           \A u \in d.upserts : u[2] # 0,
           \A t, u \in d.upserts : t[1] = u[1] => t = u,
           \A g \in GraphsOf(Last(stages)), j \in Jobs : \A p \in g.runs[j].evidence :
               Current(p, Last(stages).disk) => Current(p, d)
    PROVE  /\ Sound(On(stages, d), Stages(v, mode))
           /\ Last(On(stages, d)) = Stage(d, Last(stages).engine)
           /\ Last(On(stages, d)) \in Stages(v, mode)
           /\ Last(On(stages, d)).disk = d
           /\ Last(On(stages, d)).engine = Last(stages).engine
  <1> DEFINE x == Last(stages)
             y == Stage(d, x.engine)
  <1>1. x \in Stages(v, mode)
    BY LastSound
  <1>2. y.disk = d /\ y.engine = x.engine
    BY DEF Stage
  <1>3. /\ x \in StageType /\ DiskInv(x.disk, v) /\ GraphInv(x.engine, x.disk, v)
        /\ mode = "open" => Successor(x.engine, x.disk.main, v)
        /\ mode = "open" /\ x.disk.pending # NoGraph =>
              Successor(x.engine, x.disk.pending, v)
    BY <1>1 DEF Stages
  <1>4. ASSUME NEW g \in GraphsOf(x), GraphInv(g, x.disk, v)
        PROVE  GraphInv(g, d, v)
    BY <1>4 DEF GraphInv
  <1>5. x.engine # NoGraph /\ x.disk.main # NoGraph
    BY <1>3, Shapes DEF StageType, DiskType
  <1>6. GraphInv(x.engine, d, v)
    BY <1>3, <1>4, <1>5 DEF GraphsOf
  <1>7. DiskInv(d, v)
    <2>1. GraphInv(x.disk.main, x.disk, v) /\ GraphInv(d.main, d, v)
      BY <1>3, <1>4, <1>5 DEF DiskInv, GraphsOf
    <2>2. d.pending # NoGraph => GraphInv(d.pending, d, v)
      BY <1>3, <1>4 DEF DiskInv, GraphsOf
    <2> QED
      BY <2>1, <2>2 DEF DiskInv
  <1>8. y \in StageType
    BY <1>3 DEF StageType, Stage
  <1>9. y \in Stages(v, mode)
    BY <1>2, <1>3, <1>6, <1>7, <1>8 DEF Stages
  <1>10. ~Writes(x, y)
    BY <1>2 DEF Writes
  <1>11. On(stages, d) = Append(stages, y)
    BY DEF On
  <1> HIDE DEF x, y
  <1>12. /\ Sound(Append(stages, y), Stages(v, mode))
         /\ Last(Append(stages, y)) = y
    BY <1>9, <1>10, AppendSound DEF x
  <1> QED
    BY <1>2, <1>9, <1>11, <1>12 DEF x, y

\* What becomes of a job when memories change: it stays, or it fails.
erased_job(j, job, ids) ==
    IF job.state \in terminal \cup {None} \/ SourcesOf[j] \cap ids = {} THEN job
    ELSE [ended(job, "failed") EXCEPT !.cancel = FALSE]

LEMMA ErasedJob ==
    ASSUME NEW v, NEW j, NEW run, NEW ran, NEW ids,
           NEW o \in JobType \cup {NoJob}, JobInv(j, o, run, v),
           ran.material = run.material
    PROVE  LET n == erased_job(j, o, ids)
           IN n \in JobType \cup {NoJob} /\ JobInv(j, n, ran, v) /\ Follows(j, o, n, v)
  <1> DEFINE n == erased_job(j, o, ids)
  <1>1. n \in JobType \cup {NoJob} /\ JobInv(j, n, run, v) /\ Follows(j, o, n, v)
    <2>1. CASE o.state \in terminal \cup {None} \/ SourcesOf[j] \cap ids = {}
      <3>1. n = o
        BY <2>1 DEF erased_job
      <3> QED
        BY <3>1, JobStays
    <2>2. CASE ~(o.state \in terminal \cup {None} \/ SourcesOf[j] \cap ids = {})
      <3> DEFINE f == [ended(o, "failed") EXCEPT !.cancel = FALSE]
      <3>1. n = f
        BY <2>2 DEF erased_job
      <3>2. o \in JobType
        BY <2>2 DEF NoJob
      <3>3. f \in JobType /\ JobInv(j, f, run, v) /\ Follows(j, o, f, v)
        BY <2>2, <3>2, EndedJob
      <3> HIDE DEF f, n
      <3> QED
        BY <3>1, <3>3
    <2> QED
      BY <2>1, <2>2
  <1> HIDE DEF n
  <1>2. JobInv(j, n, ran, v)
    BY <1>1 DEF JobInv, RunTyped
  <1> QED
    BY <1>1, <1>2 DEF n

\* The graph without what the memories "ids" gave it.
LEMMA ErasedShape ==
    ASSUME NEW g \in GraphType, NEW ids
    PROVE  LET next == erase_sources(g, ids)
           IN /\ \A j \in Jobs : next.jobs[j] = erased_job(j, g.jobs[j], ids)
              /\ next.jobs = [j \in Jobs |-> erased_job(j, g.jobs[j], ids)]
              /\ \A j \in Jobs : next.runs[j].material = g.runs[j].material
              /\ \A j \in Jobs : next.runs[j].evidence
                                   = {p \in g.runs[j].evidence : p[1] \notin ids}
              /\ next.runs \in [Jobs -> RunType]
              /\ next.generation = g.generation
              /\ next = [jobs |-> next.jobs, runs |-> next.runs,
                         generation |-> next.generation]
  <1> DEFINE next == erase_sources(g, ids)
             jobs == [j \in Jobs |-> erased_job(j, g.jobs[j], ids)]
             runs == [j \in Jobs |->
                        [material |-> g.runs[j].material,
                         evidence |-> {p \in g.runs[j].evidence : p[1] \notin ids}]]
  <1>1. next = [g EXCEPT !.jobs = jobs, !.runs = runs]
    <2> DEFINE same == [j \in Jobs |->
                  IF g.jobs[j].state \in terminal \cup {None} \/ SourcesOf[j] \cap ids = {}
                  THEN g.jobs[j]
                  ELSE [ended(g.jobs[j], "failed") EXCEPT !.cancel = FALSE]]
    <2>1. next = [g EXCEPT !.jobs = same, !.runs = runs]
      BY DEF erase_sources
    <2>2. same = jobs
      BY DEF erased_job
    <2> HIDE DEF same, runs, jobs, next
    <2> QED
      BY <2>1, <2>2
  <1>2. g = [jobs |-> g.jobs, runs |-> g.runs, generation |-> g.generation]
        /\ g.runs \in [Jobs -> RunType]
    BY DEF GraphType
  <1>3. \A j \in Jobs : /\ runs[j] \in RunType
                        /\ runs[j].material = g.runs[j].material
                        /\ runs[j].evidence = {p \in g.runs[j].evidence : p[1] \notin ids}
    <2>1. SUFFICES ASSUME NEW j \in Jobs
                   PROVE  /\ runs[j] \in RunType
                          /\ runs[j].material = g.runs[j].material
                          /\ runs[j].evidence
                               = {p \in g.runs[j].evidence : p[1] \notin ids}
      OBVIOUS
    <2>2. g.runs[j] \in RunType
      BY <1>2
    <2>3. {p \in g.runs[j].evidence : p[1] \notin ids} \in SUBSET (Sources \X Versions)
      BY <2>2 DEF RunType
    <2>4. g.runs[j].material \in Materials \cup {None}
      BY <2>2 DEF RunType
    <2> QED
      BY <2>3, <2>4 DEF RunType
  <1>4. runs = [j \in Jobs |-> runs[j]]
    OBVIOUS
  <1>5. jobs = [j \in Jobs |-> jobs[j]] /\ \A j \in Jobs : jobs[j] = erased_job(j, g.jobs[j], ids)
    OBVIOUS
  <1>6. jobs = [j \in Jobs |-> erased_job(j, g.jobs[j], ids)]
    OBVIOUS
  <1> HIDE DEF jobs, runs, next
  <1>7. next.jobs = jobs /\ next.runs = runs /\ next.generation = g.generation
        /\ next = [jobs |-> jobs, runs |-> runs, generation |-> g.generation]
    BY <1>1, <1>2
  <1>8. runs \in [Jobs -> RunType]
    BY <1>3, <1>4
  <1> QED
    BY <1>3, <1>5, <1>6, <1>7, <1>8 DEF next
LEMMA ErasedGraph ==
    ASSUME NEW v, NEW mode, NEW x \in Stages(v, mode), NEW ids
    PROVE  LET next == erase_sources(x.engine, ids)
           IN /\ next \in GraphType /\ GraphInv(next, x.disk, v)
              /\ Successor(x.engine, next, v)
  <1> DEFINE g == x.engine
             next == erase_sources(g, ids)
  <1>1. g \in GraphType /\ GraphInv(g, x.disk, v)
    BY DEF Stages, StageType
  <1>2. /\ \A j \in Jobs : g.jobs[j] \in JobType \cup {NoJob}
        /\ g.generation \in {0, 1}
    BY <1>1 DEF GraphType
  <1> HIDE DEF g
  <1>3. /\ \A j \in Jobs : next.jobs[j] = erased_job(j, g.jobs[j], ids)
        /\ next.jobs = [j \in Jobs |-> erased_job(j, g.jobs[j], ids)]
        /\ \A j \in Jobs : next.runs[j].material = g.runs[j].material
        /\ \A j \in Jobs : next.runs[j].evidence
                             = {p \in g.runs[j].evidence : p[1] \notin ids}
        /\ next.runs \in [Jobs -> RunType]
        /\ next.generation = g.generation
        /\ next = [jobs |-> next.jobs, runs |-> next.runs, generation |-> next.generation]
    BY <1>1, ErasedShape
  <1> HIDE DEF next
  <1>4. ASSUME NEW j \in Jobs
        PROVE  /\ next.jobs[j] \in JobType \cup {NoJob}
               /\ JobInv(j, next.jobs[j], next.runs[j], v)
               /\ Follows(j, g.jobs[j], next.jobs[j], v)
    <2>1. JobInv(j, g.jobs[j], g.runs[j], v)
      BY <1>1 DEF GraphInv
    <2>2. next.runs[j].material = g.runs[j].material
      BY <1>3
    <2>3. LET n == erased_job(j, g.jobs[j], ids)
          IN n \in JobType \cup {NoJob} /\ JobInv(j, n, next.runs[j], v)
             /\ Follows(j, g.jobs[j], n, v)
      BY <1>2, <2>1, <2>2, ErasedJob
    <2> QED
      BY <1>3, <2>3
  <1>5. next.jobs \in [Jobs -> JobType \cup {NoJob}]
    BY <1>3, <1>4
  <1>6. next \in GraphType
    BY <1>2, <1>3, <1>5 DEF GraphType
  <1>7. GraphInv(next, x.disk, v)
    BY <1>1, <1>3, <1>4 DEF GraphInv
  <1>8. Successor(g, next, v)
    BY <1>4 DEF Successor, Follows
  <1> QED
    BY <1>6, <1>7, <1>8 DEF g, next

\* The commit that takes the memories "ids" out of the graph.
LEMMA ErasedSound ==
    ASSUME NEW v, NEW mode, NEW stages, Sound(stages, Stages(v, mode)), NEW ids
    PROVE  LET x == Last(stages)
               all == Erased(stages, ids)
               y == Last(all)
           IN /\ Sound(all, Stages(v, mode))
              /\ y \in Stages(v, mode)
              /\ y.disk.main = y.engine /\ y.disk.pending = NoGraph
              /\ y.disk.memory = x.disk.memory
              /\ y.disk.upserts = x.disk.upserts /\ y.disk.deletes = x.disk.deletes
              /\ \A g \in GraphsOf(y), j \in Jobs : \A p \in g.runs[j].evidence :
                    p[1] \notin ids
  <1> DEFINE x == Last(stages)
             next == erase_sources(x.engine, ids)
             all == commit_state(stages, next)
             y == Last(all)
  <1>1. x \in Stages(v, mode) /\ x.engine \in GraphType
    BY LastSound DEF Stages, StageType
  <1>2. /\ next \in GraphType /\ GraphInv(next, x.disk, v)
        /\ Successor(x.engine, next, v)
    BY <1>1, ErasedGraph
  <1>3. \A j \in Jobs : next.runs[j].evidence
                          = {p \in x.engine.runs[j].evidence : p[1] \notin ids}
    BY <1>1, ErasedShape
  <1> HIDE DEF next
  <1>4. /\ Sound(all, Stages(v, mode)) /\ y \in Stages(v, mode)
        /\ y.engine.runs = next.runs
        /\ y.disk.main = y.engine /\ y.disk.pending = NoGraph
        /\ y.disk.memory = x.disk.memory
        /\ y.disk.upserts = x.disk.upserts /\ y.disk.deletes = x.disk.deletes
    BY <1>2, CommitSound
  <1>5. Erased(stages, ids) = all
    BY DEF Erased, next
  <1> HIDE DEF all, x
  <1>6. \A g \in GraphsOf(y) : g = y.engine
    BY <1>4 DEF GraphsOf
  <1>7. \A g \in GraphsOf(y), j \in Jobs : \A p \in g.runs[j].evidence : p[1] \notin ids
    BY <1>3, <1>4, <1>6
  <1> QED
    BY <1>4, <1>5, <1>7 DEF x

\* The graphs on disk are that of the engine, or the last commit made them so.
Settled(x) == x.disk.main = x.engine /\ x.disk.pending = NoGraph

\* Upserted: from the journal to the memories, and out of the journal.
LEMMA UpsertedSound ==
    ASSUME NEW v, NEW mode, NEW stages, Sound(stages, Stages(v, mode)),
           NEW U, U \subseteq Last(stages).disk.upserts
    PROVE  LET x == Last(stages)
               all == Upserted(stages, U)
               y == Last(all)
           IN /\ Sound(all, Stages(v, mode)) /\ y \in Stages(v, mode)
              /\ Settled(x) => Settled(y)
              /\ y.disk.deletes = x.disk.deletes
  <1> DEFINE x == Last(stages)
             changed == Changed(x.disk.memory, U)
             erased == IF changed = {} THEN stages ELSE Erased(stages, changed)
             e == Last(erased)
             d1 == [e.disk EXCEPT !.memory = Written(@, U)]
             written == On(erased, d1)
             d2 == [Last(written).disk EXCEPT !.upserts = @ \ U]
             all == On(written, d2)
  <1>1. x \in Stages(v, mode)
    BY LastSound
  <1>2. /\ Sound(erased, Stages(v, mode)) /\ e \in Stages(v, mode)
        /\ Settled(x) => Settled(e)
        /\ e.disk.memory = x.disk.memory
        /\ e.disk.upserts = x.disk.upserts /\ e.disk.deletes = x.disk.deletes
        /\ \A g \in GraphsOf(e), j \in Jobs : \A p \in g.runs[j].evidence :
              p[1] \notin changed
    <2>1. CASE changed = {}
      BY <1>1, <2>1
    <2>2. CASE changed # {}
      <3>1. erased = Erased(stages, changed)
        BY <2>2
      <3> HIDE DEF erased, changed, x
      <3>2. LET y == Last(Erased(stages, changed))
            IN /\ Sound(Erased(stages, changed), Stages(v, mode))
               /\ y \in Stages(v, mode)
               /\ Settled(y)
               /\ y.disk.memory = x.disk.memory
               /\ y.disk.upserts = x.disk.upserts /\ y.disk.deletes = x.disk.deletes
               /\ \A g \in GraphsOf(y), j \in Jobs : \A p \in g.runs[j].evidence :
                     p[1] \notin changed
        BY ErasedSound DEF x, Settled
      <3> QED
        BY <3>1, <3>2
    <2> QED
      BY <2>1, <2>2
  <1>3. /\ x.disk.memory \in [Sources -> Versions]
        /\ x.disk.upserts \in SUBSET (Sources \X Versions)
        /\ \A u \in x.disk.upserts : u[2] # 0
        /\ \A t, u \in x.disk.upserts : t[1] = u[1] => t = u
        /\ U \subseteq x.disk.upserts
    BY <1>1, SMTT(30) DEF Stages, DiskInv, DiskType
  <1> HIDE DEF x
  <1>4. e.disk \in DiskType
    BY <1>2 DEF Stages, StageType
  <1>5. /\ Written(x.disk.memory, U) \in [Sources -> Versions]
        /\ \A s \in Sources : \/ Written(x.disk.memory, U)[s] = x.disk.memory[s]
                              \/ \E u \in U : u[1] = s
        /\ \A u \in U : Written(x.disk.memory, U)[u[1]] = u[2]
    <2>1. \A u \in U : u[1] \in Sources /\ u[2] \in Versions
      BY <1>3
    <2>2. \A u \in U : (CHOOSE t \in U : t[1] = u[1]) = u
      BY <1>3
    <2>3. \A s \in Sources : (\E u \in U : u[1] = s) =>
             /\ (CHOOSE u \in U : u[1] = s) \in U
             /\ (CHOOSE u \in U : u[1] = s)[1] = s
      OBVIOUS
    <2>4. Written(x.disk.memory, U) \in [Sources -> Versions]
      BY <1>3, <2>1, <2>3 DEF Written
    <2> QED
      BY <2>1, <2>2, <2>4 DEF Written
  <1>6. \A u \in U : u[1] \notin changed => x.disk.memory[u[1]] \in {0, u[2]}
    BY DEF Changed
  <1> HIDE DEF changed, erased
  <1>7. /\ d1 \in DiskType /\ d1.main = e.disk.main /\ d1.pending = e.disk.pending
        /\ d1.memory = Written(x.disk.memory, U)
        /\ d1.upserts = x.disk.upserts /\ d1.deletes = x.disk.deletes
    BY <1>2, <1>4, <1>5 DEF DiskType
  <1> HIDE DEF d1
  <1>8. ASSUME NEW g \in GraphsOf(e), NEW j \in Jobs, NEW p \in g.runs[j].evidence,
               Current(p, e.disk)
        PROVE  Current(p, d1)
    <2>1. p[1] \notin changed
      BY <1>2
    <2>2. p[1] \notin x.disk.deletes /\ p[2] # 0 /\ x.disk.memory[p[1]] # 0
      BY <1>2, <1>8 DEF Current
    <2>3. Written(x.disk.memory, U)[p[1]] = x.disk.memory[p[1]]
      <3>1. CASE \E u \in U : u[1] = p[1]
        <4>1. PICK u \in U : u[1] = p[1]
          BY <3>1
        <4>2. x.disk.memory[p[1]] = u[2]
          BY <1>6, <2>1, <2>2, <4>1
        <4> QED
          BY <1>5, <4>1, <4>2
      <3>2. CASE ~ \E u \in U : u[1] = p[1]
        <4>1. p[1] \in Sources
          <5>1. g \in GraphType
            BY <1>2, <1>8 DEF Stages, StageType, DiskType, GraphsOf
          <5> QED
            BY <1>8, <5>1 DEF GraphType, RunType
        <4> QED
          BY <1>5, <3>2, <4>1
      <3> QED
        BY <3>1, <3>2
    <2> QED
      BY <1>2, <1>7, <1>8, <2>2, <2>3 DEF Current
  <1>9. /\ Sound(written, Stages(v, mode)) /\ Last(written) \in Stages(v, mode)
        /\ Last(written).disk = d1 /\ Last(written).engine = e.engine
    BY <1>2, <1>3, <1>7, <1>8, MemoryWrite
  <1> HIDE DEF written
  <1>10. /\ d2 \in DiskType /\ d2.main = d1.main /\ d2.pending = d1.pending
         /\ d2.memory = d1.memory /\ d2.deletes = d1.deletes
         /\ d2.upserts = x.disk.upserts \ U
    <2>1. x.disk.upserts \ U \in SUBSET (Sources \X Versions)
      BY <1>3
    <2> QED
      BY <1>7, <1>9, <2>1 DEF DiskType
  <1> HIDE DEF d2
  <1>11. ASSUME NEW p, Current(p, d1)
         PROVE  Current(p, d2)
    <2>1. ASSUME NEW u \in x.disk.upserts, u[1] = p[1], u[2] # d1.memory[p[1]]
          PROVE  u \in d2.upserts
      BY <1>5, <1>7, <1>10, <2>1
    <2> QED
      BY <1>7, <1>10, <1>11, <2>1 DEF Current
  <1>12. /\ Sound(all, Stages(v, mode)) /\ Last(all) \in Stages(v, mode)
         /\ Last(all).disk = d2 /\ Last(all).engine = e.engine
    <2>1. /\ d2.main = Last(written).disk.main /\ d2.pending = Last(written).disk.pending
          /\ \A u \in d2.upserts : u[2] # 0
          /\ \A t, u \in d2.upserts : t[1] = u[1] => t = u
          /\ \A g \in GraphsOf(Last(written)), j \in Jobs : \A p \in g.runs[j].evidence :
                Current(p, Last(written).disk) => Current(p, d2)
      BY <1>3, <1>9, <1>10, <1>11
    <2> QED
      BY <1>9, <1>10, <2>1, MemoryWrite
  <1>13. Upserted(stages, U) = all
    BY DEF Upserted, x, changed, erased, d1, written, d2
  <1> HIDE DEF all, e
  <1>14. Settled(x) => Settled(Last(all))
    BY <1>2, <1>7, <1>10, <1>12 DEF Settled
  <1> QED
    BY <1>7, <1>10, <1>12, <1>13, <1>14 DEF x

\* Deleted: from the journal out of the memories, and out of the journal.
LEMMA DeletedSound ==
    ASSUME NEW v, NEW mode, NEW stages, Sound(stages, Stages(v, mode)),
           NEW ids \in SUBSET Sources,
           \A g \in GraphsOf(Last(stages)), j \in Jobs : \A p \in g.runs[j].evidence :
               p[1] \notin ids
    PROVE  LET x == Last(stages)
               all == Deleted(stages, ids)
               y == Last(all)
           IN /\ Sound(all, Stages(v, mode)) /\ y \in Stages(v, mode)
              /\ Settled(x) => Settled(y)
  <1> DEFINE x == Last(stages)
             memory == [s \in Sources |-> IF s \in ids THEN 0 ELSE x.disk.memory[s]]
             d1 == [x.disk EXCEPT !.memory = memory]
             first == On(stages, d1)
             d2 == [d1 EXCEPT !.deletes = @ \ ids]
             all == On(first, d2)
  <1>1. x \in Stages(v, mode) /\ x.disk \in DiskType /\ x.engine \in GraphType
    BY LastSound DEF Stages, StageType
  <1>2. /\ x.disk.memory \in [Sources -> Versions]
        /\ x.disk.deletes \subseteq Sources
        /\ \A u \in x.disk.upserts : u[2] # 0
        /\ \A t, u \in x.disk.upserts : t[1] = u[1] => t = u
    BY <1>1 DEF Stages, DiskInv, DiskType
  <1>3. /\ memory \in [Sources -> Versions]
        /\ \A s \in Sources : s \notin ids => memory[s] = x.disk.memory[s]
    <2>1. 0 \in Versions
      BY JobConstants DEF Versions
    <2> QED
      BY <1>2, <2>1
  <1> HIDE DEF memory
  <1>4. /\ d1 \in DiskType /\ d1.main = x.disk.main /\ d1.pending = x.disk.pending
        /\ d1.memory = memory /\ d1.upserts = x.disk.upserts
        /\ d1.deletes = x.disk.deletes
    BY <1>1, <1>3 DEF DiskType
  <1>5. /\ d2 \in DiskType /\ d2.main = x.disk.main /\ d2.pending = x.disk.pending
        /\ d2.memory = memory /\ d2.upserts = x.disk.upserts
        /\ d2.deletes = x.disk.deletes \ ids
    <2> HIDE DEF d1
    <2>1. x.disk.deletes \ ids \in SUBSET Sources
      BY <1>2
    <2> QED
      BY <1>4, <2>1 DEF DiskType
  <1>6. Deleted(stages, ids)
          = stages \o <<Stage(d1, x.engine), Stage(d2, x.engine)>>
    BY DEF Deleted, memory
  <1>7. ASSUME NEW g \in GraphsOf(x), NEW j \in Jobs, NEW p \in g.runs[j].evidence,
               Current(p, x.disk)
        PROVE  Current(p, d1)
    <2>1. g \in GraphType
      BY <1>1, <1>7 DEF DiskType, GraphsOf
    <2>2. p[1] \in Sources /\ p[1] \notin ids
      BY <1>7, <2>1 DEF GraphType, RunType
    <2> HIDE DEF d1
    <2> QED
      BY <1>3, <1>4, <1>7, <2>2 DEF Current
  <1> HIDE DEF d1, d2
  <1>8. /\ Sound(first, Stages(v, mode)) /\ Last(first) \in Stages(v, mode)
        /\ Last(first).disk = d1 /\ Last(first).engine = x.engine
    BY <1>2, <1>4, <1>7, MemoryWrite
  <1>9. ASSUME NEW p, Current(p, d1)
        PROVE  Current(p, d2)
    BY <1>4, <1>5, <1>9 DEF Current
  <1> HIDE DEF x
  <1>10. /\ first = Append(stages, Stage(d1, x.engine))
         /\ all = Append(first, Stage(d2, x.engine))
    <2>1. first = Append(stages, Stage(d1, x.engine))
      BY DEF On, x
    <2> HIDE DEF first
    <2> QED
      BY <1>8, <2>1 DEF On
  <1>11. Deleted(stages, ids) = all
    <2>1. stages \in Seq(Stages(v, mode))
      BY DEF Sound
    <2>2. \A a, b : stages \o <<a, b>> = Append(Append(stages, a), b)
      BY <2>1
    <2> QED
      BY <1>6, <1>10, <2>2
  <1> HIDE DEF first
  <1>12. /\ Sound(all, Stages(v, mode)) /\ Last(all) \in Stages(v, mode)
         /\ Last(all).disk = d2 /\ Last(all).engine = x.engine
    <2>1. /\ d2.main = Last(first).disk.main /\ d2.pending = Last(first).disk.pending
          /\ \A u \in d2.upserts : u[2] # 0
          /\ \A t, u \in d2.upserts : t[1] = u[1] => t = u
          /\ \A g \in GraphsOf(Last(first)), j \in Jobs : \A p \in g.runs[j].evidence :
                Current(p, Last(first).disk) => Current(p, d2)
      BY <1>2, <1>4, <1>5, <1>8, <1>9
    <2> QED
      BY <1>5, <1>8, <2>1, MemoryWrite
  <1> HIDE DEF all
  <1>13. Settled(x) => Settled(Last(all))
    BY <1>5, <1>12 DEF Settled
  <1> QED
    BY <1>11, <1>12, <1>13 DEF x

\* A change that was made, failed on the way or was cut short.
LEMMA ChangeEnds ==
    ASSUME Open, JobsInv, NEW stages, Sound(stages, Stages(Env, "open")),
           Completes(stages) \/ Fails(stages) \/ Crashes(stages),
           UNCHANGED <<worker, epoch, completed, stopped, purged>>
    PROVE  JobsInv'
  <1>1. Env' = Env
    BY DEF Env
  <1>2. EnvInv(Env)
    BY DEF JobsInv
  <1>3. EnvInv(Env') /\ Sound(stages, Stages(Env', "open"))
    BY <1>1, <1>2
  <1> QED
    BY <1>3, HandlerEnds

\* Upsert.
LEMMA UpsertStep ==
    ASSUME JobsInv, NEW s \in Sources, NEW r \in Versions, Upsert(s, r)
    PROVE  JobsInv'
  <1> DEFINE U == {<<s, r>>}
             d == [disk EXCEPT !.upserts = @ \cup {<<s, r>>}]
             first == On(Here, d)
             all == Upserted(first, U)
  <1>1. /\ Open /\ r \notin {0, disk.memory[s]}
        /\ \A u \in disk.upserts : u[1] # s
        /\ Completes(all) \/ Fails(all) \/ Crashes(all)
        /\ UNCHANGED <<worker, epoch, completed, stopped, purged>>
    BY DEF Upsert, Changes
  <1>2. /\ Sound(Here, Stages(Env, "open")) /\ Last(Here).disk = disk
        /\ DiskInv(disk, Env)
    BY <1>1, HandlerStarts
  <1>3. /\ disk \in DiskType /\ disk.upserts \subseteq Sources \X Versions
        /\ \A u \in disk.upserts : u[2] # 0
        /\ \A t, u \in disk.upserts : t[1] = u[1] => t = u
    BY <1>2 DEF DiskInv, DiskType
  <1>4. /\ d \in DiskType /\ d.main = disk.main /\ d.pending = disk.pending
        /\ d.memory = disk.memory /\ d.deletes = disk.deletes
        /\ d.upserts = disk.upserts \cup U
    <2>1. disk.upserts \cup U \in SUBSET (Sources \X Versions)
      BY <1>3
    <2> QED
      BY <1>3, <2>1 DEF DiskType
  <1> HIDE DEF d
  <1>5. \A p : Current(p, disk) => Current(p, d)
    BY <1>4 DEF Current
  <1>6. /\ \A u \in d.upserts : u[2] # 0
        /\ \A t, u \in d.upserts : t[1] = u[1] => t = u
    BY <1>1, <1>3, <1>4
  <1>7. Sound(first, Stages(Env, "open")) /\ Last(first).disk = d
    BY <1>2, <1>4, <1>5, <1>6, MemoryWrite
  <1>8. U \subseteq Last(first).disk.upserts
    BY <1>4, <1>7
  <1> HIDE DEF first, U
  <1>9. Sound(all, Stages(Env, "open"))
    BY <1>7, <1>8, UpsertedSound
  <1> HIDE DEF all
  <1> QED
    BY <1>1, <1>9, ChangeEnds

\* Delete.
LEMMA DeleteStep ==
    ASSUME JobsInv, NEW s \in Sources, Delete(s)
    PROVE  JobsInv'
  <1> DEFINE ids == {s}
             erased == Erased(Here, ids)
             x == Last(erased)
             d == [x.disk EXCEPT !.deletes = @ \cup ids]
             noted == On(erased, d)
             all == Deleted(noted, ids)
  <1>1. /\ Open
        /\ Completes(all) \/ Fails(all) \/ Crashes(all)
        /\ UNCHANGED <<worker, epoch, completed, stopped, purged>>
    BY DEF Delete, Changes
  <1>2. ids \in SUBSET Sources
    OBVIOUS
  <1> HIDE DEF ids
  <1>3. /\ Sound(erased, Stages(Env, "open")) /\ x \in Stages(Env, "open")
        /\ \A g \in GraphsOf(x), j \in Jobs : \A p \in g.runs[j].evidence : p[1] \notin ids
    <2>1. Sound(Here, Stages(Env, "open"))
      BY <1>1, HandlerStarts
    <2> QED
      BY <2>1, ErasedSound
  <1> HIDE DEF erased
  <1>4. /\ x.disk \in DiskType /\ x.disk.deletes \subseteq Sources
        /\ \A u \in x.disk.upserts : u[2] # 0
        /\ \A t, u \in x.disk.upserts : t[1] = u[1] => t = u
    BY <1>3 DEF Stages, StageType, DiskInv, DiskType
  <1>5. /\ d \in DiskType /\ d.main = x.disk.main /\ d.pending = x.disk.pending
        /\ d.memory = x.disk.memory /\ d.upserts = x.disk.upserts
        /\ d.deletes = x.disk.deletes \cup ids
    <2>1. x.disk.deletes \cup ids \in SUBSET Sources
      BY <1>2, <1>4
    <2> QED
      BY <1>4, <2>1 DEF DiskType
  <1> HIDE DEF d
  <1>6. ASSUME NEW g \in GraphsOf(x), NEW j \in Jobs, NEW p \in g.runs[j].evidence,
               Current(p, x.disk)
        PROVE  Current(p, d)
    <2>1. p[1] \notin ids
      BY <1>3, <1>6
    <2> QED
      BY <1>5, <1>6, <2>1 DEF Current
  <1>7. /\ Sound(noted, Stages(Env, "open")) /\ Last(noted).disk = d
        /\ Last(noted).engine = x.engine
    BY <1>3, <1>4, <1>5, <1>6, MemoryWrite
  <1> HIDE DEF noted
  <1>8. GraphsOf(Last(noted)) = GraphsOf(x)
    BY <1>5, <1>7 DEF GraphsOf
  <1>9. Sound(all, Stages(Env, "open"))
    BY <1>2, <1>3, <1>7, <1>8, DeletedSound
  <1> HIDE DEF all
  <1> QED
    BY <1>1, <1>9, ChangeEnds

\* A purge frees every job from its results and its evidence.
LEMMA PurgeKnown ==
    ASSUME NEW v, EnvInv(v), NEW x \in Stages(v, "open"),
           NEW w, w.worker = v.worker, w.epoch = v.epoch, w.completed = v.completed,
           w.stopped = v.stopped, w.purged = v.epoch
    PROVE  EnvInv(w) /\ x \in Stages(w, "open")
  <1>0. /\ v.epoch \in [Jobs -> 0 .. MaxEnqueues] /\ MaxEnqueues \in Nat
        /\ v.purged \in [Jobs -> Nat] /\ \A j \in Jobs : v.purged[j] <= v.epoch[j]
        /\ v.completed \subseteq
              [job : Jobs, epoch : 1 .. MaxEnqueues, material : Materials]
    BY JobConstants DEF EnvInv
  <1>1. EnvInv(w)
    <2>1. \A z \in Workers : WorkerInv(z, w)
      BY DEF EnvInv, WorkerInv
    <2>2. Exclusive(w)
      BY DEF EnvInv, Exclusive
    <2>3. w.purged \in [Jobs -> Nat] /\ \A j \in Jobs : w.purged[j] <= w.epoch[j]
      BY <1>0
    <2> QED
      BY <2>1, <2>2, <2>3 DEF EnvInv
  <1>2. ASSUME NEW j \in Jobs, NEW job \in JobType \cup {NoJob}, NEW run \in RunType,
               JobInv(j, job, run, v)
        PROVE  JobInv(j, job, run, w)
    <2>1. KeepsResult(j, job, w)
      <3>1. \A r \in v.completed : r.job = j /\ r.epoch <= v.purged[j] =>
                 r.epoch <= w.purged[j]
        BY <1>0
      <3> QED
        BY <1>2, <3>1 DEF JobInv, KeepsResult
    <2>2. JobTyped(j, job, w) /\ KeepsCancel(j, job, w) /\ KeepsLease(j, job, w)
      BY <1>2 DEF JobInv, JobTyped, KeepsCancel, KeepsLease
    <2> QED
      BY <1>2, <2>1, <2>2 DEF JobInv
  <1>3. ASSUME NEW j \in Jobs, NEW n \in JobType \cup {NoJob},
               JobInv(j, x.engine.jobs[j], x.engine.runs[j], v),
               Follows(j, x.engine.jobs[j], n, v)
        PROVE  Follows(j, x.engine.jobs[j], n, w)
    <2> DEFINE o == x.engine.jobs[j]
    <2>1. o \in JobType \cup {NoJob}
      BY OwnJobs DEF Stages, StageType
    <2>2. o # NoJob => o.epoch \in Nat /\ o.epoch <= v.epoch[j]
      BY <1>0, <1>3, <2>1 DEF JobInv, JobTyped, JobType
    <2>3. KeepsCompleted(j, o, n, w)
      BY <1>3, <2>2 DEF Follows, KeepsCompleted
    <2>4. KeepsGrant(j, o, n, w)
      BY <1>3 DEF Follows, KeepsGrant
    <2> QED
      BY <2>3, <2>4 DEF Follows
  <1>4. x \in Stages(w, "open")
    BY <1>2, <1>3, StageOfEnv
  <1> QED
    BY <1>1, <1>4

\* The empty graph takes the place of any other when that is known.
LEMMA EmptyFollows ==
    ASSUME NEW v, EnvInv(v), v.purged = v.epoch, NEW x \in Stages(v, "open")
    PROVE  /\ EmptyGraph \in GraphType /\ GraphInv(EmptyGraph, x.disk, v)
           /\ Successor(x.engine, EmptyGraph, v)
  <1>1. EmptyGraph \in GraphType
    <2>1. NoRun \in RunType
      BY DEF NoRun, RunType
    <2> QED
      BY <2>1 DEF EmptyGraph, GraphType
  <1>2. \A j \in Jobs : EmptyGraph.jobs[j] = NoJob /\ EmptyGraph.runs[j] = NoRun
    BY DEF EmptyGraph
  <1>3. ASSUME NEW j \in Jobs
        PROVE  JobInv(j, NoJob, NoRun, v)
    <2>1. KeepsResult(j, NoJob, v)
      BY DEF KeepsResult, EnvInv
    <2>2. /\ JobTyped(j, NoJob, v) /\ KeepsCancel(j, NoJob, v) /\ KeepsLease(j, NoJob, v)
          /\ RunTyped(NoJob, NoRun)
      BY DEF JobTyped, KeepsCancel, KeepsLease, RunTyped, NoRun
    <2> QED
      BY <2>1, <2>2 DEF JobInv
  <1>4. GraphInv(EmptyGraph, x.disk, v)
    BY <1>2, <1>3 DEF GraphInv, NoRun
  <1>5. ASSUME NEW j \in Jobs
        PROVE  /\ KeepsCompleted(j, x.engine.jobs[j], NoJob, v)
               /\ KeepsGrant(j, x.engine.jobs[j], NoJob, v)
    <2>1. JobInv(j, x.engine.jobs[j], x.engine.runs[j], v)
      BY DEF Stages, GraphInv
    <2> QED
      BY <2>1 DEF KeepsCompleted, KeepsGrant, JobInv, JobTyped
  <1>6. Successor(x.engine, EmptyGraph, v)
    BY <1>2, <1>5 DEF Successor
  <1> QED
    BY <1>1, <1>4, <1>6

\* Purge.
LEMMA PurgeStep ==
    ASSUME JobsInv, Purge
    PROVE  JobsInv'
  <1> DEFINE v == [worker |-> worker, epoch |-> epoch, completed |-> completed,
                   stopped |-> stopped, purged |-> epoch]
             x == Stage(disk, engine)
             emptied == commit_state(Here, EmptyGraph)
             y == Last(emptied)
             gone == [y.disk EXCEPT !.memory = [s \in Sources |-> 0]]
             first == On(emptied, gone)
             bare == [gone EXCEPT !.upserts = {}, !.deletes = {}]
             all == On(first, bare)
  <1>1. /\ Open
        /\ Completes(all) \/ Fails(all) \/ Crashes(all)
        /\ purged' = epoch /\ UNCHANGED <<worker, epoch, completed, stopped>>
    BY DEF Purge
  <1>2. /\ v.worker = worker /\ v.epoch = epoch /\ v.completed = completed
        /\ v.stopped = stopped /\ v.purged = epoch /\ Env' = v
    BY <1>1 DEF Env
  <1>3. /\ Env.worker = worker /\ Env.epoch = epoch /\ Env.completed = completed
        /\ Env.stopped = stopped
    BY DEF Env
  <1>4. EnvInv(Env) /\ x \in Stages(Env, "open")
    BY <1>1, HandlerStarts
  <1> HIDE DEF v
  <1>5. EnvInv(v) /\ x \in Stages(v, "open")
    BY <1>2, <1>3, <1>4, PurgeKnown
  <1>6. Sound(Here, Stages(v, "open")) /\ Last(Here) = x
    BY <1>5, HereSound DEF Here
  <1> HIDE DEF x
  <1>7. /\ EmptyGraph \in GraphType /\ GraphInv(EmptyGraph, x.disk, v)
        /\ Successor(x.engine, EmptyGraph, v)
    <2>1. v.purged = v.epoch
      BY <1>2
    <2> QED
      BY <1>5, <2>1, EmptyFollows
  <1>8. /\ Sound(emptied, Stages(v, "open")) /\ y \in Stages(v, "open")
        /\ y.engine.runs = EmptyGraph.runs
        /\ y.disk.main = y.engine /\ y.disk.pending = NoGraph
    BY <1>6, <1>7, CommitSound
  <1>9. \A g \in GraphsOf(y), j \in Jobs : g.runs[j].evidence = {}
    BY <1>8 DEF GraphsOf, EmptyGraph, NoRun
  <1> HIDE DEF emptied
  <1>10. /\ y.disk \in DiskType
         /\ \A u \in y.disk.upserts : u[2] # 0
         /\ \A t, u \in y.disk.upserts : t[1] = u[1] => t = u
    BY <1>8 DEF Stages, StageType, DiskInv
  <1>11. /\ gone \in DiskType /\ gone.main = y.disk.main /\ gone.pending = y.disk.pending
         /\ gone.upserts = y.disk.upserts
    <2>1. [s \in Sources |-> 0] \in [Sources -> Versions]
      BY JobConstants DEF Versions
    <2> QED
      BY <1>10, <2>1 DEF DiskType
  <1> HIDE DEF gone
  <1>12. /\ Sound(first, Stages(v, "open")) /\ Last(first).disk = gone
         /\ Last(first).engine = y.engine
    BY <1>8, <1>9, <1>10, <1>11, MemoryWrite
  <1> HIDE DEF first
  <1>13. /\ bare \in DiskType /\ bare.main = gone.main /\ bare.pending = gone.pending
         /\ bare.upserts = {}
    BY <1>11 DEF DiskType
  <1> HIDE DEF bare
  <1>14. GraphsOf(Last(first)) = GraphsOf(y)
    BY <1>11, <1>12 DEF GraphsOf
  <1>15. Sound(all, Stages(v, "open"))
    BY <1>9, <1>12, <1>13, <1>14, MemoryWrite
  <1>16. EnvInv(Env') /\ Sound(all, Stages(Env', "open"))
    BY <1>2, <1>5, <1>15
  <1> HIDE DEF all
  <1> QED
    BY <1>1, <1>16, HandlerEnds
-----------------------------------------------------------------------------
(***************************************************************************)
(* Restarts and the clock.                                                 *)
(***************************************************************************)

\* The graph files are made one: the graph that is loaded.
LEMMA LoadedSound ==
    ASSUME JobsInv
    PROVE  /\ Sound(Loaded, Stages(Env, "opening"))
           /\ Settled(Last(Loaded))
           /\ Last(Loaded).disk.upserts = disk.upserts
           /\ Last(Loaded).disk.deletes = disk.deletes
  <1> DEFINE S == Stages(Env, "opening")
             D == Durable
             a == Stage(disk, D)
             db == [disk EXCEPT !.main = disk.pending]
             b == Stage(db, D)
             dc == [disk EXCEPT !.main = D, !.pending = NoGraph]
             c == Stage(dc, D)
  <1>1. /\ disk \in DiskType /\ GraphInv(disk.main, disk, Env)
        /\ disk.pending # NoGraph => GraphInv(disk.pending, disk, Env)
        /\ \A u \in disk.upserts : u[2] # 0
        /\ \A t, u \in disk.upserts : t[1] = u[1] => t = u
    BY DEF JobsInv, DiskInv
  <1>2. /\ disk.main \in GraphType /\ disk.pending \in GraphType \cup {NoGraph}
        /\ disk = [main |-> disk.main, pending |-> disk.pending, memory |-> disk.memory,
                   upserts |-> disk.upserts, deletes |-> disk.deletes]
    BY <1>1 DEF DiskType
  <1>3. /\ D = IF Newer THEN disk.pending ELSE disk.main
        /\ Newer => disk.pending # NoGraph
    BY DEF Durable, Newer
  <1> HIDE DEF D
  <1>4. D \in GraphType /\ GraphInv(D, disk, Env)
    BY <1>1, <1>2, <1>3
  <1>5. ASSUME NEW d \in DiskType, d.memory = disk.memory, d.upserts = disk.upserts,
               d.deletes = disk.deletes, d.main \in {disk.main, D},
               d.pending \in {disk.pending, NoGraph}
        PROVE  Stage(d, D) \in S
    <2>1. \A g : GraphInv(g, disk, Env) => GraphInv(g, d, Env)
      BY <1>5 DEF GraphInv, Current
    <2>2. GraphInv(d.main, d, Env) /\ GraphInv(D, d, Env)
      BY <1>1, <1>4, <1>5, <2>1
    <2>3. d.pending # NoGraph => GraphInv(d.pending, d, Env)
      BY <1>1, <1>5, <2>1
    <2>4. DiskInv(d, Env)
      BY <1>1, <1>5, <2>2, <2>3 DEF DiskInv
    <2>5. Stage(d, D) \in StageType /\ Stage(d, D).disk = d /\ Stage(d, D).engine = D
      BY <1>4, <1>5 DEF Stage, StageType
    <2> QED
      BY <2>2, <2>4, <2>5 DEF Stages
  <1>6. a \in S /\ a.disk = disk /\ a.engine = D
    BY <1>1, <1>5 DEF Stage
  <1>7. Newer => /\ b \in S /\ b.engine = D /\ b.disk.upserts = disk.upserts
                 /\ b.disk.deletes = disk.deletes
    <2>1. SUFFICES ASSUME Newer
                   PROVE  /\ b \in S /\ b.engine = D /\ b.disk.upserts = disk.upserts
                          /\ b.disk.deletes = disk.deletes
      OBVIOUS
    <2>2. disk.pending = D /\ disk.pending \in GraphType
      BY <1>3, <1>4, <2>1
    <2>3. /\ db \in DiskType /\ db.memory = disk.memory /\ db.upserts = disk.upserts
          /\ db.deletes = disk.deletes /\ db.main = D /\ db.pending = disk.pending
      BY <1>1, <2>2 DEF DiskType
    <2> HIDE DEF db
    <2>4. b \in S
      BY <1>5, <2>3
    <2> QED
      BY <2>3, <2>4 DEF Stage
  <1>8. /\ c \in S /\ c.engine = D /\ c.disk.upserts = disk.upserts
        /\ c.disk.deletes = disk.deletes /\ Settled(c)
    <2>1. /\ dc \in DiskType /\ dc.memory = disk.memory /\ dc.upserts = disk.upserts
          /\ dc.deletes = disk.deletes /\ dc.main = D /\ dc.pending = NoGraph
      BY <1>1, <1>4 DEF DiskType
    <2> HIDE DEF dc
    <2>2. c \in S
      BY <1>5, <2>1
    <2> QED
      BY <2>1, <2>2 DEF Stage, Settled
  <1> HIDE DEF S, a, b, c
  <1>9. /\ Loaded = (<<a>> \o (IF Newer THEN <<b>> ELSE <<>>))
                      \o (IF disk.pending = NoGraph THEN <<>> ELSE <<c>>)
    BY DEF Loaded, a, b, c, D
  <1>10. Sound(<<a>>, S) /\ Last(<<a>>) = a
    BY <1>6, HereSound
  <1>11. CASE disk.pending = NoGraph
    <2>1. Loaded = <<a>>
      <3>1. Loaded = (<<a>> \o <<>>) \o <<>>
        BY <1>3, <1>9, <1>11
      <3>2. <<a>> \in Seq(S)
        BY <1>6
      <3>3. <<a>> \o <<>> = <<a>>
        BY <3>2, ConcatEmptySeq
      <3> QED
        BY <3>1, <3>3
    <2>2. Settled(a)
      BY <1>3, <1>6, <1>11 DEF Settled
    <2> QED
      BY <1>6, <1>10, <2>1, <2>2 DEF S
  <1>12. CASE disk.pending # NoGraph /\ ~Newer
    <2>1. Loaded = Append(<<a>>, c)
      BY <1>9, <1>12
    <2>2. Stage(c.disk, a.engine) \in S
      BY <1>6, <1>8 DEF c, Stage
    <2>3. Sound(Append(<<a>>, c), S) /\ Last(Append(<<a>>, c)) = c
      BY <1>8, <1>10, <2>2, AppendSound
    <2> QED
      BY <1>8, <2>1, <2>3 DEF S
  <1>13. CASE disk.pending # NoGraph /\ Newer
    <2>1. Loaded = Append(Append(<<a>>, b), c)
      <3>1. Loaded = (<<a>> \o <<b>>) \o <<c>>
        BY <1>9, <1>13
      <3>2. <<a>> \o <<b>> = Append(<<a>>, b)
        OBVIOUS
      <3>3. Append(<<a>>, b) \o <<c>> = Append(Append(<<a>>, b), c)
        OBVIOUS
      <3> QED
        BY <3>1, <3>2, <3>3
    <2>2. Stage(b.disk, a.engine) \in S
      BY <1>6, <1>7, <1>13 DEF b, Stage
    <2>3. Sound(Append(<<a>>, b), S) /\ Last(Append(<<a>>, b)) = b
      BY <1>7, <1>10, <1>13, <2>2, AppendSound
    <2>4. Stage(c.disk, b.engine) \in S
      BY <1>7, <1>8, <1>13 DEF c, Stage
    <2>5. /\ Sound(Append(Append(<<a>>, b), c), S)
          /\ Last(Append(Append(<<a>>, b), c)) = c
      BY <1>8, <2>3, <2>4, AppendSound
    <2> QED
      BY <1>8, <2>1, <2>5 DEF S
  <1> QED
    BY <1>11, <1>12, <1>13

\* OpenEngine: the engine opens on one graph, or the files are left as sound.
LEMMA OpenStep ==
    ASSUME JobsInv, OpenEngine
    PROVE  JobsInv'
  <1> DEFINE S == Stages(Env, "opening")
             leases == recover_job_leases(Loaded)
             upserts == recover_pending_upserts(leases)
             all == recover_pending_deletes(upserts)
             y == Last(all)
  <1>1. /\ ~Open
        /\ Completes(all) \/ Fails(all) \/ Crashes(all)
        /\ UNCHANGED <<worker, ghosts>>
    BY DEF OpenEngine, Unanswered
  <1>2. EnvInv(Env) /\ disk \in DiskType
    BY DEF JobsInv, DiskInv
  <1>3. Env' = Env
    BY <1>1 DEF Env, ghosts
  <1>4. /\ Sound(leases, S) /\ Settled(Last(leases))
        /\ Last(leases).disk.upserts = disk.upserts
        /\ Last(leases).disk.deletes = disk.deletes
    <2>1. /\ Sound(Loaded, S) /\ Settled(Last(Loaded))
          /\ Last(Loaded).disk.upserts = disk.upserts
          /\ Last(Loaded).disk.deletes = disk.deletes
      BY LoadedSound
    <2> DEFINE l == Last(leases)
    <2>2. /\ Sound(leases, S)
          /\ l = Last(Loaded) \/ (l.disk.main = l.engine /\ l.disk.pending = NoGraph)
          /\ l.disk.upserts = Last(Loaded).disk.upserts
          /\ l.disk.deletes = Last(Loaded).disk.deletes
      BY <1>2, <2>1, LeasesRecovered
    <2> HIDE DEF leases, S
    <2> QED
      BY <2>1, <2>2 DEF Settled
  <1> HIDE DEF leases, S
  <1>5. /\ Sound(upserts, S) /\ Settled(Last(upserts))
        /\ Last(upserts).disk.deletes = disk.deletes
    <2>1. CASE disk.upserts = {}
      BY <1>4, <2>1 DEF recover_pending_upserts
    <2>2. CASE disk.upserts # {}
      <3> DEFINE new == Upserted(leases, disk.upserts)
      <3>1. upserts = new
        BY <2>2 DEF recover_pending_upserts
      <3>2. disk.upserts \subseteq Last(leases).disk.upserts
        BY <1>4
      <3>3. /\ Sound(new, S)
            /\ Settled(Last(leases)) => Settled(Last(new))
            /\ Last(new).disk.deletes = Last(leases).disk.deletes
        BY <1>4, <3>2, UpsertedSound DEF S
      <3> HIDE DEF upserts, new
      <3> QED
        BY <1>4, <3>1, <3>3
    <2> QED
      BY <2>1, <2>2
  <1> HIDE DEF upserts
  <1>6. Sound(all, S) /\ Settled(y)
    <2>1. CASE disk.deletes = {}
      BY <1>5, <2>1 DEF recover_pending_deletes
    <2>2. CASE disk.deletes # {}
      <3> DEFINE erased == Erased(upserts, disk.deletes)
                 e == Last(erased)
      <3>1. all = Deleted(erased, disk.deletes)
        BY <2>2 DEF recover_pending_deletes
      <3>2. /\ Sound(erased, S)
            /\ e.disk.main = e.engine /\ e.disk.pending = NoGraph
            /\ \A g \in GraphsOf(e), j \in Jobs : \A p \in g.runs[j].evidence :
                  p[1] \notin disk.deletes
        BY <1>5, ErasedSound DEF S
      <3>3. disk.deletes \in SUBSET Sources
        BY <1>2 DEF DiskType
      <3> HIDE DEF erased
      <3> DEFINE new == Deleted(erased, disk.deletes)
      <3>4. /\ Sound(new, S)
            /\ Settled(e) => Settled(Last(new))
        BY <3>2, <3>3, DeletedSound DEF S
      <3>5. Settled(e)
        BY <3>2 DEF Settled
      <3>6. all = new
        BY <3>1
      <3> HIDE DEF all, new
      <3> QED
        BY <3>4, <3>5, <3>6
    <2> QED
      BY <2>1, <2>2
  <1> HIDE DEF all
  <1>7. \/ /\ engine' = Closed
           /\ \E x \in S : disk' = x.disk
        \/ disk' = y.disk /\ engine' = y.engine
    BY <1>1, <1>6, OpeningOutcome
  <1>8. CASE engine' = Closed /\ \E x \in S : disk' = x.disk
    <2>1. DiskInv(disk', Env)
      BY <1>8 DEF S, Stages
    <2> QED
      BY <1>2, <1>3, <1>8, <2>1 DEF JobsInv, Open
  <1>9. CASE disk' = y.disk /\ engine' = y.engine
    <2>1. y \in Stages(Env, "opening")
      BY <1>6, LastSound DEF S
    <2>2. \A j \in Jobs : JobInv(j, y.engine.jobs[j], y.engine.runs[j], Env)
      BY <2>1 DEF Stages, GraphInv
    <2>3. y \in Stages(Env, "open")
      BY <1>6, <2>1, <2>2, SettledStage DEF Settled
    <2>4. EnvInv(Env') /\ y \in Stages(Env', "open")
      BY <1>2, <1>3, <2>3
    <2> QED
      BY <1>9, <2>4, AnsweredEnds
  <1> QED
    BY <1>7, <1>8, <1>9

\* Crash.
LEMMA CrashStep ==
    ASSUME JobsInv, Crash
    PROVE  JobsInv'
  <1>1. /\ engine' = Closed /\ UNCHANGED <<disk, worker, ghosts>>
    BY DEF Crash
  <1>2. Env' = Env
    BY <1>1 DEF Env, ghosts
  <1> QED
    BY <1>1, <1>2 DEF JobsInv, Open

\* The clock takes one off every time that is left, of the workers and of the
\* jobs of every graph alike.
Ticks(v, w) ==
    /\ DOMAIN w.worker = Workers
    /\ \A u \in Workers : w.worker[u] = [v.worker[u] EXCEPT !.left = less(@)]
    /\ w.epoch = v.epoch /\ w.completed = v.completed
    /\ w.stopped = v.stopped /\ w.purged = v.purged

LEMMA EnvTicks ==
    ASSUME NEW v, EnvInv(v), NEW w, Ticks(v, w)
    PROVE  /\ EnvInv(w)
           /\ \A u \in Workers :
                /\ v.worker[u].left \in Nat /\ w.worker[u].left = less(v.worker[u].left)
                /\ w.worker[u].job = v.worker[u].job
                /\ w.worker[u].token = v.worker[u].token
                /\ w.worker[u].request = v.worker[u].request
  <1>1. ASSUME NEW u \in Workers
        PROVE  /\ WorkerInv(u, w)
               /\ v.worker[u].left \in Nat /\ w.worker[u].left = less(v.worker[u].left)
               /\ w.worker[u].job = v.worker[u].job
               /\ w.worker[u].token = v.worker[u].token
               /\ w.worker[u].request = v.worker[u].request
    <2> DEFINE k == v.worker[u]
               m == w.worker[u]
    <2>1. WorkerInv(u, v)
      BY DEF EnvInv
    <2>2. /\ k = [job |-> k.job, token |-> k.token, left |-> k.left, request |-> k.request]
          /\ k.request \in Nat
      BY <2>1 DEF WorkerInv, LeaseRecord
    <2>3. k.left \in 0 .. Ttl /\ Ttl \in Nat
      BY <2>1, JobConstants DEF WorkerInv
    <2>4. m = [k EXCEPT !.left = less(@)]
      BY DEF Ticks
    <2> HIDE DEF k, m
    <2>5. /\ m = [job |-> k.job, token |-> k.token, left |-> less(k.left),
                  request |-> k.request]
      BY <2>2, <2>4
    <2>6. /\ m.left = less(k.left) /\ m.job = k.job /\ m.token = k.token
          /\ m.request = k.request
      BY <2>5
    <2>7. LeaseRecord(m)
      BY <2>2, <2>5, <2>6 DEF LeaseRecord
    <2>8. m.left \in 0 .. Ttl /\ (k.left = 0 => m.left = 0) /\ k.left \in Nat
      BY <2>3, <2>6 DEF less
    <2>9. WorkerInv(u, w)
      BY <2>1, <2>6, <2>7, <2>8 DEF WorkerInv, Ticks, k, m
    <2> QED
      BY <2>6, <2>8, <2>9 DEF k, m
  <1>2. Exclusive(w)
    <2>1. \A u \in Workers : w.worker[u].left > 0 => v.worker[u].left > 0
      BY <1>1 DEF less
    <2>2. Exclusive(v)
      BY DEF EnvInv
    <2> QED
      BY <1>1, <2>1, <2>2 DEF Exclusive
  <1>3. EnvInv(w)
    BY <1>1, <1>2 DEF EnvInv, Ticks
  <1> QED
    BY <1>1, <1>3

LEMMA AgedJob ==
    ASSUME NEW job \in JobType \cup {NoJob}
    PROVE  /\ aged(job) \in JobType \cup {NoJob}
           /\ aged(job) = NoJob <=> job = NoJob
           /\ aged(NoJob) = NoJob
           /\ job # NoJob =>
                /\ aged(job).left = less(job.left) /\ aged(job).wait = less(job.wait)
                /\ aged(job).state = job.state /\ aged(job).token = job.token
                /\ aged(job).fence = job.fence /\ aged(job).epoch = job.epoch
                /\ aged(job).cancel = job.cancel
                /\ job.left \in Nat /\ job.wait \in Nat
  <1>1. aged(NoJob) = NoJob
    BY DEF aged
  <1>2. CASE job = NoJob
    BY <1>1, <1>2
  <1>3. CASE job # NoJob
    <2>1. job \in JobType /\ Ttl \in Nat
      BY <1>3, JobConstants
    <2>2. job.left \in 0 .. Ttl /\ job.wait \in 0 .. 2
      BY <2>1 DEF JobType
    <2>3. /\ less(job.left) \in 0 .. Ttl /\ less(job.wait) \in 0 .. 2
          /\ job.left \in Nat /\ job.wait \in Nat
      BY <2>1, <2>2 DEF less
    <2> DEFINE m == [job EXCEPT !.left = less(job.left)]
               n == [m EXCEPT !.wait = less(job.wait)]
    <2>4. /\ m \in JobType /\ m.left = less(job.left) /\ m.wait = job.wait
          /\ m.state = job.state /\ m.token = job.token /\ m.fence = job.fence
          /\ m.epoch = job.epoch /\ m.cancel = job.cancel
      BY <2>1, <2>3 DEF JobType
    <2>5. aged(job) = [job EXCEPT !.left = less(job.left), !.wait = less(job.wait)]
      BY <1>3 DEF aged
    <2>6. aged(job) = n
      BY <2>5
    <2> HIDE DEF m
    <2>7. /\ n \in JobType /\ n.left = less(job.left) /\ n.wait = less(job.wait)
          /\ n.state = job.state /\ n.token = job.token /\ n.fence = job.fence
          /\ n.epoch = job.epoch /\ n.cancel = job.cancel
      BY <2>3, <2>4 DEF JobType
    <2> HIDE DEF n
    <2> QED
      BY <1>1, <1>3, <2>3, <2>6, <2>7, Shapes
  <1> QED
    BY <1>2, <1>3

LEMMA AgedInv ==
    ASSUME NEW v, EnvInv(v), NEW w, Ticks(v, w), NEW j \in Jobs,
           NEW job \in JobType \cup {NoJob}, NEW run, JobInv(j, job, run, v)
    PROVE  JobInv(j, aged(job), run, w)
  <1> DEFINE n == aged(job)
  <1>1. /\ n = NoJob <=> job = NoJob
        /\ job # NoJob =>
                /\ n.left = less(job.left) /\ n.wait = less(job.wait)
                /\ n.state = job.state /\ n.token = job.token
                /\ n.fence = job.fence /\ n.epoch = job.epoch
                /\ n.cancel = job.cancel
                /\ job.left \in Nat /\ job.wait \in Nat
    BY AgedJob
  <1>2. /\ w.epoch = v.epoch /\ w.completed = v.completed
        /\ w.stopped = v.stopped /\ w.purged = v.purged
    BY DEF Ticks
  <1>3. \A u \in Workers :
                /\ v.worker[u].left \in Nat /\ w.worker[u].left = less(v.worker[u].left)
                /\ w.worker[u].job = v.worker[u].job
                /\ w.worker[u].token = v.worker[u].token
    BY EnvTicks
  <1> HIDE DEF n
  <1>4. JobTyped(j, n, w)
    BY <1>1, <1>2 DEF JobInv, JobTyped, less
  <1>5. RunTyped(n, run)
    BY <1>1 DEF JobInv, RunTyped
  <1>6. KeepsCancel(j, n, w)
    BY <1>1, <1>2 DEF JobInv, KeepsCancel
  <1>7. KeepsResult(j, n, w)
    BY <1>1, <1>2 DEF JobInv, KeepsResult
  <1>8. KeepsLease(j, n, w)
    <2>1. SUFFICES ASSUME NEW u \in Workers,
                          w.worker[u].job = j, w.worker[u].left > 0,
                          n # NoJob, n.epoch = w.worker[u].token.epoch
                   PROVE  \/ n.state \in terminal
                          \/ /\ n.state \in active /\ n.token = w.worker[u].token
                             /\ w.worker[u].left <= n.left
      BY DEF KeepsLease
    <2>2. v.worker[u].left > 0
      BY <1>3, <2>1 DEF less
    <2>3. \/ job.state \in terminal
          \/ /\ job.state \in active /\ job.token = v.worker[u].token
             /\ v.worker[u].left <= job.left
      BY <1>1, <1>3, <2>1, <2>2 DEF JobInv, KeepsLease
    <2> QED
      BY <1>1, <1>3, <2>1, <2>3 DEF less
  <1> QED
    BY <1>4, <1>5, <1>6, <1>7, <1>8 DEF JobInv, n

LEMMA AgedFollows ==
    ASSUME NEW v, EnvInv(v), NEW w, Ticks(v, w), NEW j \in Jobs,
           NEW o \in JobType \cup {NoJob}, NEW run, JobInv(j, o, run, v),
           NEW n \in JobType \cup {NoJob}, Follows(j, o, n, v)
    PROVE  Follows(j, aged(o), aged(n), w)
  <1> DEFINE p == aged(o)
             q == aged(n)
  <1>1. /\ p = NoJob <=> o = NoJob
        /\ o # NoJob => /\ p.left = less(o.left) /\ p.state = o.state /\ p.token = o.token
                        /\ p.fence = o.fence /\ p.epoch = o.epoch /\ o.left \in Nat
    BY AgedJob
  <1>2. /\ q = NoJob <=> n = NoJob
        /\ n # NoJob => /\ q.left = less(n.left) /\ q.state = n.state /\ q.token = n.token
                        /\ q.fence = n.fence /\ q.epoch = n.epoch /\ n.left \in Nat
    BY AgedJob
  <1>3. \A u \in Workers : /\ w.worker[u].job = v.worker[u].job
                           /\ w.worker[u].request = v.worker[u].request
    BY EnvTicks
  <1>4. o # NoJob /\ o.state \in active => o.token.worker \in Workers
    BY DEF JobInv, JobTyped, JobType, Tokens
  <1> HIDE DEF p, q
  <1>5. KeepsCompleted(j, p, q, w)
    BY <1>1, <1>2 DEF Follows, KeepsCompleted, Ticks
  <1>6. KeepsGrant(j, p, q, w)
    <2>1. SUFFICES ASSUME p # NoJob, p.state \in active, p.left > 0,
                          w.worker[p.token.worker].job = None,
                          w.worker[p.token.worker].request = p.token.request,
                          q # NoJob
                   PROVE  /\ q.epoch = p.epoch
                          /\ \/ q.state \in terminal
                             \/ /\ q.state \in active /\ q.token = p.token
                                /\ p.left <= q.left
      BY DEF KeepsGrant
    <2>2. /\ o # NoJob /\ n # NoJob /\ o.left > 0 /\ o.state \in active
          /\ v.worker[o.token.worker].job = None
          /\ v.worker[o.token.worker].request = o.token.request
      BY <1>1, <1>2, <1>3, <1>4, <2>1 DEF less
    <2>3. /\ n.epoch = o.epoch
          /\ \/ n.state \in terminal
             \/ /\ n.state \in active /\ n.token = o.token /\ o.left <= n.left
      BY <2>2 DEF Follows, KeepsGrant
    <2> QED
      BY <1>1, <1>2, <2>2, <2>3 DEF less
  <1> QED
    BY <1>5, <1>6 DEF Follows, p, q

LEMMA OlderGraph ==
    ASSUME NEW g \in GraphType
    PROVE  /\ older(g) \in GraphType /\ older(g).runs = g.runs
           /\ \A j \in Jobs : older(g).jobs[j] = aged(g.jobs[j])
           /\ older(NoGraph) = NoGraph /\ older(Closed) = Closed
  <1> DEFINE jobs == [j \in Jobs |-> aged(g.jobs[j])]
  <1>1. g # NoGraph /\ g # Closed
    BY Shapes
  <1>2. older(g) = [g EXCEPT !.jobs = jobs]
    BY <1>1 DEF older
  <1>3. \A j \in Jobs : g.jobs[j] \in JobType \cup {NoJob}
    BY OwnJobs
  <1>4. \A j \in Jobs : aged(g.jobs[j]) \in JobType \cup {NoJob}
    BY <1>3, AgedJob
  <1>5. /\ jobs \in [Jobs -> JobType \cup {NoJob}]
        /\ \A j \in Jobs : jobs[j] = aged(g.jobs[j])
    BY <1>4
  <1> HIDE DEF jobs
  <1>6. older(g) \in GraphType /\ older(g).runs = g.runs /\ older(g).jobs = jobs
    BY <1>2, <1>5 DEF GraphType
  <1> QED
    BY <1>5, <1>6 DEF older

\* Tick.
LEMMA TickStep ==
    ASSUME JobsInv, Tick
    PROVE  JobsInv'
  <1>1. /\ disk' = [disk EXCEPT !.main = older(@), !.pending = older(@)]
        /\ engine' = older(engine)
        /\ worker' = [w \in Workers |-> [worker[w] EXCEPT !.left = less(@)]]
        /\ UNCHANGED ghosts
    BY DEF Tick
  <1>2. /\ EnvInv(Env) /\ DiskInv(disk, Env)
        /\ Open => Stage(disk, engine) \in Stages(Env, "open")
    BY DEF JobsInv
  <1>3. Ticks(Env, Env')
    <2>1. /\ Env.worker = worker /\ Env'.worker = worker'
          /\ Env'.epoch = Env.epoch /\ Env'.completed = Env.completed
          /\ Env'.stopped = Env.stopped /\ Env'.purged = Env.purged
      BY <1>1 DEF Env, ghosts
    <2> QED
      BY <1>1, <2>1 DEF Ticks
  <1>4. EnvInv(Env')
    BY <1>2, <1>3, EnvTicks
  <1>5. /\ disk.main \in GraphType /\ disk.pending \in GraphType \cup {NoGraph}
        /\ disk \in DiskType
    BY <1>2 DEF DiskInv, DiskType
  <1>6. /\ older(disk.main) \in GraphType
        /\ older(disk.pending) \in GraphType \cup {NoGraph}
        /\ older(disk.pending) = NoGraph <=> disk.pending = NoGraph
        /\ older(Closed) = Closed
    BY <1>5, OlderGraph, Shapes
  <1>7. /\ disk' \in DiskType /\ disk'.main = older(disk.main)
        /\ disk'.pending = older(disk.pending)
        /\ disk'.memory = disk.memory /\ disk'.upserts = disk.upserts
        /\ disk'.deletes = disk.deletes
    <2> DEFINE d == [disk EXCEPT !.main = older(disk.main)]
               e == [d EXCEPT !.pending = older(disk.pending)]
    <2>1. disk' = e
      BY <1>1
    <2>2. /\ d \in DiskType /\ d.main = older(disk.main) /\ d.memory = disk.memory
          /\ d.upserts = disk.upserts /\ d.deletes = disk.deletes
      BY <1>5, <1>6 DEF DiskType
    <2> HIDE DEF d
    <2>3. /\ e \in DiskType /\ e.main = d.main /\ e.pending = older(disk.pending)
          /\ e.memory = d.memory /\ e.upserts = d.upserts /\ e.deletes = d.deletes
      BY <1>6, <2>2 DEF DiskType
    <2> HIDE DEF e
    <2> QED
      BY <2>1, <2>2, <2>3
  <1>8. ASSUME NEW g \in GraphType, GraphInv(g, disk, Env)
        PROVE  GraphInv(older(g), disk', Env')
    <2>1. older(g).runs = g.runs /\ \A j \in Jobs : older(g).jobs[j] = aged(g.jobs[j])
      BY OlderGraph
    <2>2. \A j \in Jobs : g.jobs[j] \in JobType \cup {NoJob}
      BY OwnJobs
    <2>3. ASSUME NEW j \in Jobs
          PROVE  JobInv(j, aged(g.jobs[j]), g.runs[j], Env')
      <3>1. JobInv(j, g.jobs[j], g.runs[j], Env)
        BY <1>8 DEF GraphInv
      <3> QED
        BY <1>2, <1>3, <2>2, <3>1, AgedInv
    <2>4. \A j \in Jobs : \A p \in g.runs[j].evidence : Current(p, disk')
      BY <1>7, <1>8 DEF GraphInv, Current
    <2> QED
      BY <2>1, <2>3, <2>4 DEF GraphInv
  <1>9. DiskInv(disk', Env')
    <2>1. GraphInv(disk'.main, disk', Env')
      BY <1>2, <1>5, <1>7, <1>8 DEF DiskInv
    <2>2. disk'.pending # NoGraph => GraphInv(disk'.pending, disk', Env')
      BY <1>2, <1>5, <1>6, <1>7, <1>8 DEF DiskInv
    <2>3. /\ \A u \in disk'.upserts : u[2] # 0
          /\ \A t, u \in disk'.upserts : t[1] = u[1] => t = u
      BY <1>2, <1>7 DEF DiskInv
    <2> QED
      BY <1>7, <2>1, <2>2, <2>3 DEF DiskInv
  <1>10. CASE ~Open
    <2>1. engine' = Closed
      BY <1>1, <1>6, <1>10 DEF Open
    <2> QED
      BY <1>4, <1>9, <2>1 DEF JobsInv, Open
  <1>11. CASE Open
    <2>1. /\ engine \in GraphType /\ GraphInv(engine, disk, Env)
          /\ Successor(engine, disk.main, Env)
          /\ disk.pending # NoGraph => Successor(engine, disk.pending, Env)
      BY <1>2, <1>11 DEF Stages, StageType, Stage
    <2>2. older(engine) \in GraphType /\ GraphInv(older(engine), disk', Env')
      BY <1>8, <2>1, OlderGraph
    <2>3. ASSUME NEW g \in GraphType, Successor(engine, g, Env)
          PROVE  Successor(older(engine), older(g), Env')
      <3>1. /\ \A j \in Jobs : older(g).jobs[j] = aged(g.jobs[j])
            /\ \A j \in Jobs : older(engine).jobs[j] = aged(engine.jobs[j])
        BY <2>1, OlderGraph
      <3>2. \A j \in Jobs : /\ g.jobs[j] \in JobType \cup {NoJob}
                            /\ engine.jobs[j] \in JobType \cup {NoJob}
        BY <2>1, OwnJobs
      <3>3. ASSUME NEW j \in Jobs
            PROVE  Follows(j, aged(engine.jobs[j]), aged(g.jobs[j]), Env')
        <4>1. JobInv(j, engine.jobs[j], engine.runs[j], Env)
          BY <2>1 DEF GraphInv
        <4>2. Follows(j, engine.jobs[j], g.jobs[j], Env)
          BY <2>3 DEF Successor, Follows
        <4> QED
          BY <1>2, <1>3, <3>2, <4>1, <4>2, AgedFollows
      <3> QED
        BY <3>1, <3>3 DEF Successor, Follows
    <2>4. /\ Successor(engine', disk'.main, Env')
          /\ disk'.pending # NoGraph => Successor(engine', disk'.pending, Env')
      BY <1>1, <1>5, <1>6, <1>7, <2>1, <2>3
    <2>5. Stage(disk', engine') \in Stages(Env', "open")
      BY <1>1, <1>7, <1>9, <2>2, <2>4 DEF Stages, StageType, Stage
    <2> QED
      BY <1>4, <1>9, <2>5 DEF JobsInv
  <1> QED
    BY <1>10, <1>11
-----------------------------------------------------------------------------
(***************************************************************************)
(* The invariant is inductive, and the properties follow from it.          *)
(***************************************************************************)
LEMMA InvInitially ==
    Init => JobsInv
  <1> SUFFICES ASSUME Init PROVE JobsInv
    OBVIOUS
  <1>1. /\ disk = [main |-> EmptyGraph, pending |-> NoGraph,
                   memory |-> [s \in Sources |-> 1], upserts |-> {}, deletes |-> {}]
        /\ engine = EmptyGraph /\ worker = [w \in Workers |-> Idle]
        /\ epoch = [j \in Jobs |-> 0] /\ completed = {} /\ stopped = {}
        /\ purged = epoch
    BY DEF Init
  <1>2. /\ Env.worker = worker /\ Env.epoch = epoch /\ Env.completed = {}
        /\ Env.stopped = {} /\ Env.purged = epoch
    BY <1>1 DEF Env
  <1>3. MaxEnqueues \in Nat /\ Ttl \in Nat /\ MaxVersion \in Nat
    BY JobConstants
  <1>4. EnvInv(Env)
    <2>1. \A w \in Workers : WorkerInv(w, Env)
      BY <1>1, <1>2, <1>3 DEF WorkerInv, LeaseRecord, Idle
    <2>2. Exclusive(Env)
      BY <1>1, <1>2 DEF Exclusive, Idle
    <2>3. epoch \in [Jobs -> 0 .. MaxEnqueues] /\ epoch \in [Jobs -> Nat]
      BY <1>1, <1>3
    <2> QED
      BY <1>1, <1>2, <2>1, <2>2, <2>3 DEF EnvInv
  <1>5. EmptyGraph \in GraphType
    <2>1. NoRun \in RunType
      BY DEF NoRun, RunType
    <2> QED
      BY <2>1 DEF EmptyGraph, GraphType
  <1>6. \A d : GraphInv(EmptyGraph, d, Env)
    <2>1. ASSUME NEW j \in Jobs
          PROVE  JobInv(j, NoJob, NoRun, Env)
      BY <1>2 DEF JobInv, JobTyped, RunTyped, KeepsCancel, KeepsResult, KeepsLease, NoRun
    <2>2. \A j \in Jobs : EmptyGraph.jobs[j] = NoJob /\ EmptyGraph.runs[j] = NoRun
      BY DEF EmptyGraph
    <2> QED
      BY <2>1, <2>2 DEF GraphInv, NoRun
  <1>7. /\ disk \in DiskType /\ disk.main = EmptyGraph /\ disk.pending = NoGraph
        /\ disk.upserts = {}
    <2>1. 1 \in Versions
      BY JobConstants DEF Versions
    <2>2. [s \in Sources |-> 1] \in [Sources -> Versions]
      BY <2>1
    <2> QED
      BY <1>1, <1>5, <2>2 DEF DiskType
  <1>8. DiskInv(disk, Env)
    BY <1>6, <1>7 DEF DiskInv
  <1>9. Stage(disk, engine) \in Stages(Env, "open")
    BY <1>1, <1>5, <1>6, <1>7, <1>8, SuccessorOfItself DEF Stages, StageType, Stage
  <1> QED
    BY <1>4, <1>8, <1>9 DEF JobsInv

LEMMA InvInductive ==
    ASSUME JobsInv, [Next]_vars
    PROVE  JobsInv'
  <1>1. CASE UNCHANGED vars
    <2>1. /\ disk' = disk /\ engine' = engine /\ Env' = Env
      BY <1>1 DEF vars, Env
    <2> QED
      BY <2>1 DEF JobsInv, Open
  <1>2. ASSUME NEW j \in Jobs, graph_extract_enqueue(j) \/ graph_extract_cancel(j)
        PROVE  JobsInv'
    BY <1>2, EnqueueStep, CancelStep
  <1>3. ASSUME NEW w \in Workers,
               \/ graph_extract_claim(w) \/ graph_extract_renew(w) \/ forgets(w)
               \/ \E m \in Materials \cup {"retryable", "permanent"} :
                     graph_extract_finish(w, m)
        PROVE  JobsInv'
    BY <1>3, ClaimStep, RenewStep, ForgetsStep, FinishStep
  <1>4. ASSUME NEW s \in Sources, Delete(s) \/ \E r \in Versions : Upsert(s, r)
        PROVE  JobsInv'
    BY <1>4, DeleteStep, UpsertStep
  <1>5. ASSUME graph_extract_job_status \/ Purge \/ OpenEngine \/ Crash \/ Tick
        PROVE  JobsInv'
    BY <1>5, StatusStep, PurgeStep, OpenStep, CrashStep, TickStep
  <1> QED
    BY <1>1, <1>2, <1>3, <1>4, <1>5 DEF Next

\* Three graphs are all there is to reason about.
THEOREM InvHolds == Spec => []JobsInv
  <1>1. Init => JobsInv
    BY InvInitially
  <1>2. JobsInv /\ [Next]_vars => JobsInv'
    BY InvInductive
  <1> QED
    BY <1>1, <1>2, PTL DEF Spec

\* What is said of the graph that the next engine would load, and of the open
\* one, follows from what the invariant says of the files.
LEMMA GraphsSound ==
    ASSUME JobsInv, NEW graph \in Graphs
    PROVE  /\ graph \in GraphType /\ GraphInv(graph, disk, Env)
  <1>1. /\ disk \in DiskType /\ GraphInv(disk.main, disk, Env)
        /\ disk.pending # NoGraph => GraphInv(disk.pending, disk, Env)
    BY DEF JobsInv, DiskInv
  <1>2. Durable \in GraphType /\ GraphInv(Durable, disk, Env)
    BY <1>1 DEF Durable, Newer, DiskType
  <1>3. Open => engine \in GraphType /\ GraphInv(engine, disk, Env)
    BY HandlerStarts
  <1> QED
    BY <1>2, <1>3 DEF Graphs

\* The graphs on disk and in memory are ones that validate_state accepts.
LEMMA GraphAccepted ==
    ASSUME NEW g \in GraphType, NEW d, NEW v, GraphInv(g, d, v)
    PROVE  GraphOK(g)
  <1>1. \A j \in Jobs : g.jobs[j] \in JobType \cup {NoJob}
    BY OwnJobs
  <1>2. \A j \in Jobs : JobTyped(j, g.jobs[j], v)
    BY DEF GraphInv, JobInv
  <1> QED
    BY <1>1, <1>2 DEF GraphOK, JobTyped

\* TypeOK: validate_state accepts every graph that is written (graph/mod.rs).
THEOREM JobsTyped == Spec => []TypeOK
  <1>1. JobsInv => TypeOK
    <2>1. SUFFICES ASSUME JobsInv PROVE TypeOK
      OBVIOUS
    <2>2. /\ disk \in DiskType /\ GraphInv(disk.main, disk, Env)
          /\ disk.pending # NoGraph => GraphInv(disk.pending, disk, Env)
      BY <2>1 DEF JobsInv, DiskInv
    <2>3. GraphOK(disk.main) /\ (disk.pending # NoGraph => GraphOK(disk.pending))
      <3>1. disk.main \in GraphType /\ disk.pending \in GraphType \cup {NoGraph}
        BY <2>2 DEF DiskType
      <3> QED
        BY <2>2, <3>1, GraphAccepted
    <2>4. Open => GraphOK(engine)
      BY <2>1, HandlerStarts, GraphAccepted
    <2>5. /\ disk.memory \in [Sources -> Versions]
          /\ disk.upserts \subseteq Sources \X Versions /\ disk.deletes \subseteq Sources
      BY <2>2 DEF DiskType
    <2> QED
      BY <2>3, <2>4, <2>5 DEF TypeOK
  <1> QED
    BY <1>1, InvHolds, PTL

\* OneHolder: two workers never both believe that their lease on a job lasts
\* (claim_job, renew_job and recover_expired_jobs of graph/mod.rs).
THEOREM HolderIsOne == Spec => []OneHolder
  <1>1. JobsInv => OneHolder
    BY DEF JobsInv, EnvInv, Exclusive, OneHolder, Env
  <1> QED
    BY <1>1, InvHolds, PTL

\* OneResult: a completion that was answered is the only one of its job and
\* stays what it stored until a purge (finish_job, restarts included).
THEOREM ResultIsOne == Spec => []OneResult
  <1>1. JobsInv => OneResult
    <2>1. SUFFICES ASSUME JobsInv, NEW r \in completed
                   PROVE  /\ \A q \in completed :
                                q.job = r.job /\ q.epoch = r.epoch => q = r
                          /\ \A graph \in Graphs :
                                \/ r.epoch <= purged[r.job]
                                \/ /\ graph.runs[r.job].material = r.material
                                   /\ LET job == graph.jobs[r.job]
                                      IN job # NoJob /\ job.epoch = r.epoch
                                           => job.state = "completed"
      BY DEF OneResult
    <2>2. /\ Env.completed = completed /\ Env.purged = purged /\ EnvInv(Env)
      BY <2>1 DEF JobsInv, Env
    <2>3. /\ r.job \in Jobs /\ r.material \in Materials /\ r.material # None
          /\ \A q \in completed : q.job = r.job /\ q.epoch = r.epoch => q = r
      <3>1. r \in [job : Jobs, epoch : 1 .. MaxEnqueues, material : Materials]
        BY <2>1, <2>2 DEF EnvInv
      <3> QED
        BY <2>1, <2>2, <3>1, JobConstants DEF EnvInv
    <2>4. ASSUME NEW graph \in Graphs, ~(r.epoch <= purged[r.job])
          PROVE  /\ graph.runs[r.job].material = r.material
                 /\ graph.jobs[r.job].state = "completed"
      <3>1. JobInv(r.job, graph.jobs[r.job], graph.runs[r.job], Env)
        BY <2>1, <2>3, GraphsSound DEF GraphInv
      <3>2. /\ graph.jobs[r.job] # NoJob /\ graph.jobs[r.job].epoch = r.epoch
            /\ graph.jobs[r.job].state = "completed"
            /\ graph.jobs[r.job].fence.material = r.material
        BY <2>1, <2>2, <2>4, <3>1 DEF JobInv, KeepsResult
      <3> QED
        BY <3>1, <3>2 DEF JobInv, RunTyped
    <2> QED
      BY <2>3, <2>4
  <1> QED
    BY <1>1, InvHolds, PTL

\* CancelHolds: a job whose cancellation was answered is never completed and
\* not tried again (cancel_job, finish_job, recover_expired_jobs).
THEOREM CancelIsKept == Spec => []CancelHolds
  <1>1. JobsInv => CancelHolds
    <2>1. SUFFICES ASSUME JobsInv, NEW p \in stopped, NEW graph \in Graphs,
                          graph.jobs[p[1]] # NoJob, graph.jobs[p[1]].epoch = p[2]
                   PROVE  LET job == graph.jobs[p[1]]
                          IN \/ job.state \in {"cancelled", "failed"}
                             \/ job.state \in active /\ job.cancel
      BY DEF CancelHolds
    <2>2. /\ Env.stopped = stopped /\ p[1] \in Jobs
      BY <2>1 DEF JobsInv, Env, EnvInv
    <2>3. JobInv(p[1], graph.jobs[p[1]], graph.runs[p[1]], Env)
      BY <2>1, <2>2, GraphsSound DEF GraphInv
    <2> QED
      BY <2>1, <2>2, <2>3 DEF JobInv, KeepsCancel
  <1> QED
    BY <1>1, InvHolds, PTL

\* EvidenceIsCurrent: no evidence is kept of a memory that has changed, unless
\* the change is still journaled (the erasure before each write of a memory).
THEOREM EvidenceIsTrue == Spec => []EvidenceIsCurrent
  <1>1. JobsInv => EvidenceIsCurrent
    BY GraphsSound DEF GraphInv, Current, EvidenceIsCurrent
  <1> QED
    BY <1>1, InvHolds, PTL
=============================================================================

-------------------------- MODULE ModelSwitchProofs --------------------------
(***************************************************************************)
(* What holds of a switch of the embedding model for every set of          *)
(* memories and of generations, any number of switches, mutations and      *)
(* crashes, until a durable write fails or a user has the active generation *)
(* switched to itself (looped):                                            *)
(*  - SwitchFollows: the files, the open engine and what callers were told *)
(*    fit together (the inductive invariant SwitchInv);                    *)
(*  - CancelIsKept: a switch whose cancellation was promised does not      *)
(*    commit;                                                              *)
(*  - RollbackIsSound: what one may return to holds the memories of today; *)
(*  - ActiveServes, ActiveIsSound: so does what the pointer names, and the *)
(*    engine works on it;                                                  *)
(*  - SwitchKeepsPromise: ModelSwitch implements EmbeddingGeneration.      *)
(***************************************************************************)
EXTENDS ModelSwitch, SequenceTheorems, FiniteSetTheorems, WellFoundedInduction, TLAPS

-----------------------------------------------------------------------------
(***************************************************************************)
(* The invariant: of files "d", of what was promised to callers (acked),   *)
(* and of the number of switches so far (started).                         *)
(***************************************************************************)
JobType ==
    [id : Nat, phase : Phases, source : All, target : All, cursor : Nat, total : Nat,
     cancel_requested : BOOLEAN, revision : Nat, digest : Content \cup {Unknown},
     downtime : BOOLEAN, retain : BOOLEAN, preexisting : BOOLEAN, snapshot : BOOLEAN]
JournalType == [current : JobType \cup {NoJob}, history : Seq(JobType)]
ManifestType ==
    [state : {"building", "complete", "active", "retained", "quarantined"},
     digest : Content \cup {Unknown}, revision : Nat]
DiskType ==
    [pointer : All, journal : JournalType, manifest : [Gens -> ManifestType \cup {NoManifest}],
     store : [All -> {"absent", "unsealed", "hollow", "sealed"}],
     docs : [All -> Content], content : Content, revision : Nat,
     pending : SUBSET (Ids \X Versions)]
EngineType ==
    [active : All, serving : All, embedder : Profiles \cup {None}, target : BOOLEAN,
     journal : JournalType]

\* A job whose cancellation was promised has not been, and is not, committed.
KeepsCancel(job, acks) ==
    job.id \in acks => job.phase \in {"cancel_requested", "cancelled"}

\* Ids grow, what is filed has ended, and cancellations hold.
JournalInv(journal, acks, n) ==
    /\ acks \subseteq 0 .. n
    /\ journal.current = NoJob => journal.history = <<>>
    /\ journal.current # NoJob =>
         LET job == journal.current IN
         /\ job.id <= n
         /\ job.cancel_requested <=> job.phase \in {"cancel_requested", "cancelled"}
         /\ KeepsCancel(job, acks)
         /\ \A k \in DOMAIN journal.history : journal.history[k].id < job.id
    /\ \A k \in DOMAIN journal.history :
         /\ journal.history[k].phase \in Terminal
         /\ KeepsCancel(journal.history[k], acks)

\* The running job: the pointer is at one of its ends; its source is complete
\* until it is removed, and its target holds nothing but what the source does.
JobInv(d, job) ==
    /\ job.source # job.target
    /\ d.pointer = job.source \/ (d.pointer = job.target /\ job.phase = "committing")
    /\ job.digest \in {Unknown, d.content}
    /\ job.target = Legacy => job.preexisting
    /\ job.preexisting =>
         /\ job.phase \in {"verifying", "committing", "cancel_requested"}
         /\ d.docs[job.target] = d.content /\ d.store[job.target] = "sealed"
         /\ job.target \in Gens /\ d.pointer = job.source =>
              d.manifest[job.target].state \in {"retained", "complete"}
    /\ \A i \in Ids : d.docs[job.target][i] \in {0, d.content[i]}
    /\ job.phase \in {"reindexing", "verifying", "committing"} =>
         /\ d.store[job.target] = "sealed"
         /\ job.target \in Gens => d.manifest[job.target] # NoManifest
    /\ job.phase = "committing" => d.docs[job.target] = d.content
    /\ d.pointer = job.target /\ job.retain =>
         d.docs[job.source] = d.content /\ d.store[job.source] = "sealed"

\* A generation that may be returned to is what its manifest says.
Kept(g, d) ==
    LET manifest == d.manifest[g] IN
    manifest.state \in {"retained", "complete"} =>
        /\ d.store[g] = "sealed"
        /\ manifest.digest # Unknown => d.docs[g] = manifest.digest
        /\ manifest.digest = Unknown =>
             \/ manifest.revision < d.revision
             \/ /\ manifest.revision = d.revision
                /\ d.pending = {} /\ d.docs[g] = d.content

\* The generations of which the manifest says nothing yet, or no more.
Excused(g, d) ==
    \/ g = d.pointer
    \/ /\ Running(d.journal)
       /\ LET job == d.journal.current
          IN g = job.source \/ (g = job.target /\ ~job.preexisting)

\* The first generation is what the newest switch away from it said.
LegacyKept(d) ==
    LET job == legacy_snapshot(d.journal) IN
    /\ d.pointer # Legacy /\ d.store[Legacy] = "sealed"
    /\ ~(Running(d.journal) /\ d.journal.current.source = Legacy)
    /\ job # NoJob /\ job.digest # Unknown
    => d.docs[Legacy] = job.digest

\* What the last switch was told to retain is there.
Retained(d) ==
    LET job == d.journal.current IN
    job # NoJob /\ job.phase = "succeeded" /\ job.retain /\ job.source # Legacy
    => /\ d.manifest[job.source].state \in {"retained", "complete"}
       /\ d.store[job.source] = "sealed"

DiskInv(d, acks, n) ==
    /\ d \in DiskType
    /\ JournalInv(d.journal, acks, n)
    /\ d.store[d.pointer] = "sealed"
    /\ \A i \in Ids : (\A p \in d.pending : p[1] # i) => d.docs[d.pointer][i] = d.content[i]
    /\ d.pending # {} => ~Running(d.journal)
    /\ \A g \in All : d.store[g] = "absent" => d.docs[g] = Empty
    /\ \A g \in Gens : d.store[g] = "absent" => d.manifest[g] = NoManifest
    /\ Running(d.journal) => JobInv(d, d.journal.current)
    /\ \A g \in Gens : Excused(g, d) \/ Kept(g, d)
    /\ LegacyKept(d)
    /\ Retained(d)

\* The open engine works on the collection of the pointer.
EngineInv(d, e) ==
    /\ e \in EngineType
    /\ e.journal = d.journal
    /\ e.active = d.pointer /\ e.serving = d.pointer
    /\ e.embedder \in {None, ProfileOf[e.serving]}
    /\ d.pending = {}

\* A step that fails was one of a job that runs and is not cancelled.
FailingInv ==
    failing => Open /\ Running(disk.journal) /\ ~disk.journal.current.cancel_requested

SwitchInv ==
    /\ faults \in 0 .. MaxFaults /\ started \in Nat /\ looped \in BOOLEAN
    /\ faults = 0 /\ ~looped =>
         /\ DiskInv(disk, acked, started)
         /\ Open => EngineInv(disk, engine)
         /\ FailingInv

-----------------------------------------------------------------------------
(***************************************************************************)
(* The manifests: a target is only taken when its manifest is complete, as *)
(* long as nothing is refused but for what the files say.                  *)
(***************************************************************************)
Usable == {"active", "complete"}

\* The memories are no longer those of a job that an earlier release left.
Outdated(d, job) == job.digest = Unknown /\ job.revision < d.revision

Marked(d) ==
    LET job == d.journal.current IN
    /\ d.pointer # Legacy => d.manifest[d.pointer].state \in Usable
    /\ Running(d.journal) => job.revision <= d.revision
    /\ Running(d.journal) /\ job.phase = "committing" /\ job.target # Legacy
         => d.manifest[job.target].state \in Usable \/ Outdated(d, job)

\* A commit that failed before the pointer was installed was outdated.
Refused(d) ==
    LET job == d.journal.current
    IN job.phase = "committing" /\ d.pointer # job.target => Outdated(d, job)

ManifestInv == faults = 0 /\ ~looped => Marked(disk) /\ (failing => Refused(disk))
-----------------------------------------------------------------------------
(***************************************************************************)
(* The shapes of the values.                                               *)
(***************************************************************************)

\* What is absent is never taken for something that is there.
LEMMA Shapes ==
    /\ \A job \in JobType : job # NoJob
    /\ \A manifest \in ManifestType : manifest # NoManifest
    /\ \A e \in EngineType : e # Closed
    /\ \A content \in Content : content # Unknown
    /\ Empty \in Content /\ 0 \in Versions
  <1>1. \A job \in JobType : "id" \in DOMAIN job
    BY DEF JobType
  <1>2. \A manifest \in ManifestType : "digest" \in DOMAIN manifest
    BY DEF ManifestType
  <1>3. \A e \in EngineType : e.active \in All
    BY DEF EngineType
  <1>4. \A content \in Content : DOMAIN content = Ids /\ Ids # {}
    BY SwitchConstants DEF Content
  <1>5. DOMAIN Unknown = {}
    BY DEF Unknown
  <1>6. /\ DOMAIN NoJob = {"phase", "source", "target"} /\ DOMAIN NoManifest = {"state"}
        /\ Closed.active \notin All
    BY SwitchConstants DEF NoJob, NoManifest, Closed
  <1>7. 0 \in Versions
    BY SwitchConstants DEF Versions
  <1>8. Empty \in Content
    BY <1>7 DEF Empty, Content
  <1> QED
    BY <1>1, <1>2, <1>3, <1>4, <1>5, <1>6, <1>7, <1>8

\* The job that runs is one, and the files of a journal have their types.
LEMMA RunningJob ==
    ASSUME NEW journal \in JournalType
    PROVE  /\ journal.current \in JobType \cup {NoJob}
           /\ journal.history \in Seq(JobType)
           /\ Running(journal) => journal.current \in JobType /\ journal.current # NoJob
           /\ journal.current \in JobType => journal.current # NoJob
           /\ Running(journal) <=> journal.current.phase \notin Terminal
           /\ journal = [current |-> journal.current, history |-> journal.history]
  BY Shapes DEF JournalType, Running, NoJob, Terminal

-----------------------------------------------------------------------------
(***************************************************************************)
(* The newest switch away from the first generation.                       *)
(***************************************************************************)
Fits(job) == job.phase = "succeeded" /\ job.source = Legacy
Fitting(jobs) == {k \in DOMAIN jobs : Fits(jobs[k])}
Filed(journal) == <<journal.current>> \o Reverse(journal.history)

\* There is a least among the places of a sequence that are wanted.
LEMMA LeastPlace ==
    ASSUME NEW T, T \subseteq Nat, T # {}
    PROVE  /\ (CHOOSE k \in T : \A l \in T : k <= l) \in T
           /\ \A l \in T : (CHOOSE k \in T : \A m \in T : k <= m) <= l
  <1>1. \E k \in T : \A l \in T : ~(<<l, k>> \in OpToRel(<, Nat))
    <2>1. IsWellFoundedOn(OpToRel(<, Nat), Nat)
      BY NatLessThanWellFounded
    <2> HIDE DEF OpToRel
    <2> QED
      BY <2>1, WFMin
  <1>2. \A k, l \in Nat : l < k => <<l, k>> \in OpToRel(<, Nat)
    BY DEF OpToRel
  <1>3. \E k \in T : \A l \in T : k <= l
    <2>1. PICK k \in T : \A l \in T : ~(<<l, k>> \in OpToRel(<, Nat))
      BY <1>1
    <2>2. \A l \in T : ~(l < k)
      BY <1>2, <2>1
    <2> QED
      BY <2>2
  <1> QED
    BY <1>3

\* A newest switch is one of those that fit, and later than all of them.
LEMMA NewestFits ==
    ASSUME NEW journal \in JournalType, Fitting(Filed(journal)) # {}
    PROVE  \E k \in Fitting(Filed(journal)) :
              /\ legacy_snapshot(journal) = Filed(journal)[k]
              /\ \A l \in Fitting(Filed(journal)) : k <= l
  <1>1. Fitting(Filed(journal)) \subseteq Nat
    <2>1. Filed(journal) \in Seq(JobType \cup {NoJob})
      BY RunningJob DEF Filed, Reverse
    <2> QED
      BY <2>1 DEF Fitting
  <1>2. legacy_snapshot(journal) =
          Filed(journal)[CHOOSE k \in Fitting(Filed(journal)) :
                            \A l \in Fitting(Filed(journal)) : k <= l]
    BY DEF legacy_snapshot, Fitting, Filed, Fits
  <1> QED
    BY <1>1, <1>2, LeastPlace

\* None fits: there is no such switch.
LEMMA NoneFits ==
    ASSUME NEW journal, Fitting(Filed(journal)) = {}
    PROVE  legacy_snapshot(journal) = NoJob
  BY DEF legacy_snapshot, Fitting, Filed, Fits

\* The newest of two lists, one of which is the other moved by some places.
LEMMA SameNewest ==
    ASSUME NEW a \in JournalType, NEW b \in JournalType, NEW m \in Nat,
           Fitting(Filed(b)) = {k + m : k \in Fitting(Filed(a))},
           \A k \in Fitting(Filed(a)) : Filed(b)[k + m] = Filed(a)[k]
    PROVE  legacy_snapshot(b) = legacy_snapshot(a)
  <1>1. CASE Fitting(Filed(a)) = {}
    BY <1>1, NoneFits
  <1>2. CASE Fitting(Filed(a)) # {}
    <2>1. PICK k \in Fitting(Filed(a)) :
              /\ legacy_snapshot(a) = Filed(a)[k]
              /\ \A l \in Fitting(Filed(a)) : k <= l
      BY <1>2, NewestFits
    <2>2. Fitting(Filed(b)) # {}
      BY <1>2
    <2>3. PICK j \in Fitting(Filed(b)) :
              /\ legacy_snapshot(b) = Filed(b)[j]
              /\ \A l \in Fitting(Filed(b)) : j <= l
      BY <2>2, NewestFits
    <2>4. PICK i \in Fitting(Filed(a)) : j = i + m
      BY <2>3
    <2>5. Fitting(Filed(a)) \subseteq Nat
      <3>1. Filed(a) \in Seq(JobType \cup {NoJob})
        BY RunningJob DEF Filed, Reverse
      <3> QED
        BY <3>1 DEF Fitting
    <2>6. i = k
      <3>1. k <= i
        BY <2>1, <2>4
      <3>2. i + m <= k + m
        BY <2>3, <2>4
      <3>3. i \in Nat /\ k \in Nat
        BY <2>5
      <3> QED
        BY <3>1, <3>2, <3>3
    <2> QED
      BY <2>1, <2>3, <2>4, <2>6
  <1> QED
    BY <1>1, <1>2

\* The list of a journal, place by place.
LEMMA FiledPlaces ==
    ASSUME NEW a \in JournalType
    PROVE  /\ DOMAIN Filed(a) = 1 .. Len(a.history) + 1
           /\ Filed(a)[1] = a.current
           /\ \A k \in 2 .. Len(a.history) + 1 :
                 Filed(a)[k] = a.history[Len(a.history) - k + 2]
           /\ Len(a.history) \in Nat
  <1>1. a.history \in Seq(JobType) /\ Len(a.history) \in Nat
    BY RunningJob
  <1>2. Reverse(a.history) = [i \in 1 .. Len(a.history) |-> a.history[Len(a.history) - i + 1]]
    BY DEF Reverse
  <1>3. /\ Reverse(a.history) \in Seq(JobType)
        /\ Len(Reverse(a.history)) = Len(a.history)
    BY <1>1, <1>2
  <1> QED
    BY <1>1, <1>2, <1>3, RunningJob DEF Filed

\* A job that is no such switch, before and after, does not change the newest.
LEMMA SnapshotKept ==
    ASSUME NEW a \in JournalType, NEW b \in JournalType, b.history = a.history,
           ~Fits(a.current), ~Fits(b.current)
    PROVE  legacy_snapshot(b) = legacy_snapshot(a)
  <1>1. DOMAIN Filed(b) = DOMAIN Filed(a)
    BY FiledPlaces
  <1>2. \A k \in DOMAIN Filed(a) : k # 1 => Filed(b)[k] = Filed(a)[k]
    <2>1. SUFFICES ASSUME NEW k \in 2 .. Len(a.history) + 1
                   PROVE  Filed(b)[k] = Filed(a)[k]
      BY FiledPlaces
    <2>2. /\ Filed(a)[k] = a.history[Len(a.history) - k + 2]
          /\ Filed(b)[k] = b.history[Len(b.history) - k + 2]
      BY FiledPlaces
    <2> QED
      BY <2>2
  <1>3. \A k \in DOMAIN Filed(a) : Fits(Filed(a)[k]) <=> Fits(Filed(b)[k])
    BY <1>2, FiledPlaces
  <1>4. Fitting(Filed(b)) = Fitting(Filed(a))
    BY <1>1, <1>3 DEF Fitting
  <1>5. \A k \in Fitting(Filed(a)) : k + 0 = k /\ Filed(b)[k] = Filed(a)[k]
    BY <1>2, FiledPlaces DEF Fitting
  <1> QED
    BY <1>4, <1>5, SameNewest

\* A switch away from the first generation that ends is the newest.
LEMMA SnapshotNew ==
    ASSUME NEW b \in JournalType, Fits(b.current)
    PROVE  legacy_snapshot(b) = b.current
  <1>1. 1 \in Fitting(Filed(b))
    BY FiledPlaces DEF Fitting
  <1>2. PICK k \in Fitting(Filed(b)) :
              /\ legacy_snapshot(b) = Filed(b)[k]
              /\ \A l \in Fitting(Filed(b)) : k <= l
    BY <1>1, NewestFits
  <1>3. k <= 1 /\ k \in 1 .. Len(b.history) + 1
    BY <1>1, <1>2, FiledPlaces DEF Fitting
  <1>4. k = 1
    BY <1>3, FiledPlaces
  <1> QED
    BY <1>2, <1>4, FiledPlaces

\* A job that begins is filed before the others and changes nothing.
LEMMA SnapshotFiled ==
    ASSUME NEW a \in JournalType, NEW job \in JobType, ~Fits(job), ~Running(a),
           a.current = NoJob => a.history = <<>>
    PROVE  /\ replace_current(a, job) \in JournalType
           /\ legacy_snapshot(replace_current(a, job)) = legacy_snapshot(a)
  <1> DEFINE b == replace_current(a, job)
  <1>1. CASE a.current = NoJob
    <2>1. b = [current |-> job, history |-> a.history] /\ b \in JournalType
      BY <1>1, RunningJob DEF replace_current, JournalType
    <2>2. ~Fits(a.current)
      BY <1>1 DEF Fits, NoJob
    <2> QED
      BY <2>1, <2>2, SnapshotKept
  <1>2. CASE a.current # NoJob
    <2>1. a.current \in JobType /\ a.history \in Seq(JobType) /\ Len(a.history) \in Nat
      BY <1>2, RunningJob
    <2>2. b = [current |-> job, history |-> Append(a.history, a.current)]
      BY <1>2 DEF replace_current, Running
    <2>3. b \in JournalType
      BY <2>1, <2>2 DEF JournalType
    <2>4. Len(b.history) = Len(a.history) + 1
      BY <2>1, <2>2
    <2>5. \A k \in DOMAIN Filed(a) : Filed(b)[k + 1] = Filed(a)[k]
      <3>1. SUFFICES ASSUME NEW k \in 1 .. Len(a.history) + 1
                     PROVE  Filed(b)[k + 1] = Filed(a)[k]
        BY FiledPlaces
      <3>2. Filed(b)[k + 1] = b.history[Len(a.history) - k + 2]
        BY <2>1, <2>3, <2>4, FiledPlaces
      <3>3. CASE k = 1
        BY <2>1, <2>2, <3>2, <3>3, FiledPlaces
      <3>4. CASE k # 1
        <4>1. Len(a.history) - k + 2 \in 1 .. Len(a.history)
          BY <2>1, <3>4
        <4>2. b.history[Len(a.history) - k + 2] = a.history[Len(a.history) - k + 2]
          BY <2>1, <2>2, <4>1
        <4> QED
          BY <2>1, <3>2, <3>4, <4>2, FiledPlaces
      <3> QED
        BY <3>3, <3>4
    <2>6. Fitting(Filed(b)) = {k + 1 : k \in Fitting(Filed(a))}
      <3>1. DOMAIN Filed(b) = {1} \cup {k + 1 : k \in DOMAIN Filed(a)}
        <4>1. /\ DOMAIN Filed(a) = 1 .. Len(a.history) + 1
              /\ DOMAIN Filed(b) = 1 .. Len(a.history) + 2
          BY <2>1, <2>3, <2>4, FiledPlaces
        <4>2. \A k \in 1 .. Len(a.history) + 2 :
                 k = 1 \/ (k - 1 \in 1 .. Len(a.history) + 1 /\ k = (k - 1) + 1)
          BY <2>1
        <4>3. ASSUME NEW k \in DOMAIN Filed(b)
              PROVE  k \in {1} \cup {i + 1 : i \in DOMAIN Filed(a)}
          BY <4>1, <4>2
        <4>4. \A k \in DOMAIN Filed(a) : k + 1 \in DOMAIN Filed(b)
          BY <2>1, <4>1
        <4>5. 1 \in DOMAIN Filed(b)
          BY <2>1, <4>1
        <4> QED
          BY <4>3, <4>4, <4>5
      <3>2. ~Fits(Filed(b)[1])
        BY <2>2, <2>3, FiledPlaces
      <3> QED
        BY <2>5, <3>1, <3>2 DEF Fitting
    <2>7. \A k \in Fitting(Filed(a)) : Filed(b)[k + 1] = Filed(a)[k]
      BY <2>5 DEF Fitting
    <2>8. legacy_snapshot(b) = legacy_snapshot(a)
      BY <2>3, <2>6, <2>7, SameNewest
    <2> QED
      BY <2>3, <2>8
  <1> QED
    BY <1>1, <1>2
-----------------------------------------------------------------------------
(***************************************************************************)
(* Handlers.  Until a write fails a handler completes, or leaves the files *)
(* of one of its stages behind.                                            *)
(***************************************************************************)

\* A write that fails is counted.
LEMMA FailsCost ==
    ASSUME faults \in Nat, NEW stages, NEW then, Fails(stages, then)
    PROVE  faults' # 0
  BY DEF Fails

\* A stage of the handler, by its place.
LEMMA StagePlaces ==
    ASSUME NEW S, NEW disks \in Seq(S), disks # <<>>, NEW e, NEW e1
    PROVE  LET stages == Stages(disks, e, e1)
           IN /\ stages = [k \in 1 .. Len(disks) + 1 |->
                             IF k <= Len(disks)
                             THEN Stage(disks[k], IF k < Len(disks) THEN e ELSE e1)
                             ELSE Stage(Saved(Last(disks), e1), e1)]
              /\ Len(stages) = Len(disks) + 1
              /\ Last(stages) = Stage(Saved(Last(disks), e1), e1)
  <1> DEFINE front == [k \in 1 .. Len(disks) |->
                         Stage(disks[k], IF k < Len(disks) THEN e ELSE e1)]
             back == Stage(Saved(Last(disks), e1), e1)
             T == {front[k] : k \in 1 .. Len(disks)} \cup {back}
  <1>1. Len(disks) \in Nat \ {0}
    BY EmptySeq
  <1>2. front \in Seq(T) /\ Len(front) = Len(disks)
    BY <1>1
  <1>3. <<back>> \in Seq(T) /\ Len(<<back>>) = 1 /\ <<back>>[1] = back
    OBVIOUS
  <1> HIDE DEF T, back
  <1>4. /\ front \o <<back>> \in Seq(T)
        /\ Len(front \o <<back>>) = Len(disks) + 1
        /\ \A k \in 1 .. Len(disks) + 1 :
              (front \o <<back>>)[k] = IF k <= Len(disks) THEN front[k] ELSE back
    BY <1>1, <1>2, <1>3
  <1>5. Stages(disks, e, e1) = front \o <<back>>
    BY DEF Stages, back
  <1>6. front \o <<back>> = [k \in 1 .. Len(disks) + 1 |->
                                IF k <= Len(disks) THEN front[k] ELSE back]
    BY <1>1, <1>4
  <1>7. Last(front \o <<back>>) = back
    BY <1>1, <1>4 DEF Last
  <1> QED
    BY <1>1, <1>4, <1>5, <1>6, <1>7 DEF back

\* A handler that completes, or is cut short.
LEMMA StagesEnd ==
    ASSUME NEW S, NEW disks \in Seq(S), disks # <<>>, NEW e, NEW e1,
           NEW stages, stages = Stages(disks, e, e1)
    PROVE  /\ Completes(stages) => /\ disk' = Saved(Last(disks), e1) /\ engine' = e1
                                   /\ failing' = FALSE
           /\ Crashes(stages) => /\ disk' \in S /\ engine' = Closed
                                 /\ failing' = FALSE
  <1>1. Len(disks) \in Nat \ {0} /\ \A k \in 1 .. Len(disks) : disks[k] \in S
    BY EmptySeq
  <1>2. Completes(stages) => /\ disk' = Saved(Last(disks), e1) /\ engine' = e1
                             /\ failing' = FALSE
    BY StagePlaces DEF Completes, Stage
  <1>3. ASSUME Crashes(stages)
        PROVE  disk' \in S /\ engine' = Closed /\ failing' = FALSE
    <2>1. PICK k \in 1 .. Len(stages) - 1 :
              disk' = stages[k].disk /\ engine' = Closed /\ failing' = FALSE
      BY <1>3 DEF Crashes
    <2>2. k \in 1 .. Len(disks) /\ stages[k].disk = disks[k]
      BY <1>1, <2>1, StagePlaces DEF Stage
    <2> QED
      BY <1>1, <2>1, <2>2
  <1> QED
    BY <1>2, <1>3

\* The commit, which first lets go of the engine's own model.
LEMMA CommitEnd ==
    ASSUME NEW S, NEW disks \in Seq(S), disks # <<>>, NEW e, NEW e1, NEW t,
           disk \in S,
           NEW stages, stages = <<Stage(disk, t)>> \o Stages(disks, e, e1)
    PROVE  /\ Completes(stages) => /\ disk' = Saved(Last(disks), e1) /\ engine' = e1
                                   /\ failing' = FALSE
           /\ Crashes(stages) => /\ disk' \in S /\ engine' = Closed
                                 /\ failing' = FALSE
  <1> DEFINE n == Len(disks)
             rest == Stages(disks, e, e1)
             T == {rest[k] : k \in 1 .. n + 1} \cup {Stage(disk, t)}
  <1>1. n \in Nat \ {0} /\ \A k \in 1 .. n : disks[k] \in S
    BY EmptySeq
  <1>2. rest \in Seq(T) /\ Len(rest) = n + 1
    <2>1. n + 1 \in Nat
      BY <1>1
    <2>2. rest = [k \in 1 .. n + 1 |-> rest[k]] /\ Len(rest) = n + 1
      BY <1>1, StagePlaces
    <2> HIDE DEF rest, n
    <2>3. [k \in 1 .. n + 1 |-> rest[k]] \in Seq(T)
      BY <2>1, IsASeq
    <2> QED
      BY <2>2, <2>3
  <1>3. <<Stage(disk, t)>> \in Seq(T)
    OBVIOUS
  <1>4. /\ Len(stages) = n + 2
        /\ stages[1] = Stage(disk, t)
        /\ \A k \in 2 .. n + 2 : stages[k] = rest[k - 1]
    BY <1>1, <1>2, <1>3
  <1>5. \A k \in 1 .. n : rest[k].disk = disks[k]
    BY <1>1, StagePlaces DEF Stage
  <1>6. rest[n + 1] = Stage(Saved(Last(disks), e1), e1)
    BY <1>1, StagePlaces
  <1> HIDE DEF rest, n, T
  <1>7. Last(stages) = Stage(Saved(Last(disks), e1), e1)
    BY <1>1, <1>4, <1>6 DEF Last
  <1>8. ASSUME NEW k \in 1 .. Len(stages) - 1
        PROVE  stages[k].disk \in S
    <2>1. CASE k = 1
      BY <2>1, <1>4 DEF Stage
    <2>2. CASE k # 1
      <3>1. k - 1 \in 1 .. n /\ stages[k] = rest[k - 1]
        BY <1>1, <1>4, <2>2
      <3> QED
        BY <1>1, <1>5, <3>1
    <2> QED
      BY <2>1, <2>2
  <1>9. Completes(stages) => /\ disk' = Saved(Last(disks), e1) /\ engine' = e1
                             /\ failing' = FALSE
    BY <1>7 DEF Completes, Stage
  <1>10. Crashes(stages) => /\ disk' \in S /\ engine' = Closed
                            /\ failing' = FALSE
    BY <1>8 DEF Crashes
  <1> QED
    BY <1>9, <1>10
-----------------------------------------------------------------------------
(***************************************************************************)
(* Changes of the files.                                                   *)
(***************************************************************************)

\* What EmbeddingGeneration lets users see between two sets of files: nothing,
\* a mutation, or the cut-over.
Follows(d, x) ==
    \/ x.pointer = d.pointer /\ x.docs[x.pointer] = d.docs[d.pointer]
    \/ ~Running(d.journal) /\ x.pointer = d.pointer
    \/ Running(d.journal) /\ x.pointer # d.pointer /\ x.docs[x.pointer] = d.docs[d.pointer]

Good(d, acks, n) == {x \in DiskType : DiskInv(x, acks, n) /\ Follows(d, x)}

\* Nothing happens.
LEMMA SameGood ==
    ASSUME NEW d, NEW acks, NEW n \in Nat, DiskInv(d, acks, n)
    PROVE  d \in Good(d, acks, n)
  BY DEF DiskInv, Good, Follows

\* The fields of files, and of the same files with another journal.
LEMMA DiskFields ==
    ASSUME NEW d \in DiskType
    PROVE  /\ d.pointer \in All /\ d.journal \in JournalType
           /\ d.manifest \in [Gens -> ManifestType \cup {NoManifest}]
           /\ d.store \in [All -> {"absent", "unsealed", "hollow", "sealed"}]
           /\ d.docs \in [All -> Content] /\ d.content \in Content
           /\ d.revision \in Nat /\ d.pending \in SUBSET (Ids \X Versions)
           /\ \A b \in JournalType :
                LET x == [d EXCEPT !.journal = b]
                IN /\ x \in DiskType /\ x.journal = b
                   /\ x.pointer = d.pointer /\ x.manifest = d.manifest
                   /\ x.store = d.store /\ x.docs = d.docs /\ x.content = d.content
                   /\ x.revision = d.revision /\ x.pending = d.pending
  BY DEF DiskType

\* Another journal is saved: what has to be seen to.
LEMMA JournalChanged ==
    ASSUME NEW d, NEW acks, NEW n \in Nat, DiskInv(d, acks, n),
           NEW b \in JournalType, NEW acks2, NEW n2, JournalInv(b, acks2, n2),
           NEW x, x = [d EXCEPT !.journal = b],
           Running(b) => d.pending = {} /\ JobInv(d, b.current),
           \A g \in Gens : Excused(g, x) \/ Kept(g, d),
           LegacyKept(x), Retained(x)
    PROVE  x \in DiskType /\ DiskInv(x, acks2, n2) /\ Follows(d, x)
  <1>1. d \in DiskType
    BY DEF DiskInv
  <1>2. /\ x \in DiskType /\ x.journal = b
        /\ x.pointer = d.pointer /\ x.manifest = d.manifest
        /\ x.store = d.store /\ x.docs = d.docs /\ x.content = d.content
        /\ x.revision = d.revision /\ x.pending = d.pending
    BY <1>1, DiskFields
  <1>3. Running(b) => x.pending = {} /\ JobInv(x, b.current)
    BY <1>2 DEF JobInv
  <1>4. \A g \in Gens : Excused(g, x) \/ Kept(g, x)
    BY <1>2 DEF Kept
  <1> QED
    BY <1>2, <1>3, <1>4 DEF DiskInv, Follows

\* The job that runs, in another phase.
SameJob(job, k) ==
    /\ k.id = job.id /\ k.source = job.source /\ k.target = job.target
    /\ k.digest = job.digest /\ k.retain = job.retain
    /\ k.preexisting = job.preexisting /\ k.revision = job.revision

\* The journal with another current job of the same id.
LEMMA JournalMoved ==
    ASSUME NEW a \in JournalType, NEW acks, NEW n \in Nat, JournalInv(a, acks, n),
           Running(a), NEW k \in JobType, k.id = a.current.id,
           k.cancel_requested <=> k.phase \in {"cancel_requested", "cancelled"},
           NEW acks2, acks2 \subseteq acks \cup {k.id}, KeepsCancel(k, acks2)
    PROVE  LET b == [a EXCEPT !.current = k]
           IN /\ b \in JournalType /\ b.current = k /\ b.history = a.history
              /\ JournalInv(b, acks2, n)
  <1> DEFINE b == [a EXCEPT !.current = k]
  <1>1. /\ b \in JournalType /\ b.current = k /\ b.history = a.history
        /\ a.current # NoJob /\ k # NoJob /\ a.history \in Seq(JobType)
    BY RunningJob, Shapes DEF JournalType
  <1>2. \A i \in DOMAIN a.history :
           /\ a.history[i].phase \in Terminal /\ a.history[i].id < a.current.id
           /\ KeepsCancel(a.history[i], acks) /\ a.history[i] \in JobType
    BY <1>1 DEF JournalInv
  <1>3. \A i \in DOMAIN a.history : KeepsCancel(a.history[i], acks2)
    BY <1>2 DEF KeepsCancel, JobType
  <1>4. acks2 \subseteq 0 .. n
    <2>1. acks \subseteq 0 .. n /\ k.id \in Nat /\ k.id <= n
      BY <1>1 DEF JournalInv, JobType
    <2> QED
      BY <2>1
  <1> QED
    BY <1>1, <1>2, <1>3, <1>4 DEF JournalInv

LEMMA Moved ==
    ASSUME NEW d, NEW acks, NEW n \in Nat, DiskInv(d, acks, n), Running(d.journal),
           NEW k \in JobType, SameJob(d.journal.current, k), k.phase \notin Terminal,
           k.cancel_requested <=> k.phase \in {"cancel_requested", "cancelled"},
           NEW acks2, acks2 \subseteq acks \cup {k.id}, KeepsCancel(k, acks2),
           JobInv(d, k),
           NEW x, x = [d EXCEPT !.journal = [d.journal EXCEPT !.current = k]]
    PROVE  x \in DiskType /\ DiskInv(x, acks2, n) /\ Follows(d, x)
  <1> DEFINE a == d.journal
             job == a.current
             b == [a EXCEPT !.current = k]
  <1>1. d \in DiskType /\ a \in JournalType /\ job \in JobType
    BY RunningJob, DiskFields DEF DiskInv
  <1>2. JournalInv(a, acks, n)
    BY DEF DiskInv
  <1>3. b \in JournalType /\ b.current = k /\ b.history = a.history /\ JournalInv(b, acks2, n)
    BY <1>1, <1>2, JournalMoved DEF SameJob
  <1>4. /\ x.journal = b /\ x.pointer = d.pointer
        /\ x.store = d.store /\ x.docs = d.docs
    BY <1>1, <1>3, DiskFields
  <1>5. Running(b)
    BY <1>3 DEF Running
  <1>6. d.pending = {}
    BY DEF DiskInv
  <1>7. \A g \in Gens : Excused(g, d) => Excused(g, x)
    BY <1>3, <1>4, <1>5 DEF Excused, SameJob
  <1>8. ~Fits(job) /\ ~Fits(k)
    BY RunningJob DEF Fits, Running, Terminal
  <1>9. legacy_snapshot(b) = legacy_snapshot(a)
    BY <1>1, <1>3, <1>8, SnapshotKept
  <1>10. LegacyKept(x)
    <2>1. LegacyKept(d) /\ k.source = job.source
      BY DEF DiskInv, SameJob
    <2> QED
      BY <1>3, <1>4, <1>5, <1>9, <2>1 DEF LegacyKept
  <1>11. Retained(x)
    BY <1>3, <1>4 DEF Retained, Terminal
  <1>12. \A g \in Gens : Excused(g, x) \/ Kept(g, d)
    BY <1>7 DEF DiskInv
  <1> HIDE DEF b, a, job
  <1> QED
    BY <1>3, <1>5, <1>6, <1>10, <1>11, <1>12, JournalChanged DEF b, a

\* A job that ends without a commit: what its target was is of no use, or it
\* was complete before.
LEMMA Ended ==
    ASSUME NEW d, NEW acks, NEW n \in Nat, DiskInv(d, acks, n), Running(d.journal),
           NEW k \in JobType, SameJob(d.journal.current, k), k.phase \in {"cancelled", "failed"},
           k.cancel_requested <=> k.phase \in {"cancel_requested", "cancelled"},
           KeepsCancel(k, acks),
           d.pointer = k.source,
           k.preexisting \/ d.manifest[k.target].state \notin {"retained", "complete"},
           NEW x, x = [d EXCEPT !.journal = [d.journal EXCEPT !.current = k]]
    PROVE  x \in DiskType /\ DiskInv(x, acks, n) /\ Follows(d, x)
  <1> DEFINE a == d.journal
             job == a.current
             b == [a EXCEPT !.current = k]
  <1>1. d \in DiskType /\ a \in JournalType /\ job \in JobType
    BY RunningJob, DiskFields DEF DiskInv
  <1>2. JournalInv(a, acks, n)
    BY DEF DiskInv
  <1>3. b \in JournalType /\ b.current = k /\ b.history = a.history /\ JournalInv(b, acks, n)
    BY <1>1, <1>2, JournalMoved DEF SameJob
  <1>4. /\ x.journal = b /\ x.pointer = d.pointer
        /\ x.store = d.store /\ x.docs = d.docs
    BY <1>1, <1>3, DiskFields
  <1>5. ~Running(b)
    BY <1>3 DEF Running, Terminal
  <1>6. ASSUME NEW g \in Gens
        PROVE  Excused(g, x) \/ Kept(g, d)
    <2>1. CASE g = d.pointer
      BY <1>4, <2>1 DEF Excused
    <2>2. CASE g # d.pointer /\ g = job.target /\ ~job.preexisting
      BY <2>2 DEF Kept, SameJob
    <2>3. CASE ~Excused(g, d)
      BY <2>3 DEF DiskInv
    <2> QED
      BY <2>1, <2>2, <2>3 DEF Excused, SameJob
  <1>7. ~Fits(job) /\ ~Fits(k)
    BY RunningJob DEF Fits, Running, Terminal
  <1>8. legacy_snapshot(b) = legacy_snapshot(a)
    BY <1>1, <1>3, <1>7, SnapshotKept
  <1>9. LegacyKept(x)
    BY <1>4, <1>8 DEF DiskInv, LegacyKept, SameJob
  <1>10. Retained(x)
    BY <1>3, <1>4 DEF Retained
  <1> HIDE DEF b, a, job
  <1> QED
    BY <1>3, <1>5, <1>6, <1>9, <1>10, JournalChanged DEF b, a

\* A job that has succeeded: its source is retained, or it is gone.
LEMMA Succeeded ==
    ASSUME NEW d, NEW acks, NEW n \in Nat, DiskInv(d, acks, n), Running(d.journal),
           NEW k \in JobType, SameJob(d.journal.current, k), k.phase = "succeeded",
           ~k.cancel_requested, KeepsCancel(k, acks),
           d.pointer = k.target, d.journal.current.phase = "committing",
           IF k.source = Legacy THEN k.retain \/ d.store[Legacy] = "absent"
           ELSE IF k.retain
           THEN d.manifest[k.source] = [state |-> "retained", digest |-> k.digest,
                                        revision |-> d.revision]
           ELSE d.manifest[k.source] = NoManifest,
           NEW x, x = [d EXCEPT !.journal = [d.journal EXCEPT !.current = k]]
    PROVE  x \in DiskType /\ DiskInv(x, acks, n) /\ Follows(d, x)
  <1> DEFINE a == d.journal
             job == a.current
             b == [a EXCEPT !.current = k]
  <1>1. d \in DiskType /\ a \in JournalType /\ job \in JobType
    BY RunningJob, DiskFields DEF DiskInv
  <1>2. JournalInv(a, acks, n) /\ JobInv(d, job) /\ d.pending = {}
    BY DEF DiskInv
  <1>3. b \in JournalType /\ b.current = k /\ b.history = a.history /\ JournalInv(b, acks, n)
    BY <1>1, <1>2, JournalMoved DEF SameJob
  <1>4. /\ x.journal = b /\ x.pointer = d.pointer /\ x.manifest = d.manifest
        /\ x.store = d.store /\ x.docs = d.docs
    BY <1>1, <1>3, DiskFields
  <1>5. ~Running(b)
    BY <1>3 DEF Running, Terminal
  <1>6. k.retain => d.docs[k.source] = d.content /\ d.store[k.source] = "sealed"
    BY <1>2 DEF JobInv, SameJob
  <1>7. k.digest \in {Unknown, d.content}
    BY <1>2 DEF JobInv, SameJob
  <1>8. ASSUME NEW g \in Gens
        PROVE  Excused(g, x) \/ Kept(g, d)
    <2>1. CASE g = d.pointer
      BY <1>4, <2>1 DEF Excused
    <2>2. CASE g = k.source
      <3>1. g # Legacy
        BY SwitchConstants
      <3>2. CASE k.retain
        <4>1. d.manifest[g] = [state |-> "retained", digest |-> k.digest, revision |-> d.revision]
          BY <2>2, <3>1, <3>2
        <4> QED
          BY <1>2, <1>6, <1>7, <2>2, <3>2, <4>1 DEF Kept
      <3>3. CASE ~k.retain
        BY <2>2, <3>1, <3>3 DEF Kept, NoManifest, None
      <3> QED
        BY <3>2, <3>3
    <2>3. CASE g # d.pointer /\ g # k.source
      <3>1. ~Excused(g, d)
        BY <2>3 DEF Excused, SameJob
      <3> QED
        BY <3>1 DEF DiskInv
    <2> QED
      BY <2>1, <2>2, <2>3
  <1>9. ~Fits(job)
    BY RunningJob DEF Fits, Running, Terminal
  <1>10. LegacyKept(x)
    <2>1. CASE k.source = Legacy
      <3>1. legacy_snapshot(b) = k
        BY <1>3, <2>1, SnapshotNew DEF Fits
      <3> QED
        BY <1>4, <1>6, <1>7, <2>1, <3>1 DEF LegacyKept
    <2>2. CASE k.source # Legacy
      <3>1. legacy_snapshot(b) = legacy_snapshot(a)
        BY <1>1, <1>3, <1>9, <2>2, SnapshotKept DEF Fits
      <3> QED
        BY <1>4, <2>2, <3>1 DEF LegacyKept, DiskInv, SameJob
    <2> QED
      BY <2>1, <2>2
  <1>11. Retained(x)
    <2>1. ASSUME k.retain, k.source # Legacy
          PROVE  x.manifest[k.source].state = "retained" /\ x.store[k.source] = "sealed"
      BY <1>4, <1>6, <2>1
    <2> QED
      BY <1>3, <1>4, <2>1 DEF Retained
  <1> HIDE DEF b, a, job
  <1> QED
    BY <1>3, <1>5, <1>8, <1>10, <1>11, JournalChanged DEF b, a

\* A job that begins is filed on top of what has ended.
LEMMA JournalStarted ==
    ASSUME NEW a \in JournalType, NEW acks, NEW n \in Nat, JournalInv(a, acks, n),
           ~Running(a), NEW k \in JobType, k.id = n + 1,
           ~k.cancel_requested, k.phase \in {"queued", "verifying"}
    PROVE  LET b == replace_current(a, k)
           IN /\ b \in JournalType /\ b.current = k
              /\ legacy_snapshot(b) = legacy_snapshot(a)
              /\ JournalInv(b, acks, n + 1)
  <1> DEFINE b == replace_current(a, k)
  <1>1. b \in JournalType /\ legacy_snapshot(b) = legacy_snapshot(a)
    BY SnapshotFiled DEF Fits, JournalInv
  <1>2. b.current = k /\ k # NoJob
    BY Shapes DEF replace_current
  <1>3. acks \subseteq 0 .. n + 1 /\ n + 1 \notin acks
    BY DEF JournalInv
  <1>4. KeepsCancel(k, acks)
    BY <1>3 DEF KeepsCancel
  <1>5. ASSUME NEW i \in DOMAIN b.history
        PROVE  /\ b.history[i].phase \in Terminal /\ b.history[i].id < k.id
               /\ KeepsCancel(b.history[i], acks)
    <2>1. CASE a.current = NoJob
      BY <1>5, <2>1 DEF replace_current, JournalInv
    <2>2. CASE a.current # NoJob
      <3>1. a.current \in JobType /\ a.history \in Seq(JobType) /\ Len(a.history) \in Nat
        BY <2>2, RunningJob
      <3>2. b.history = Append(a.history, a.current)
        BY <2>2 DEF replace_current, Running
      <3>3. /\ a.current.phase \in Terminal /\ a.current.id < k.id
            /\ KeepsCancel(a.current, acks) /\ a.current.id \in Nat /\ a.current.id <= n
        BY <2>2, <3>1 DEF JournalInv, JobType, Running
      <3>4. CASE i = Len(a.history) + 1
        BY <3>1, <3>2, <3>3, <3>4
      <3>5. CASE i # Len(a.history) + 1
        <4>1. i \in DOMAIN a.history /\ b.history[i] = a.history[i] /\ a.history[i] \in JobType
          BY <1>5, <3>1, <3>2, <3>5
        <4>2. a.history[i].id < a.current.id /\ a.history[i].id \in Nat
          BY <2>2, <4>1 DEF JournalInv, JobType
        <4> QED
          BY <2>2, <3>3, <4>1, <4>2 DEF JournalInv
      <3> QED
        BY <3>4, <3>5
    <2> QED
      BY <2>1, <2>2
  <1> QED
    BY <1>1, <1>2, <1>3, <1>4, <1>5 DEF JournalInv

LEMMA Started ==
    ASSUME NEW d, NEW acks, NEW n \in Nat, DiskInv(d, acks, n), ~Running(d.journal),
           NEW k \in JobType, k.id = n + 1,
           ~k.cancel_requested, k.phase \in {"queued", "verifying"},
           d.pending = {}, JobInv(d, k),
           NEW x, x = [d EXCEPT !.journal = replace_current(d.journal, k)]
    PROVE  x \in DiskType /\ DiskInv(x, acks, n + 1) /\ Follows(d, x)
  <1> DEFINE a == d.journal
             b == replace_current(a, k)
  <1>1. d \in DiskType /\ a \in JournalType /\ JournalInv(a, acks, n)
    BY DiskFields DEF DiskInv
  <1>2. /\ b \in JournalType /\ b.current = k /\ JournalInv(b, acks, n + 1)
        /\ legacy_snapshot(b) = legacy_snapshot(a)
    BY <1>1, JournalStarted
  <1>3. x.journal = b /\ x.pointer = d.pointer /\ x.store = d.store /\ x.docs = d.docs
    BY <1>1, <1>2, DiskFields
  <1>4. \A g \in Gens : Excused(g, x) \/ Kept(g, d)
    BY <1>3 DEF DiskInv, Excused
  <1>5. LegacyKept(x)
    <2>1. LegacyKept(d)
      BY DEF DiskInv
    <2> QED
      BY <1>2, <1>3, <2>1 DEF LegacyKept
  <1>6. Retained(x)
    BY <1>2, <1>3 DEF Retained
  <1> HIDE DEF b, a
  <1> QED
    BY <1>2, <1>4, <1>5, <1>6, JournalChanged DEF b, a

\* The job writes to the collection or the manifest of its target, while the
\* pointer is at its source.
SameBut(d, x) ==
    /\ x.pointer = d.pointer /\ x.journal = d.journal /\ x.content = d.content
    /\ x.revision = d.revision /\ x.pending = d.pending

TargetOnly(d, job, x) ==
    /\ \A g \in All : g # job.target => x.store[g] = d.store[g] /\ x.docs[g] = d.docs[g]
    /\ \A g \in Gens : g # job.target => x.manifest[g] = d.manifest[g]
    /\ x.store[job.target] # "absent"
    /\ \A i \in Ids : x.docs[job.target][i] \in {0, d.content[i]}
    /\ job.preexisting =>
         /\ x.docs[job.target] = d.docs[job.target]
         /\ x.store[job.target] = d.store[job.target]
         /\ job.target \in Gens =>
              /\ x.manifest[job.target].state \in {"retained", "complete"}
              /\ Kept(job.target, x)
    /\ job.phase \in {"reindexing", "verifying", "committing"} =>
         /\ x.store[job.target] = "sealed"
         /\ job.target \in Gens => x.manifest[job.target] # NoManifest
    /\ job.phase = "committing" => x.docs[job.target] = d.content

LEMMA TargetWritten ==
    ASSUME NEW d, NEW acks, NEW n \in Nat, DiskInv(d, acks, n), Running(d.journal),
           d.pointer = d.journal.current.source,
           NEW x \in DiskType, SameBut(d, x), TargetOnly(d, d.journal.current, x)
    PROVE  DiskInv(x, acks, n) /\ Follows(d, x)
  <1> DEFINE job == d.journal.current
  <1> USE DEF SameBut, TargetOnly
  <1> HIDE DEF job
  <1>0. /\ job = d.journal.current /\ d.pointer = job.source
        /\ TargetOnly(d, job, x)
    BY DEF job
  <1>1. JobInv(d, job) /\ d \in DiskType /\ job \in JobType
    BY <1>0, RunningJob, DiskFields DEF DiskInv
  <1>2. job.source # job.target /\ x.docs[x.pointer] = d.docs[d.pointer]
        /\ x.store[x.pointer] = d.store[d.pointer]
    BY <1>0, <1>1, DiskFields DEF JobInv
  <1>3. JobInv(x, job)
    BY <1>0, <1>1, <1>2 DEF JobInv
  <1>4. ASSUME NEW g \in Gens
        PROVE  Excused(g, x) \/ Kept(g, x)
    <2>1. CASE g = job.target
      BY <1>0, <2>1 DEF Excused
    <2>2. CASE g # job.target
      <3>1. Excused(g, d) \/ Kept(g, d)
        BY <1>0 DEF DiskInv
      <3>2. Excused(g, d) => Excused(g, x)
        BY <1>0 DEF Excused
      <3>3. Kept(g, d) => Kept(g, x)
        BY <1>0, <2>2 DEF Kept, All
      <3> QED
        BY <3>1, <3>2, <3>3
    <2> QED
      BY <2>1, <2>2
  <1>5. LegacyKept(x)
    <2>1. LegacyKept(d)
      BY <1>0 DEF DiskInv
    <2>2. x.store[Legacy] = d.store[Legacy] /\ x.docs[Legacy] = d.docs[Legacy]
      BY <1>0, <1>1 DEF JobInv, All
    <2> QED
      BY <1>0, <2>1, <2>2 DEF LegacyKept
  <1>6. Retained(x)
    BY <1>0 DEF Retained, Running, Terminal
  <1>7. \A g \in All : x.store[g] = "absent" => x.docs[g] = Empty
    BY <1>0 DEF DiskInv
  <1>8. \A g \in Gens : x.store[g] = "absent" => x.manifest[g] = NoManifest
    BY <1>0 DEF DiskInv, All
  <1>9. /\ JournalInv(x.journal, acks, n) /\ x.store[x.pointer] = "sealed"
        /\ \A i \in Ids : (\A p \in x.pending : p[1] # i) => x.docs[x.pointer][i] = x.content[i]
        /\ x.pending # {} => ~Running(x.journal)
    BY <1>0, <1>2 DEF DiskInv
  <1> QED
    BY <1>0, <1>2, <1>3, <1>4, <1>5, <1>6, <1>7, <1>8, <1>9 DEF DiskInv, Follows

\* The pointer is installed: users see the same memories.
LEMMA PointerInstalled ==
    ASSUME NEW d, NEW acks, NEW n \in Nat, DiskInv(d, acks, n), Running(d.journal),
           NEW job, job = d.journal.current, job.phase = "committing", d.pending = {},
           NEW x, x = [d EXCEPT !.pointer = job.target]
    PROVE  x \in DiskType /\ DiskInv(x, acks, n) /\ Follows(d, x)
  <1>1. JobInv(d, job) /\ d \in DiskType /\ job \in JobType
    BY RunningJob, DiskFields DEF DiskInv
  <1>2. /\ x \in DiskType /\ x.pointer = job.target /\ x.journal = d.journal
        /\ x.manifest = d.manifest /\ x.store = d.store /\ x.docs = d.docs
        /\ x.content = d.content /\ x.revision = d.revision /\ x.pending = d.pending
    BY <1>1 DEF DiskType, JobType
  <1>3. CASE d.pointer = job.target
    <2>1. x = d
      BY <1>1, <1>3 DEF DiskType
    <2> QED
      BY <1>2, <2>1 DEF Follows
  <1>4. CASE d.pointer # job.target
    <2>1. d.pointer = job.source
      BY <1>1, <1>4 DEF JobInv
    <2>2. d.docs[d.pointer] = d.content
      <3>1. d.docs[d.pointer] \in Content /\ d.content \in Content
        BY <1>1, DiskFields
      <3>2. \A i \in Ids : d.docs[d.pointer][i] = d.content[i]
        BY DEF DiskInv
      <3> QED
        BY <3>1, <3>2 DEF Content
    <2>3. d.docs[job.target] = d.content /\ d.store[job.target] = "sealed"
      BY <1>1 DEF JobInv
    <2>4. JobInv(x, job)
      BY <1>1, <1>2, <2>1, <2>2 DEF JobInv, DiskInv
    <2>5. \A g \in Gens : Excused(g, d) => Excused(g, x)
      BY <1>2, <2>1 DEF Excused
    <2>6. \A g \in Gens : Kept(g, d) => Kept(g, x)
      BY <1>2 DEF Kept
    <2>7. LegacyKept(x)
      <3>1. LegacyKept(d)
        BY DEF DiskInv
      <3> QED
        BY <1>2, <2>1, <3>1 DEF LegacyKept
    <2>8. Retained(x)
      BY <1>2 DEF Retained
    <2>9. /\ JournalInv(x.journal, acks, n) /\ x.store[x.pointer] = "sealed"
          /\ \A i \in Ids : x.docs[x.pointer][i] = x.content[i]
          /\ x.pending = {}
          /\ \A g \in All : x.store[g] = "absent" => x.docs[g] = Empty
          /\ \A g \in Gens : x.store[g] = "absent" => x.manifest[g] = NoManifest
          /\ \A g \in Gens : Excused(g, d) \/ Kept(g, d)
      BY <1>2, <2>3 DEF DiskInv
    <2> QED
      BY <1>2, <1>4, <2>2, <2>3, <2>4, <2>5, <2>6, <2>7, <2>8, <2>9 DEF DiskInv, Follows
  <1> QED
    BY <1>3, <1>4

\* After the cut-over the job writes to the manifests, and to its source when
\* it is not to be retained.
SourceOnly(d, job, x) ==
    /\ \A g \in All : g # job.source => x.store[g] = d.store[g] /\ x.docs[g] = d.docs[g]
    /\ \A g \in Gens : g \notin {job.source, job.target} => x.manifest[g] = d.manifest[g]
    /\ job.target \in Gens => x.manifest[job.target] # NoManifest
    /\ x.store[job.source] = "absent" =>
         /\ x.docs[job.source] = Empty
         /\ job.source \in Gens => x.manifest[job.source] = NoManifest
    /\ job.retain => /\ x.docs[job.source] = d.docs[job.source]
                     /\ x.store[job.source] = d.store[job.source]

LEMMA SourceWritten ==
    ASSUME NEW d, NEW acks, NEW n \in Nat, DiskInv(d, acks, n), Running(d.journal),
           d.pointer = d.journal.current.target,
           NEW x \in DiskType, SameBut(d, x), SourceOnly(d, d.journal.current, x)
    PROVE  DiskInv(x, acks, n) /\ Follows(d, x)
  <1> DEFINE job == d.journal.current
  <1> USE DEF SameBut, SourceOnly
  <1> HIDE DEF job
  <1>0. job = d.journal.current /\ d.pointer = job.target /\ SourceOnly(d, job, x)
    BY DEF job
  <1>1. JobInv(d, job) /\ d \in DiskType /\ job \in JobType
    BY <1>0, RunningJob, DiskFields DEF DiskInv
  <1>2. /\ job.source # job.target /\ x.docs[x.pointer] = d.docs[d.pointer]
        /\ x.store[x.pointer] = d.store[d.pointer] /\ job.phase = "committing"
    BY <1>0, <1>1, DiskFields DEF JobInv
  <1>3. JobInv(x, job)
    <2>1. job.target \in All /\ x.pointer # job.source
      BY <1>0, <1>1, <1>2 DEF JobType
    <2>2. x.docs[job.target] = d.docs[job.target] /\ x.store[job.target] = d.store[job.target]
      BY <1>0, <1>2, <2>1
    <2>3. x.pointer = job.target /\ x.content = d.content
      BY <1>0
    <2> QED
      BY <1>0, <1>1, <1>2, <2>1, <2>2, <2>3 DEF JobInv
  <1>4. ASSUME NEW g \in Gens
        PROVE  Excused(g, x) \/ Kept(g, x)
    <2>1. CASE g \in {job.source, job.target}
      BY <1>0, <2>1 DEF Excused
    <2>2. CASE g \notin {job.source, job.target}
      <3>1. Excused(g, d) \/ Kept(g, d)
        BY <1>0 DEF DiskInv
      <3>2. Excused(g, d) => Excused(g, x)
        BY <1>0 DEF Excused
      <3>3. Kept(g, d) => Kept(g, x)
        BY <1>0, <2>2 DEF Kept, All
      <3> QED
        BY <1>0, <3>1, <3>2, <3>3
    <2> QED
      BY <1>0, <2>1, <2>2
  <1>5. LegacyKept(x)
    <2>1. LegacyKept(d)
      BY <1>0 DEF DiskInv
    <2>2. Legacy # job.source =>
            x.store[Legacy] = d.store[Legacy] /\ x.docs[Legacy] = d.docs[Legacy]
      BY <1>0 DEF All
    <2> QED
      BY <1>0, <2>1, <2>2 DEF LegacyKept
  <1>6. Retained(x)
    BY <1>0, <1>2 DEF Retained
  <1>7. \A g \in All : x.store[g] = "absent" => x.docs[g] = Empty
    BY <1>0 DEF DiskInv
  <1>8. ASSUME NEW g \in Gens, x.store[g] = "absent"
        PROVE  x.manifest[g] = NoManifest
    <2>1. g # job.target
      BY <1>0, <1>2, <1>8 DEF DiskInv
    <2>2. CASE g = job.source
      BY <1>0, <1>8, <2>2
    <2>3. CASE g # job.source
      BY <1>0, <1>8, <2>1, <2>3 DEF DiskInv, All
    <2> QED
      BY <1>0, <2>2, <2>3
  <1>9. /\ JournalInv(x.journal, acks, n) /\ x.store[x.pointer] = "sealed"
        /\ \A i \in Ids : (\A p \in x.pending : p[1] # i) => x.docs[x.pointer][i] = x.content[i]
        /\ x.pending # {} => ~Running(x.journal)
    BY <1>0, <1>2 DEF DiskInv
  <1> QED
    BY <1>0, <1>2, <1>3, <1>4, <1>5, <1>6, <1>7, <1>8, <1>9 DEF DiskInv, Follows
-----------------------------------------------------------------------------
(***************************************************************************)
(* Steps.                                                                  *)
(***************************************************************************)
Calm ==
    /\ faults = 0 /\ started \in Nat
    /\ DiskInv(disk, acked, started)
    /\ Open => EngineInv(disk, engine)
    /\ FailingInv

Safe ==
    /\ disk' \in Good(disk, acked', started')
    /\ engine' # Closed => EngineInv(disk', engine')
    /\ FailingInv'

\* What is known when a handler of an open engine begins.
LEMMA HandlerBegins ==
    ASSUME Calm, Open
    PROVE  /\ disk \in DiskType /\ disk.journal \in JournalType
           /\ engine \in EngineType /\ engine.journal = disk.journal
           /\ engine.active = disk.pointer /\ engine.serving = disk.pointer
           /\ engine.embedder \in {None, ProfileOf[disk.pointer]}
           /\ disk.pending = {}
           /\ Job = disk.journal.current
           /\ Frozen <=> Running(disk.journal)
           /\ Job.phase \notin Terminal => Running(disk.journal) /\ Job \in JobType
  <1>1. EngineInv(disk, engine) /\ disk \in DiskType /\ disk.journal \in JournalType
    BY DiskFields DEF Calm, DiskInv
  <1> QED
    BY <1>1, RunningJob DEF EngineInv, Job, Frozen, Running

\* A job in another phase.
LEMMA Phased ==
    ASSUME NEW job \in JobType, NEW ph \in Phases
    PROVE  LET k == [job EXCEPT !.phase = ph]
           IN /\ k \in JobType /\ SameJob(job, k) /\ k.phase = ph
              /\ k.cancel_requested = job.cancel_requested
  BY DEF JobType, SameJob

\* The engines that the handlers come to.
LEMMA EngineForms ==
    ASSUME NEW e \in EngineType, NEW k \in JobType,
           NEW f \in {WithJob(e, k), Loaded(WithJob(e, k)), Dropped(WithJob(e, k))}
    PROVE  /\ f \in EngineType /\ f.journal = [e.journal EXCEPT !.current = k]
           /\ f.active = e.active /\ f.serving = e.serving
           /\ f.embedder \in {None, e.embedder}
  <1>1. /\ e.active \in All /\ e.serving \in All /\ e.embedder \in Profiles \cup {None}
        /\ e.target \in BOOLEAN /\ e.journal \in JournalType
        /\ e = [active |-> e.active, serving |-> e.serving, embedder |-> e.embedder,
                target |-> e.target, journal |-> e.journal]
    BY DEF EngineType
  <1>2. [e.journal EXCEPT !.current = k] \in JournalType
    BY <1>1 DEF JournalType
  <1>3. WithJob(e, k) = [active |-> e.active, serving |-> e.serving, embedder |-> e.embedder,
                         target |-> e.target, journal |-> [e.journal EXCEPT !.current = k]]
    BY <1>1 DEF WithJob
  <1>4. WithJob(e, k) \in EngineType
    BY <1>1, <1>2, <1>3 DEF EngineType
  <1> DEFINE w == WithJob(e, k)
  <1> HIDE DEF w
  <1>5. /\ w \in EngineType /\ w.journal = [e.journal EXCEPT !.current = k]
        /\ w.active = e.active /\ w.serving = e.serving /\ w.embedder = e.embedder
    BY <1>3, <1>4 DEF w
  <1>6. /\ w.active \in All /\ w.serving \in All /\ w.embedder \in Profiles \cup {None}
        /\ w.journal \in JournalType
        /\ w = [active |-> w.active, serving |-> w.serving, embedder |-> w.embedder,
                target |-> w.target, journal |-> w.journal]
    BY <1>5 DEF EngineType
  <1>7. Dropped(w) = [active |-> w.active, serving |-> w.serving, embedder |-> w.embedder,
                      target |-> FALSE, journal |-> w.journal]
    <2>1. Dropped(w) = [w EXCEPT !.target = FALSE]
      BY DEF Dropped
    <2> QED
      BY <1>6, <2>1
  <1>8. PICK b \in {None, w.embedder} :
            Loaded(w) = [active |-> w.active, serving |-> w.serving, embedder |-> b,
                         target |-> TRUE, journal |-> w.journal]
    <2>1. CASE Job.downtime
      <3>1. Loaded(w) = [w EXCEPT !.target = TRUE, !.embedder = None]
        BY <2>1 DEF Loaded
      <3> QED
        BY <1>6, <3>1
    <2>2. CASE ~Job.downtime
      <3>1. Loaded(w) = [w EXCEPT !.target = TRUE, !.embedder = w.embedder]
        BY <2>2 DEF Loaded
      <3> QED
        BY <1>6, <3>1
    <2> QED
      BY <2>1, <2>2
  <1>9. Loaded(w) \in EngineType /\ Dropped(w) \in EngineType
    BY <1>6, <1>7, <1>8 DEF EngineType
  <1>10. /\ Dropped(w).journal = w.journal /\ Dropped(w).active = w.active
         /\ Dropped(w).serving = w.serving /\ Dropped(w).embedder = w.embedder
    BY <1>7
  <1>11. /\ Loaded(w).journal = w.journal /\ Loaded(w).active = w.active
         /\ Loaded(w).serving = w.serving /\ Loaded(w).embedder \in {None, w.embedder}
    BY <1>8
  <1>12. f \in {w, Loaded(w), Dropped(w)}
    BY DEF w
  <1> QED
    BY <1>5, <1>9, <1>10, <1>11, <1>12

\* A handler whose stages are sound completes or dies soundly.
LEMMA Handled ==
    ASSUME Calm, faults' = 0, UNCHANGED <<acked, started>>,
           NEW disks \in Seq(Good(disk, acked, started)), disks # <<>>, NEW e, NEW e1,
           Saved(Last(disks), e1) \in Good(disk, acked, started),
           EngineInv(Saved(Last(disks), e1), e1),
           Runs(Stages(disks, e, e1))
    PROVE  Safe
  <1>1. ~Fails(Stages(disks, e, e1), TRUE)
    BY FailsCost DEF Calm
  <1>2. \/ disk' = Saved(Last(disks), e1) /\ engine' = e1 /\ failing' = FALSE
        \/ disk' \in Good(disk, acked, started) /\ engine' = Closed /\ failing' = FALSE
    <2> DEFINE S == Good(disk, acked, started)
    <2> HIDE DEF S
    <2>1. disks \in Seq(S)
      BY DEF S
    <2>2. Completes(Stages(disks, e, e1)) \/ Crashes(Stages(disks, e, e1))
      BY <1>1 DEF Runs
    <2> QED
      BY <2>1, <2>2, StagesEnd DEF S
  <1> QED
    BY <1>2 DEF Safe, FailingInv

\* A step that returns an error before it writes.
LEMMA Erred ==
    ASSUME Calm, Open, Errs, UNCHANGED <<acked, started>>,
           Running(disk.journal), ~disk.journal.current.cancel_requested
    PROVE  Safe
  BY SameGood DEF Calm, Safe, Errs, FailingInv, Open

\* More of the same handler.
LEMMA GoodOn ==
    ASSUME NEW d, NEW acks, NEW n, NEW y \in Good(d, acks, n), Running(d.journal),
           y.journal = d.journal, NEW acks2, NEW n2,
           NEW x \in DiskType, DiskInv(x, acks2, n2), Follows(y, x)
    PROVE  x \in Good(d, acks2, n2)
  BY DEF Good, Follows

\* The job moves on to another phase, or ends without a commit, in the files y.
LEMMA MovesOn ==
    ASSUME Calm, Open, Running(disk.journal),
           NEW y \in Good(disk, acked, started), y.journal = disk.journal,
           y.pointer = disk.pointer, y.pending = {},
           NEW k \in JobType, SameJob(Job, k), KeepsCancel(k, acked),
           k.cancel_requested <=> k.phase \in {"cancel_requested", "cancelled"},
           \/ k.phase \notin Terminal /\ JobInv(y, k)
           \/ /\ k.phase \in {"cancelled", "failed"} /\ disk.pointer = k.source
              /\ k.preexisting \/ y.manifest[k.target].state \notin {"retained", "complete"},
           NEW e1 \in EngineType, e1.journal = [disk.journal EXCEPT !.current = k],
           e1.active = disk.pointer, e1.serving = disk.pointer,
           e1.embedder \in {None, ProfileOf[disk.pointer]}
    PROVE  /\ Saved(y, e1) \in Good(disk, acked, started)
           /\ EngineInv(Saved(y, e1), e1)
  <1> DEFINE x == Saved(y, e1)
  <1>1. /\ y \in DiskType /\ DiskInv(y, acked, started) /\ started \in Nat
        /\ Job = y.journal.current /\ Running(y.journal)
        /\ x = [y EXCEPT !.journal = [y.journal EXCEPT !.current = k]]
    BY HandlerBegins DEF Good, Saved, Calm
  <1>2. x \in DiskType /\ DiskInv(x, acked, started) /\ Follows(y, x)
    <2>1. CASE k.phase \notin Terminal
      <3>1. JobInv(y, k)
        BY <2>1 DEF Terminal
      <3> HIDE DEF x
      <3> QED
        BY <1>1, <2>1, <3>1, Moved
    <2>2. CASE k.phase \in Terminal
      <3> HIDE DEF x
      <3> QED
        BY <1>1, <2>2, Ended
    <2> QED
      BY <2>1, <2>2
  <1>3. x \in Good(disk, acked, started)
    <2> HIDE DEF x
    <2> QED
      BY <1>2, GoodOn
  <1>4. [disk.journal EXCEPT !.current = k] \in JournalType
    BY DEF EngineType
  <1>5. x.journal = e1.journal /\ x.pointer = disk.pointer /\ x.pending = {}
    BY <1>1, <1>4, DiskFields
  <1> QED
    BY <1>3, <1>5 DEF EngineInv

\* What is asked of the running job when it moves on.
LEMMA JobOn ==
    ASSUME NEW d, NEW job, JobInv(d, job), NEW k, SameJob(job, k), d.pointer = job.source,
           job.preexisting => k.phase \in {"verifying", "committing", "cancel_requested"},
           k.phase \in {"reindexing", "verifying", "committing"} =>
              /\ d.store[job.target] = "sealed"
              /\ job.target \in Gens => d.manifest[job.target] # NoManifest,
           k.phase = "committing" => d.docs[job.target] = d.content
    PROVE  JobInv(d, k)
  BY DEF JobInv, SameJob

\* What is known when a step of the job begins.
LEMMA JobBegins ==
    ASSUME Calm, Open, Job.phase \notin Terminal
    PROVE  /\ Job \in JobType /\ JobInv(disk, Job) /\ Running(disk.journal)
           /\ Job = disk.journal.current
           /\ Job.target \in All /\ Job.source \in All /\ Job.id \in Nat /\ Job.cursor \in Nat
           /\ Job.cancel_requested \in BOOLEAN
           /\ Job.cancel_requested <=> Job.phase \in {"cancel_requested", "cancelled"}
           /\ KeepsCancel(Job, acked)
           /\ Job.phase # "committing" => disk.pointer = Job.source
           /\ disk \in Good(disk, acked, started)
           /\ disk \in DiskType /\ disk.pending = {}
           /\ engine.active = disk.pointer /\ engine.serving = disk.pointer
           /\ engine.embedder \in {None, ProfileOf[disk.pointer]}
  <1>1. /\ Running(disk.journal) /\ Job \in JobType /\ Job = disk.journal.current
        /\ disk \in DiskType /\ disk.pending = {}
        /\ engine.active = disk.pointer /\ engine.serving = disk.pointer
        /\ engine.embedder \in {None, ProfileOf[disk.pointer]}
    BY HandlerBegins
  <1>2. JobInv(disk, Job) /\ JournalInv(disk.journal, acked, started) /\ Job # NoJob
    BY <1>1, Shapes DEF Calm, DiskInv
  <1>3. disk.pointer = Job.source \/ Job.phase = "committing"
    BY <1>2 DEF JobInv
  <1>4. /\ Job.target \in All /\ Job.source \in All /\ Job.id \in Nat /\ Job.cursor \in Nat
        /\ Job.cancel_requested \in BOOLEAN
    BY <1>1 DEF JobType
  <1>5. /\ Job.cancel_requested <=> Job.phase \in {"cancel_requested", "cancelled"}
        /\ KeepsCancel(Job, acked)
    BY <1>1, <1>2 DEF JournalInv
  <1>6. disk \in Good(disk, acked, started)
    BY SameGood DEF Calm
  <1> QED
    BY <1>1, <1>2, <1>3, <1>4, <1>5, <1>6

\* The engine with another job, the model of the target loaded or dropped.
Forms(k) == {WithJob(engine, k), Loaded(WithJob(engine, k)), Dropped(WithJob(engine, k))}

\* A step that leads the job from the files y to its next phase.
LEMMA Turned ==
    ASSUME Calm, faults' = 0, UNCHANGED <<acked, started>>, Open,
           Job.phase \notin Terminal, ~Job.cancel_requested,
           NEW disks \in Seq(Good(disk, acked, started)), disks # <<>>,
           NEW y, y = Last(disks), y.journal = disk.journal, y.pointer = disk.pointer,
           y.pending = {},
           NEW k \in JobType, SameJob(Job, k), ~k.cancel_requested,
           k.phase \notin Terminal \cup {"cancel_requested"}, JobInv(y, k),
           NEW f \in Forms(k), NEW e, Runs(Stages(disks, e, f))
    PROVE  Safe
  <1>1. KeepsCancel(k, acked)
    BY JobBegins DEF KeepsCancel, SameJob
  <1>2. y \in Good(disk, acked, started)
    <2> DEFINE S == Good(disk, acked, started)
    <2> HIDE DEF S
    <2>1. disks \in Seq(S) /\ Len(disks) \in Nat \ {0}
      BY EmptySeq DEF S
    <2>2. Last(disks) \in S
      BY <2>1 DEF Last
    <2> QED
      BY <2>2 DEF S
  <1>3. engine \in EngineType /\ engine.journal = disk.journal
    BY HandlerBegins
  <1>4. /\ f \in EngineType /\ f.journal = [disk.journal EXCEPT !.current = k]
        /\ f.active = engine.active /\ f.serving = engine.serving
        /\ f.embedder \in {None, engine.embedder}
    BY <1>3, EngineForms DEF Forms
  <1>5. Saved(y, f) \in Good(disk, acked, started) /\ EngineInv(Saved(y, f), f)
    <2>1. k.cancel_requested <=> k.phase \in {"cancel_requested", "cancelled"}
      BY DEF Terminal
    <2>2. k.phase \notin Terminal
      OBVIOUS
    <2>3. /\ f.active = disk.pointer /\ f.serving = disk.pointer
          /\ f.embedder \in {None, ProfileOf[disk.pointer]}
      BY <1>4, JobBegins
    <2> QED
      BY <1>1, <1>2, <1>4, <2>1, <2>2, <2>3, JobBegins, MovesOn
  <1> QED
    BY <1>5, Handled

\* The files as they are are a sequence of files that are in order.
LEMMA OneGood ==
    ASSUME NEW S, NEW x \in S
    PROVE  <<x>> \in Seq(S) /\ <<x>> # <<>> /\ Last(<<x>>) = x
  BY DEF Last

LEMMA TwoGood ==
    ASSUME NEW S, NEW x \in S, NEW y \in S
    PROVE  <<x, y>> \in Seq(S) /\ <<x, y>> # <<>> /\ Last(<<x, y>>) = y
  BY DEF Last

\* The next phase, with no files written before.
LEMMA TurnedAtOnce ==
    ASSUME Calm, faults' = 0, UNCHANGED <<acked, started>>, Open,
           Job.phase \notin Terminal \cup {"committing"}, ~Job.cancel_requested,
           NEW ph \in Phases \ (Terminal \cup {"cancel_requested"}),
           JobInv(disk, [Job EXCEPT !.phase = ph]),
           NEW f \in Forms([Job EXCEPT !.phase = ph]), NEW e, Runs(Stages(<<disk>>, e, f))
    PROVE  Safe
  <1> DEFINE k == [Job EXCEPT !.phase = ph]
  <1>1. k \in JobType /\ SameJob(Job, k) /\ k.phase = ph /\ ~k.cancel_requested
    BY Phased, JobBegins
  <1>2. /\ <<disk>> \in Seq(Good(disk, acked, started)) /\ <<disk>> # <<>>
        /\ Last(<<disk>>) = disk
    BY OneGood, JobBegins
  <1>3. disk.pending = {}
    BY JobBegins
  <1> HIDE DEF k
  <1> QED
    BY <1>1, <1>2, <1>3, Turned DEF k

LEMMA QueuedSafe ==
    ASSUME Calm, faults' = 0, StepQueued
    PROVE  Safe
  <1> DEFINE k == [Job EXCEPT !.phase = "validating"]
  <1>1. /\ Open /\ Job.phase = "queued" /\ ~Job.cancel_requested
        /\ UNCHANGED <<acked, started>> /\ Runs(Stages(<<disk>>, engine, WithJob(engine, k)))
    BY DEF StepQueued, InPhase, transition_switch, To
  <1>2. Job.phase \notin Terminal
    BY <1>1 DEF Terminal
  <1>3. SameJob(Job, k) /\ k.phase = "validating"
    BY <1>1, <1>2, Phased, JobBegins DEF Phases
  <1>4. JobInv(disk, Job) /\ ~Job.preexisting /\ disk.pointer = Job.source
    BY <1>1, <1>2, JobBegins DEF JobInv
  <1>5. JobInv(disk, k)
    <2> HIDE DEF k
    <2> QED
      BY <1>3, <1>4, JobOn
  <1>6. "validating" \in Phases \ (Terminal \cup {"cancel_requested"})
    BY DEF Phases, Terminal
  <1>7. WithJob(engine, k) \in Forms(k)
    BY DEF Forms
  <1> QED
    BY <1>1, <1>2, <1>5, <1>6, <1>7, TurnedAtOnce

LEMMA ValidatingSafe ==
    ASSUME Calm, faults' = 0, StepValidating
    PROVE  Safe
  <1> DEFINE k == [Job EXCEPT !.phase = "downloading"]
  <1>1. /\ Open /\ Job.phase = "validating" /\ ~Job.cancel_requested
        /\ UNCHANGED <<acked, started>>
        /\ Errs \/ Runs(Stages(<<disk>>, engine, WithJob(engine, k)))
    BY DEF StepValidating, InPhase, transition_switch, To
  <1>2. Job.phase \notin Terminal
    BY <1>1 DEF Terminal
  <1>3. SameJob(Job, k) /\ k.phase = "downloading"
    BY <1>1, <1>2, Phased, JobBegins DEF Phases
  <1>4. JobInv(disk, Job) /\ ~Job.preexisting /\ disk.pointer = Job.source
    BY <1>1, <1>2, JobBegins DEF JobInv
  <1>5. JobInv(disk, k)
    <2> HIDE DEF k
    <2> QED
      BY <1>3, <1>4, JobOn
  <1>6. "downloading" \in Phases \ (Terminal \cup {"cancel_requested"})
    BY DEF Phases, Terminal
  <1>7. WithJob(engine, k) \in Forms(k)
    BY DEF Forms
  <1>8. CASE Errs
    BY <1>1, <1>2, <1>8, JobBegins, Erred
  <1>9. CASE Runs(Stages(<<disk>>, engine, WithJob(engine, k)))
    BY <1>1, <1>2, <1>5, <1>6, <1>7, <1>9, TurnedAtOnce
  <1> QED
    BY <1>1, <1>8, <1>9

\* The engine may have let go of its own model before the download failed.
LEMMA DownloadingSafe ==
    ASSUME Calm, faults' = 0, StepDownloading
    PROVE  Safe
  <1> DEFINE k == [Job EXCEPT !.phase = "preparing"]
  <1>1. /\ Open /\ Job.phase = "downloading" /\ ~Job.cancel_requested
        /\ UNCHANGED <<acked, started>>
    BY DEF StepDownloading, InPhase
  <1>2. Job.phase \notin Terminal
    BY <1>1 DEF Terminal
  <1>3. SameJob(Job, k) /\ k.phase = "preparing"
    BY <1>1, <1>2, Phased, JobBegins DEF Phases
  <1>4. JobInv(disk, Job) /\ ~Job.preexisting /\ disk.pointer = Job.source
    BY <1>1, <1>2, JobBegins DEF JobInv
  <1>5. JobInv(disk, k)
    <2> HIDE DEF k
    <2> QED
      BY <1>3, <1>4, JobOn
  <1>6. "preparing" \in Phases \ (Terminal \cup {"cancel_requested"})
    BY DEF Phases, Terminal
  <1>7. Loaded(WithJob(engine, k)) \in Forms(k)
    BY DEF Forms
  <1>8. CASE Runs(Stages(<<disk>>, Loaded(engine), Loaded(To("preparing"))))
    BY <1>1, <1>2, <1>5, <1>6, <1>7, <1>8, TurnedAtOnce DEF To
  <1>9. CASE /\ engine' \in {engine, Dropped(Loaded(engine))}
             /\ UNCHANGED <<disk, faults, crashes>>
    <2>1. engine \in EngineType /\ EngineInv(disk, engine)
      BY <1>1, HandlerBegins DEF Calm
    <2>2. /\ engine' \in EngineType /\ engine'.journal = engine.journal
          /\ engine'.active = engine.active /\ engine'.serving = engine.serving
          /\ engine'.embedder \in {None, engine.embedder}
      <3>1. CASE engine' = engine
        BY <2>1, <3>1
      <3>2. CASE engine' = Dropped(Loaded(engine))
        <4>1. PICK b \in {None, engine.embedder} :
                 engine' = [engine EXCEPT !.target = FALSE, !.embedder = b]
          <5>1. /\ engine.embedder \in Profiles \cup {None} /\ engine.active \in All
                /\ engine.serving \in All /\ engine.journal \in JournalType
                /\ engine = [active |-> engine.active, serving |-> engine.serving,
                             embedder |-> engine.embedder, target |-> engine.target,
                             journal |-> engine.journal]
            BY <2>1 DEF EngineType
          <5>2. CASE Job.downtime
            <6>1. engine' = [[engine EXCEPT !.target = TRUE, !.embedder = None]
                                EXCEPT !.target = FALSE]
              BY <3>2, <5>2 DEF Dropped, Loaded
            <6>2. engine' = [engine EXCEPT !.target = FALSE, !.embedder = None]
              BY <5>1, <6>1
            <6> QED
              BY <6>2
          <5>3. CASE ~Job.downtime
            <6>1. engine' = [[engine EXCEPT !.target = TRUE, !.embedder = engine.embedder]
                                EXCEPT !.target = FALSE]
              BY <3>2, <5>3 DEF Dropped, Loaded
            <6>2. engine' = [engine EXCEPT !.target = FALSE, !.embedder = engine.embedder]
              BY <5>1, <6>1
            <6> QED
              BY <6>2
          <5> QED
            BY <5>2, <5>3
        <4> QED
          BY <2>1, <4>1 DEF EngineType
      <3> QED
        BY <1>9, <3>1, <3>2
    <2>3. EngineInv(disk', engine')
      BY <1>9, <2>1, <2>2 DEF EngineInv
    <2>4. engine' # Closed
      BY <2>2, Shapes
    <2>5. Running(disk.journal) /\ Job = disk.journal.current /\ disk \in Good(disk, acked, started)
      BY <1>1, <1>2, JobBegins
    <2>6. FailingInv'
      BY <1>1, <1>9, <2>4, <2>5 DEF FailingInv, Open
    <2> QED
      BY <1>1, <1>9, <2>3, <2>5, <2>6 DEF Safe
  <1> QED
    BY <1>8, <1>9 DEF StepDownloading

\* One field of one generation is written.
StoreStates == {"absent", "unsealed", "hollow", "sealed"}
SetStore(d, t, s) == [d EXCEPT !.store[t] = s]
SetDocs(d, t, c) == [d EXCEPT !.docs[t] = c]
SetManifest(d, t, m) == [d EXCEPT !.manifest[t] = m]

LEMMA StoreSet ==
    ASSUME NEW d \in DiskType, NEW t \in All,
           NEW s \in StoreStates,
           NEW x, x = SetStore(d, t, s)
    PROVE  /\ x \in DiskType /\ SameBut(d, x)
           /\ x.manifest = d.manifest /\ x.docs = d.docs
           /\ x.store[t] = s /\ \A g \in All : g # t => x.store[g] = d.store[g]
  <1>1. [d.store EXCEPT ![t] = s] \in [All -> {"absent", "unsealed", "hollow", "sealed"}]
    BY DEF DiskType, StoreStates
  <1>2. x = [d EXCEPT !.store = [d.store EXCEPT ![t] = s]]
    BY DEF DiskType, SetStore
  <1>3. /\ x.store = [d.store EXCEPT ![t] = s] /\ x \in DiskType
        /\ SameBut(d, x) /\ x.manifest = d.manifest /\ x.docs = d.docs
    BY <1>1, <1>2 DEF DiskType, SameBut
  <1> QED
    BY <1>3 DEF DiskType

LEMMA DocsSet ==
    ASSUME NEW d \in DiskType, NEW t \in All, NEW c \in Content,
           NEW x, x = SetDocs(d, t, c)
    PROVE  /\ x \in DiskType /\ SameBut(d, x)
           /\ x.manifest = d.manifest /\ x.store = d.store
           /\ x.docs[t] = c /\ \A g \in All : g # t => x.docs[g] = d.docs[g]
  <1>1. [d.docs EXCEPT ![t] = c] \in [All -> Content]
    BY DEF DiskType
  <1>2. x = [d EXCEPT !.docs = [d.docs EXCEPT ![t] = c]]
    BY DEF DiskType, SetDocs
  <1>3. /\ x.docs = [d.docs EXCEPT ![t] = c] /\ x \in DiskType
        /\ SameBut(d, x) /\ x.manifest = d.manifest /\ x.store = d.store
    BY <1>1, <1>2 DEF DiskType, SameBut
  <1> QED
    BY <1>3 DEF DiskType

LEMMA ManifestSet ==
    ASSUME NEW d \in DiskType, NEW t \in Gens, NEW m \in ManifestType \cup {NoManifest},
           NEW x, x = SetManifest(d, t, m)
    PROVE  /\ x \in DiskType /\ SameBut(d, x)
           /\ x.store = d.store /\ x.docs = d.docs
           /\ x.manifest[t] = m /\ \A g \in Gens : g # t => x.manifest[g] = d.manifest[g]
  <1>1. [d.manifest EXCEPT ![t] = m] \in [Gens -> ManifestType \cup {NoManifest}]
    BY DEF DiskType
  <1>2. x = [d EXCEPT !.manifest = [d.manifest EXCEPT ![t] = m]]
    BY DEF DiskType, SetManifest
  <1>3. /\ x.manifest = [d.manifest EXCEPT ![t] = m] /\ x \in DiskType
        /\ SameBut(d, x) /\ x.store = d.store /\ x.docs = d.docs
    BY <1>1, <1>2 DEF DiskType, SameBut
  <1> QED
    BY <1>3 DEF DiskType

\* A manifest that changes its state.
LEMMA StateSet ==
    ASSUME NEW d \in DiskType, NEW t \in Gens, d.manifest[t] # NoManifest,
           NEW s \in {"building", "complete", "active", "retained", "quarantined"},
           NEW x, x = [d EXCEPT !.manifest[t].state = s]
    PROVE  \E m \in ManifestType :
              /\ m.state = s /\ m.digest = d.manifest[t].digest
              /\ m.revision = d.manifest[t].revision /\ m # NoManifest
              /\ x = SetManifest(d, t, m)
  <1> DEFINE m == [d.manifest[t] EXCEPT !.state = s]
  <1>1. d.manifest[t] \in ManifestType
    BY DEF DiskType
  <1>2. /\ m \in ManifestType /\ m.state = s /\ m.digest = d.manifest[t].digest
        /\ m.revision = d.manifest[t].revision
    BY <1>1 DEF ManifestType
  <1>3. x = SetManifest(d, t, m)
    BY DEF DiskType, SetManifest
  <1> HIDE DEF m
  <1> QED
    BY <1>2, <1>3, Shapes

\* Files in which only the target of the job differs, before the cut-over.
LEMMA TargetGood ==
    ASSUME Calm, Open, Job.phase \notin Terminal, disk.pointer = Job.source,
           NEW x \in DiskType, SameBut(disk, x), TargetOnly(disk, Job, x)
    PROVE  /\ x \in Good(disk, acked, started) /\ JobInv(x, Job)
           /\ x.journal = disk.journal /\ x.pointer = disk.pointer /\ x.pending = {}
           /\ x.pointer = Job.source
  <1>1. DiskInv(disk, acked, started) /\ started \in Nat
    BY DEF Calm
  <1>2. /\ Running(disk.journal) /\ Job = disk.journal.current /\ disk.pointer = Job.source
        /\ disk.pending = {}
    BY JobBegins
  <1>3. /\ disk.pointer = disk.journal.current.source
        /\ TargetOnly(disk, disk.journal.current, x)
    BY <1>2
  <1>4. DiskInv(x, acked, started) /\ Follows(disk, x)
    BY <1>1, <1>2, <1>3, TargetWritten
  <1>5. x.journal = disk.journal /\ x.pointer = disk.pointer /\ x.pending = {}
    BY <1>2 DEF SameBut
  <1> QED
    BY <1>2, <1>4, <1>5 DEF Good, DiskInv

\* The target's collection is created, and its manifest says it is being built.
LEMMA PreparingSafe ==
    ASSUME Calm, faults' = 0, StepPreparing
    PROVE  Safe
  <1> DEFINE k == [Job EXCEPT !.phase = "reindexing"]
             t == Job.target
             S == Good(disk, acked, started)
             m == [state |-> "building", digest |-> Job.digest, revision |-> Job.revision]
             all == IF disk.manifest[t] # NoManifest THEN created(t)
                    ELSE Append(created(t), [Last(created(t)) EXCEPT !.manifest[t] = m])
             f == Loaded(WithJob(engine, k))
  <1>1. /\ Open /\ Job.phase = "preparing" /\ ~Job.cancel_requested
        /\ UNCHANGED <<acked, started>>
    BY DEF StepPreparing, InPhase
  <1>2. Job.phase \notin Terminal \cup {"committing"}
    BY <1>1 DEF Terminal
  <1>3. CASE Errs
    BY <1>1, <1>2, <1>3, JobBegins, Erred
  <1>4. CASE Openable(t) /\ Runs(Stages(all, Loaded(engine), f))
    <2>1. /\ disk \in S /\ disk \in DiskType /\ disk.pointer = Job.source /\ disk.pending = {}
          /\ Job \in JobType /\ t \in All /\ JobInv(disk, Job)
      BY <1>1, <1>2, JobBegins
    <2>2. ~Job.preexisting /\ t \in Gens
      BY <1>1, <2>1 DEF JobInv, All
    <2>3. k \in JobType /\ SameJob(Job, k) /\ k.phase = "reindexing" /\ ~k.cancel_requested
      BY <1>1, <2>1, Phased DEF Phases
    <2>4. m \in ManifestType /\ m # NoManifest
      BY <2>1, Shapes DEF JobType, ManifestType
    <2>5. TargetOnly(disk, Job, disk) \/ disk.store[t] = "absent"
      BY <1>1, <2>1, <2>2 DEF TargetOnly, JobInv
    <2>6. \E front \in Seq(S), y \in S :
             /\ created(t) = Append(front, y) /\ y.store[t] = "sealed"
             /\ SameBut(disk, y) /\ y.manifest = disk.manifest
             /\ \A g \in All : g # t => y.store[g] = disk.store[g] /\ y.docs[g] = disk.docs[g]
             /\ \A i \in Ids : y.docs[t][i] \in {0, disk.content[i]}
      <3>1. CASE disk.store[t] = "sealed"
        <4>1. created(t) = Append(<<>>, disk)
          BY <3>1 DEF created
        <4>2. <<>> \in Seq(S)
          OBVIOUS
        <4>3. \A i \in Ids : disk.docs[t][i] \in {0, disk.content[i]}
          BY <2>1 DEF JobInv
        <4> HIDE DEF S
        <4> QED
          BY <2>1, <3>1, <4>1, <4>2, <4>3 DEF SameBut
      <3>2. CASE disk.store[t] # "sealed"
        <4> DEFINE d0 == [disk EXCEPT !.docs[t] = Empty]
                   d1 == [disk EXCEPT !.store[t] = "unsealed", !.docs[t] = Empty]
                   d2 == [d1 EXCEPT !.store[t] = "sealed"]
        <4>1. created(t) = <<disk, d1, d2>>
          BY <3>2 DEF created
        <4>2. /\ d0 = SetDocs(disk, t, Empty) /\ d1 = SetStore(d0, t, "unsealed")
              /\ d2 = SetStore(d1, t, "sealed")
          BY <2>1 DEF DiskType, SetStore, SetDocs
        <4>3. /\ d0 \in DiskType /\ SameBut(disk, d0)
              /\ d0.manifest = disk.manifest /\ d0.store = disk.store
              /\ d0.docs[t] = Empty /\ \A g \in All : g # t => d0.docs[g] = disk.docs[g]
          <5>1. Empty \in Content
            BY Shapes
          <5> HIDE DEF d0, d1, d2
          <5> QED
            BY <2>1, <4>2, <5>1, DocsSet
        <4>13. "unsealed" \in StoreStates /\ "sealed" \in StoreStates
          BY DEF StoreStates
        <4>4. /\ d1 \in DiskType /\ SameBut(d0, d1)
              /\ d1.manifest = d0.manifest /\ d1.docs = d0.docs
              /\ d1.store[t] = "unsealed" /\ \A g \in All : g # t => d1.store[g] = d0.store[g]
          <5> HIDE DEF d0, d1, d2
          <5>1. t \in All /\ d0 \in DiskType /\ d1 = SetStore(d0, t, "unsealed")
            BY <2>1, <4>2, <4>3
          <5> QED
            BY <4>13, <5>1, StoreSet
        <4>5. /\ d2 \in DiskType /\ SameBut(d1, d2)
              /\ d2.manifest = d1.manifest /\ d2.docs = d1.docs
              /\ d2.store[t] = "sealed" /\ \A g \in All : g # t => d2.store[g] = d1.store[g]
          <5> HIDE DEF d0, d1, d2
          <5>1. t \in All /\ d1 \in DiskType /\ d2 = SetStore(d1, t, "sealed")
            BY <2>1, <4>2, <4>4
          <5> QED
            BY <4>13, <5>1, StoreSet
        <4>6. \A i \in Ids : Empty[i] = 0
          BY DEF Empty
        <4> HIDE DEF d0, d1, d2
        <4>7. SameBut(disk, d1) /\ SameBut(disk, d2)
          BY <4>3, <4>4, <4>5 DEF SameBut
        <4>8. TargetOnly(disk, Job, d1) /\ TargetOnly(disk, Job, d2)
          BY <1>1, <2>2, <4>3, <4>4, <4>5, <4>6 DEF TargetOnly
        <4>9. d1 \in S /\ d2 \in S
          BY <1>1, <1>2, <2>1, <4>4, <4>5, <4>7, <4>8, TargetGood
        <4> HIDE DEF S
        <4>10. created(t) = Append(<<disk, d1>>, d2) /\ <<disk, d1>> \in Seq(S)
          BY <2>1, <4>1, <4>9
        <4>11. /\ d2.store[t] = "sealed" /\ SameBut(disk, d2) /\ d2.manifest = disk.manifest
               /\ \A i \in Ids : d2.docs[t][i] \in {0, disk.content[i]}
          BY <4>3, <4>4, <4>5, <4>6, <4>7
        <4>12. \A g \in All : g # t =>
                  d2.store[g] = disk.store[g] /\ d2.docs[g] = disk.docs[g]
          BY <4>3, <4>4, <4>5
        <4> HIDE DEF t
        <4> QED
          BY <4>9, <4>10, <4>11, <4>12
      <3> QED
        BY <3>1, <3>2
    <2>7. PICK front \in Seq(S), y \in S :
             /\ created(t) = Append(front, y) /\ y.store[t] = "sealed"
             /\ SameBut(disk, y) /\ y.manifest = disk.manifest
             /\ \A g \in All : g # t => y.store[g] = disk.store[g] /\ y.docs[g] = disk.docs[g]
             /\ \A i \in Ids : y.docs[t][i] \in {0, disk.content[i]}
      BY <2>6
    <2>8. created(t) \in Seq(S) /\ created(t) # <<>> /\ Last(created(t)) = y
      <3> HIDE DEF S, t
      <3>1. Append(front, y) \in Seq(S) /\ Len(Append(front, y)) = Len(front) + 1
            /\ Append(front, y)[Len(front) + 1] = y /\ Len(front) \in Nat
        BY <2>7
      <3> QED
        BY <2>7, <3>1, EmptySeq DEF Last
    <2>9. y \in DiskType
      BY <2>7 DEF Good
    <2>10. \E z \in S : /\ all \in Seq(S) /\ all # <<>> /\ Last(all) = z
                        /\ SameBut(disk, z) /\ z.store[t] = "sealed" /\ z.docs = y.docs
                        /\ z.manifest[t] # NoManifest
                        /\ JobInv(z, Job) /\ z.pointer = Job.source
      <3>1. CASE disk.manifest[t] # NoManifest
        <4>1. TargetOnly(disk, Job, y)
          BY <1>1, <2>2, <2>7 DEF TargetOnly
        <4>2. JobInv(y, Job) /\ y.pointer = Job.source
          BY <1>1, <1>2, <2>1, <2>7, <2>9, <4>1, TargetGood
        <4>3. all = created(t)
          BY <3>1
        <4> HIDE DEF S, all, t
        <4> QED
          BY <2>7, <2>8, <3>1, <4>2, <4>3
      <3>2. CASE disk.manifest[t] = NoManifest
        <4> DEFINE z == [y EXCEPT !.manifest[t] = m]
        <4>1. /\ z \in DiskType /\ SameBut(y, z)
              /\ z.store = y.store /\ z.docs = y.docs
              /\ z.manifest[t] = m /\ \A g \in Gens : g # t => z.manifest[g] = y.manifest[g]
          <5>1. z = SetManifest(y, t, m)
            BY DEF SetManifest
          <5> HIDE DEF z, m
          <5> QED
            BY <2>2, <2>4, <2>9, <5>1, ManifestSet
        <4>2. all = Append(created(t), z)
          BY <2>8, <3>2
        <4> HIDE DEF z, m, all
        <4>3. SameBut(disk, z)
          BY <2>7, <4>1 DEF SameBut
        <4>4. TargetOnly(disk, Job, z)
          BY <1>1, <2>2, <2>7, <4>1 DEF TargetOnly
        <4>5. z \in S /\ JobInv(z, Job) /\ z.pointer = Job.source
          BY <1>1, <1>2, <2>1, <4>1, <4>3, <4>4, TargetGood
        <4> HIDE DEF S, t
        <4>6. all \in Seq(S) /\ Len(all) = Len(created(t)) + 1
              /\ all[Len(created(t)) + 1] = z /\ Len(created(t)) \in Nat
          BY <2>8, <4>2, <4>5
        <4>7. all # <<>> /\ Last(all) = z
          BY <4>6, EmptySeq DEF Last
        <4> QED
          BY <2>4, <2>7, <4>1, <4>3, <4>5, <4>6, <4>7
      <3> QED
        BY <3>1, <3>2
    <2>11. PICK z \in S : /\ all \in Seq(S) /\ all # <<>> /\ Last(all) = z
                          /\ SameBut(disk, z) /\ z.store[t] = "sealed" /\ z.docs = y.docs
                          /\ z.manifest[t] # NoManifest
                          /\ JobInv(z, Job) /\ z.pointer = Job.source
      BY <2>10
    <2>12. z.journal = disk.journal /\ z.pointer = disk.pointer /\ z.pending = {}
      BY <2>1, <2>11 DEF SameBut
    <2>13. JobInv(z, k)
      <3> HIDE DEF k
      <3> QED
        BY <2>2, <2>3, <2>11, JobOn
    <2>14. f \in Forms(k)
      BY DEF Forms
    <2>15. k.phase \notin Terminal \cup {"cancel_requested"}
      BY <2>3 DEF Terminal
    <2> HIDE DEF k, all, f
    <2> QED
      BY <1>1, <1>2, <1>4, <2>3, <2>11, <2>12, <2>13, <2>14, <2>15, Turned
  <1>5. Errs \/ (Openable(t) /\ Runs(Stages(all, Loaded(engine), f)))
    BY DEF StepPreparing, To
  <1> QED
    BY <1>3, <1>4, <1>5

\* One record is copied from the collection that serves, or all of them are.
LEMMA ReindexingSafe ==
    ASSUME Calm, faults' = 0, StepReindexing
    PROVE  Safe
  <1> DEFINE t == Job.target
             k == [Job EXCEPT !.phase = "verifying"]
             k1 == [Job EXCEPT !.cursor = Job.cursor + 1]
             c(id) == [disk.docs[t] EXCEPT ![id] = disk.docs[engine.serving][id]]
             S == Good(disk, acked, started)
  <1>1. /\ Open /\ Job.phase = "reindexing" /\ ~Job.cancel_requested
        /\ UNCHANGED <<acked, started>>
    BY DEF StepReindexing, InPhase
  <1>2. Job.phase \notin Terminal \cup {"committing"}
    BY <1>1 DEF Terminal
  <1>3. /\ disk \in S /\ disk \in DiskType /\ disk.pointer = Job.source /\ disk.pending = {}
        /\ Job \in JobType /\ t \in All /\ JobInv(disk, Job) /\ engine.serving = disk.pointer
    BY <1>1, <1>2, JobBegins
  <1>4. /\ ~Job.preexisting /\ t \in Gens /\ disk.store[t] = "sealed"
        /\ disk.manifest[t] # NoManifest
    BY <1>1, <1>3 DEF JobInv, All
  <1>5. \/ Errs
        \/ Runs(Stages(<<disk>>, engine, Loaded(WithJob(engine, k))))
        \/ \E id : Runs(Stages(<<disk, SetDocs(disk, t, c(id))>>, Loaded(engine),
                               Loaded(WithJob(engine, k1))))
    <2>1. \A id : [disk EXCEPT !.docs[t][id] = disk.docs[engine.serving][id]]
                  = SetDocs(disk, t, c(id))
      BY <1>3 DEF DiskType, SetDocs
    <2> QED
      BY <2>1 DEF StepReindexing, To
  <1>6. CASE Errs
    BY <1>1, <1>2, <1>6, JobBegins, Erred
  <1>7. CASE Runs(Stages(<<disk>>, engine, Loaded(WithJob(engine, k))))
    <2>1. SameJob(Job, k) /\ k.phase = "verifying"
      BY <1>3, Phased DEF Phases
    <2>2. JobInv(disk, k)
      <3> HIDE DEF k
      <3> QED
        BY <1>3, <1>4, <2>1, JobOn
    <2>3. "verifying" \in Phases \ (Terminal \cup {"cancel_requested"})
      BY DEF Phases, Terminal
    <2>4. Loaded(WithJob(engine, k)) \in Forms(k)
      BY DEF Forms
    <2> QED
      BY <1>1, <1>2, <1>7, <2>2, <2>3, <2>4, TurnedAtOnce
  <1>8. CASE \E id : Runs(Stages(<<disk, SetDocs(disk, t, c(id))>>, Loaded(engine),
                                 Loaded(WithJob(engine, k1))))
    <2>1. PICK id : Runs(Stages(<<disk, SetDocs(disk, t, c(id))>>, Loaded(engine),
                                Loaded(WithJob(engine, k1))))
      BY <1>8
    <2> DEFINE x == SetDocs(disk, t, c(id))
    <2>2. k1 \in JobType /\ SameJob(Job, k1) /\ k1.phase = Job.phase /\ ~k1.cancel_requested
      BY <1>1, <1>3 DEF JobType, SameJob
    <2>3. c(id) \in Content /\ \A i \in Ids : c(id)[i] \in {0, disk.content[i]}
      <3>1. /\ disk.docs[t] \in [Ids -> Versions] /\ disk.docs[disk.pointer] \in [Ids -> Versions]
            /\ \A i \in Ids : disk.docs[t][i] \in {0, disk.content[i]}
        BY <1>3 DEF JobInv, DiskType, Content
      <3>2. \A i \in Ids : disk.docs[disk.pointer][i] = disk.content[i]
        BY <1>3 DEF Calm, DiskInv
      <3> QED
        BY <1>3, <3>1, <3>2 DEF Content
    <2>4. /\ x \in DiskType /\ SameBut(disk, x)
          /\ x.manifest = disk.manifest /\ x.store = disk.store
          /\ x.docs[t] = c(id) /\ \A g \in All : g # t => x.docs[g] = disk.docs[g]
      <3>1. disk \in DiskType /\ t \in All /\ c(id) \in Content /\ x = SetDocs(disk, t, c(id))
        BY <1>3, <2>3
      <3> HIDE DEF x, c, t
      <3> QED
        BY <3>1, DocsSet
    <2> HIDE DEF x, c
    <2>5. TargetOnly(disk, Job, x)
      BY <1>1, <1>4, <2>3, <2>4 DEF TargetOnly
    <2>6. /\ x \in S /\ JobInv(x, Job) /\ x.journal = disk.journal
          /\ x.pointer = disk.pointer /\ x.pending = {} /\ x.pointer = Job.source
      BY <1>1, <1>2, <1>3, <2>4, <2>5, TargetGood
    <2>7. JobInv(x, k1)
      <3>1. x.store[t] = "sealed" /\ x.manifest[t] # NoManifest /\ k1.phase = "reindexing"
        BY <1>1, <1>4, <2>2, <2>4
      <3> HIDE DEF k1
      <3> QED
        BY <1>4, <2>2, <2>6, <3>1, JobOn
    <2>8. k1.phase \notin Terminal \cup {"cancel_requested"}
      BY <1>1, <2>2 DEF Terminal
    <2>9. Loaded(WithJob(engine, k1)) \in Forms(k1)
      BY DEF Forms
    <2>10. <<disk, x>> \in Seq(S) /\ <<disk, x>> # <<>> /\ Last(<<disk, x>>) = x
      <3> HIDE DEF S
      <3> QED
        BY <1>3, <2>6, TwoGood
    <2>11. Runs(Stages(<<disk, x>>, Loaded(engine), Loaded(WithJob(engine, k1))))
      BY <2>1 DEF x
    <2> HIDE DEF k1
    <2> QED
      BY <1>1, <1>2, <2>2, <2>6, <2>7, <2>8, <2>9, <2>10, <2>11, Turned
  <1> QED
    BY <1>5, <1>6, <1>7, <1>8

\* The target holds exactly what the source does: its manifest is complete.
LEMMA VerifyingSafe ==
    ASSUME Calm, faults' = 0, StepVerifying
    PROVE  Safe
  <1> DEFINE t == Job.target
             k == [Job EXCEPT !.phase = "committing"]
             f == Loaded(WithJob(engine, k))
             S == Good(disk, acked, started)
             x == [disk EXCEPT !.manifest[t].state = "complete"]
  <1>1. /\ Open /\ Job.phase = "verifying" /\ ~Job.cancel_requested
        /\ UNCHANGED <<acked, started>>
    BY DEF StepVerifying, InPhase
  <1>2. Job.phase \notin Terminal \cup {"committing"}
    BY <1>1 DEF Terminal
  <1>3. /\ disk \in S /\ disk \in DiskType /\ disk.pointer = Job.source /\ disk.pending = {}
        /\ Job \in JobType /\ t \in All /\ JobInv(disk, Job)
        /\ Job = disk.journal.current /\ Job.source \in All
    BY <1>1, <1>2, JobBegins
  <1>4. /\ disk.store[t] = "sealed" /\ t # Job.source
        /\ t \in Gens => disk.manifest[t] # NoManifest
    BY <1>1, <1>3 DEF JobInv
  <1>5. SameJob(Job, k) /\ k.phase = "committing" /\ k \in JobType /\ ~k.cancel_requested
    BY <1>1, <1>3, Phased DEF Phases
  <1>6. f \in Forms(k)
    BY DEF Forms
  <1>7. \/ Errs
        \/ /\ Present(disk.docs[t]) = Present(disk.content)
           /\ Runs(Stages(IF t = Legacy THEN <<disk>> ELSE <<disk, x>>, Loaded(engine), f))
    BY DEF StepVerifying, To
  <1>8. CASE Errs
    BY <1>1, <1>2, <1>8, JobBegins, Erred
  <1>9. ASSUME Present(disk.docs[t]) = Present(disk.content)
        PROVE  disk.docs[t] = disk.content
    <2>1. disk.docs[t] \in [Ids -> Versions] /\ disk.content \in [Ids -> Versions]
      BY <1>3 DEF DiskType, Content
    <2>2. \A i \in Ids : disk.docs[t][i] \in {0, disk.content[i]}
      BY <1>3 DEF JobInv
    <2>3. \A i \in Ids : disk.docs[t][i] = disk.content[i]
      BY <1>9, <2>2 DEF Present
    <2> QED
      BY <2>1, <2>3
  <1>10. CASE /\ t = Legacy /\ disk.docs[t] = disk.content
              /\ Runs(Stages(<<disk>>, Loaded(engine), f))
    <2>1. JobInv(disk, k)
      <3> HIDE DEF k
      <3> QED
        BY <1>3, <1>4, <1>5, <1>10, JobOn
    <2>2. "committing" \in Phases \ (Terminal \cup {"cancel_requested"})
      BY DEF Phases, Terminal
    <2> QED
      BY <1>1, <1>2, <1>6, <1>10, <2>1, <2>2, TurnedAtOnce
  <1>11. CASE /\ t # Legacy /\ disk.docs[t] = disk.content
              /\ Runs(Stages(<<disk, x>>, Loaded(engine), f))
    <2>1. t \in Gens
      BY <1>3, <1>11 DEF All
    <2>2. PICK m \in ManifestType :
              /\ m.state = "complete" /\ m.digest = disk.manifest[t].digest
              /\ m.revision = disk.manifest[t].revision /\ m # NoManifest
              /\ x = SetManifest(disk, t, m)
      <3>1. /\ disk \in DiskType /\ t \in Gens /\ disk.manifest[t] # NoManifest
            /\ x = [disk EXCEPT !.manifest[t].state = "complete"]
        BY <1>3, <1>4, <2>1
      <3> HIDE DEF x, t
      <3> QED
        BY <3>1, StateSet
    <2> HIDE DEF x
    <2>3. /\ x \in DiskType /\ SameBut(disk, x)
          /\ x.store = disk.store /\ x.docs = disk.docs
          /\ x.manifest[t] = m /\ \A g \in Gens : g # t => x.manifest[g] = disk.manifest[g]
      <3>1. /\ disk \in DiskType /\ t \in Gens /\ m \in ManifestType \cup {NoManifest}
            /\ x = SetManifest(disk, t, m)
        BY <1>3, <2>1, <2>2
      <3> HIDE DEF t
      <3> QED
        BY <3>1, ManifestSet
    <2>4. ASSUME Job.preexisting
          PROVE  Kept(t, x)
      <3>1. /\ disk.manifest[t].state \in {"retained", "complete"}
            /\ disk.docs[t] = disk.content
        BY <1>3, <2>1, <2>4 DEF JobInv
      <3>2. ~Excused(t, disk)
        BY <1>3, <1>4, <2>4 DEF Excused
      <3>3. Kept(t, disk)
        BY <2>1, <3>2 DEF Calm, DiskInv
      <3> QED
        BY <2>2, <2>3, <3>1, <3>3 DEF Kept, SameBut
    <2>5. TargetOnly(disk, Job, x)
      <3>1. \A i \in Ids : x.docs[t][i] \in {0, disk.content[i]}
        BY <1>11, <2>3
      <3>2. \A g \in All : g # t => x.store[g] = disk.store[g] /\ x.docs[g] = disk.docs[g]
        BY <2>3
      <3>3. x.store[t] = "sealed" /\ x.docs[t] = disk.docs[t] /\ x.store[t] = disk.store[t]
        BY <1>4, <2>3
      <3> QED
        BY <1>1, <2>2, <2>3, <2>4, <3>1, <3>2, <3>3 DEF TargetOnly
    <2>6. /\ x \in S /\ JobInv(x, Job) /\ x.journal = disk.journal
          /\ x.pointer = disk.pointer /\ x.pending = {} /\ x.pointer = Job.source
      BY <1>1, <1>2, <1>3, <2>3, <2>5, TargetGood
    <2>7. JobInv(x, k)
      <3>1. x.store[t] = "sealed" /\ x.manifest[t] # NoManifest /\ x.docs[t] = x.content
        BY <1>4, <1>11, <2>2, <2>3 DEF SameBut
      <3> HIDE DEF k
      <3> QED
        BY <1>5, <2>6, <3>1, JobOn
    <2>8. k.phase \notin Terminal \cup {"cancel_requested"}
      BY <1>5 DEF Terminal
    <2>9. <<disk, x>> \in Seq(S) /\ <<disk, x>> # <<>> /\ Last(<<disk, x>>) = x
      <3> HIDE DEF S
      <3> QED
        BY <1>3, <2>6, TwoGood
    <2> HIDE DEF k, f
    <2> QED
      BY <1>1, <1>2, <1>5, <1>6, <1>11, <2>6, <2>7, <2>8, <2>9, Turned
  <1> HIDE DEF x, f
  <1> QED
    BY <1>7, <1>8, <1>9, <1>10, <1>11

\* What the target of a job that ends in vain is left as.
Abandoned ==
    LET t == Job.target
    IN IF Job.preexisting \/ t = Legacy \/ disk.manifest[t] = NoManifest
       THEN <<disk>> ELSE <<disk, [disk EXCEPT !.manifest[t].state = "quarantined"]>>

LEMMA Quarantined ==
    ASSUME Calm, Open, Job.phase \notin Terminal, disk.pointer = Job.source
    PROVE  LET S == Good(disk, acked, started)
               disks == Abandoned
               y == Last(disks)
           IN /\ disks \in Seq(S) /\ disks # <<>> /\ y \in S
              /\ y.journal = disk.journal /\ y.pointer = disk.pointer /\ y.pending = {}
              /\ Job.preexisting \/ y.manifest[Job.target].state \notin {"retained", "complete"}
  <1> DEFINE S == Good(disk, acked, started)
             t == Job.target
             x == [disk EXCEPT !.manifest[t].state = "quarantined"]
  <1>1. /\ disk \in S /\ disk \in DiskType /\ disk.pending = {} /\ t \in All
        /\ JobInv(disk, Job)
    BY JobBegins
  <1>2. CASE Job.preexisting \/ t = Legacy \/ disk.manifest[t] = NoManifest
    <2>1. Abandoned = <<disk>>
      BY <1>2 DEF Abandoned
    <2>2. <<disk>> \in Seq(S) /\ <<disk>> # <<>> /\ Last(<<disk>>) = disk
      <3> HIDE DEF S
      <3> QED
        BY <1>1, OneGood
    <2>3. Job.preexisting \/ disk.manifest[t].state = None
      BY <1>1, <1>2 DEF JobInv, NoManifest
    <2> HIDE DEF S
    <2> QED
      BY <1>1, <2>1, <2>2, <2>3 DEF S, None
  <1>3. CASE ~Job.preexisting /\ t # Legacy /\ disk.manifest[t] # NoManifest
    <2>1. t \in Gens /\ Abandoned = <<disk, x>>
      BY <1>1, <1>3 DEF Abandoned, All
    <2>2. PICK m \in ManifestType :
              /\ m.state = "quarantined" /\ m.digest = disk.manifest[t].digest
              /\ m.revision = disk.manifest[t].revision /\ m # NoManifest
              /\ x = SetManifest(disk, t, m)
      <3>1. /\ disk \in DiskType /\ t \in Gens /\ disk.manifest[t] # NoManifest
            /\ x = [disk EXCEPT !.manifest[t].state = "quarantined"]
        BY <1>1, <1>3, <2>1
      <3> HIDE DEF x, t
      <3> QED
        BY <3>1, StateSet
    <2> HIDE DEF x
    <2>3. /\ x \in DiskType /\ SameBut(disk, x)
          /\ x.store = disk.store /\ x.docs = disk.docs
          /\ x.manifest[t] = m /\ \A g \in Gens : g # t => x.manifest[g] = disk.manifest[g]
      <3>1. /\ disk \in DiskType /\ t \in Gens /\ m \in ManifestType \cup {NoManifest}
            /\ x = SetManifest(disk, t, m)
        BY <1>1, <2>1, <2>2
      <3> HIDE DEF t
      <3> QED
        BY <3>1, ManifestSet
    <2>4. disk.store[t] # "absent"
      BY <1>3, <2>1 DEF Calm, DiskInv
    <2>5. TargetOnly(disk, Job, x)
      <3>1. \A i \in Ids : x.docs[t][i] \in {0, disk.content[i]}
        BY <1>1, <2>3 DEF JobInv
      <3>2. Job.phase \in {"reindexing", "verifying", "committing"} => x.store[t] = "sealed"
        BY <1>1, <2>3 DEF JobInv
      <3>3. Job.phase = "committing" => x.docs[t] = disk.content
        BY <1>1, <2>3 DEF JobInv
      <3> QED
        BY <1>3, <2>2, <2>3, <2>4, <3>1, <3>2, <3>3 DEF TargetOnly
    <2>6. /\ x \in S /\ x.journal = disk.journal
          /\ x.pointer = disk.pointer /\ x.pending = {}
      BY <2>3, <2>5, TargetGood
    <2>7. <<disk, x>> \in Seq(S) /\ <<disk, x>> # <<>> /\ Last(<<disk, x>>) = x
      <3> HIDE DEF S
      <3> QED
        BY <1>1, <2>6, TwoGood
    <2> HIDE DEF S
    <2> QED
      BY <2>1, <2>2, <2>3, <2>6, <2>7 DEF S
  <1> QED
    BY <1>2, <1>3

\* The same engine, its own model loaded again.
Reloaded(e) == {e, [e EXCEPT !.embedder = ProfileOf[engine.serving]]}

LEMMA ReloadedEngine ==
    ASSUME NEW d, NEW e, EngineInv(d, e), engine.serving = e.serving,
           NEW f \in Reloaded(e)
    PROVE  EngineInv(d, f)
  <1>1. /\ e \in EngineType /\ e.active \in All /\ e.serving \in All /\ e.target \in BOOLEAN
        /\ e.journal \in JournalType
        /\ e = [active |-> e.active, serving |-> e.serving, embedder |-> e.embedder,
                target |-> e.target, journal |-> e.journal]
    BY DEF EngineInv, EngineType
  <1>2. CASE f = [e EXCEPT !.embedder = ProfileOf[engine.serving]]
    <2>1. f = [active |-> e.active, serving |-> e.serving, embedder |-> ProfileOf[e.serving],
               target |-> e.target, journal |-> e.journal]
      BY <1>1, <1>2
    <2>2. ProfileOf[e.serving] \in Profiles
      BY <1>1 DEF Profiles
    <2>3. f \in EngineType
      BY <1>1, <2>1, <2>2 DEF EngineType
    <2> QED
      BY <2>1, <2>3 DEF EngineInv
  <1> QED
    BY <1>2 DEF Reloaded

\* The job ends without a commit.
LEMMA Concluded ==
    ASSUME Calm, Open, Job.phase \notin Terminal, disk.pointer = Job.source,
           NEW ph, IF Job.cancel_requested THEN ph = "cancelled" ELSE ph = "failed"
    PROVE  LET S == Good(disk, acked, started)
               y == Last(Abandoned)
               e == Dropped(To(ph))
           IN /\ Abandoned \in Seq(S) /\ Abandoned # <<>>
              /\ Saved(y, e) \in S
              /\ \A f \in Reloaded(e) : EngineInv(Saved(y, e), f)
  <1> DEFINE S == Good(disk, acked, started)
             y == Last(Abandoned)
             k == [Job EXCEPT !.phase = ph]
             e == Dropped(WithJob(engine, k))
  <1>1. /\ Abandoned \in Seq(S) /\ Abandoned # <<>> /\ y \in S
        /\ y.journal = disk.journal /\ y.pointer = disk.pointer /\ y.pending = {}
        /\ Job.preexisting \/ y.manifest[Job.target].state \notin {"retained", "complete"}
    BY Quarantined
  <1> HIDE DEF y, S
  <1>2. /\ Job \in JobType /\ KeepsCancel(Job, acked)
        /\ Job.cancel_requested \in BOOLEAN
        /\ Job.cancel_requested <=> Job.phase \in {"cancel_requested", "cancelled"}
        /\ Running(disk.journal)
    BY JobBegins
  <1>3. ph \in Phases
    BY DEF Phases
  <1>4. /\ k \in JobType /\ SameJob(Job, k) /\ k.phase = ph
        /\ k.cancel_requested = Job.cancel_requested
    BY <1>2, <1>3, Phased
  <1> HIDE DEF k
  <1>5. k.cancel_requested <=> k.phase \in {"cancel_requested", "cancelled"}
    BY <1>4
  <1>6. KeepsCancel(k, acked)
    BY <1>2, <1>4 DEF KeepsCancel, SameJob
  <1>7. /\ k.phase \in {"cancelled", "failed"} /\ disk.pointer = k.source
        /\ k.preexisting \/ y.manifest[k.target].state \notin {"retained", "complete"}
    BY <1>1, <1>4 DEF SameJob
  <1>8. engine \in EngineType /\ engine.journal = disk.journal
    BY HandlerBegins
  <1>9. /\ e \in EngineType /\ e.journal = [disk.journal EXCEPT !.current = k]
        /\ e.active = engine.active /\ e.serving = engine.serving
        /\ e.embedder \in {None, engine.embedder}
    BY <1>4, <1>8, EngineForms
  <1>10. /\ e.active = disk.pointer /\ e.serving = disk.pointer
         /\ e.embedder \in {None, ProfileOf[disk.pointer]}
    BY <1>9, JobBegins
  <1> HIDE DEF e
  <1>11. Saved(y, e) \in S /\ EngineInv(Saved(y, e), e)
    BY <1>1, <1>2, <1>4, <1>5, <1>6, <1>7, <1>9, <1>10, MovesOn DEF S
  <1>12. \A f \in Reloaded(e) : EngineInv(Saved(y, e), f)
    BY <1>9, <1>11, ReloadedEngine
  <1>13. e = Dropped(To(ph))
    BY DEF e, k, To
  <1> QED
    BY <1>1, <1>11, <1>12, <1>13 DEF y, S

LEMMA CancelledSafe ==
    ASSUME Calm, faults' = 0, finish_switch_cancelled
    PROVE  Safe
  <1> DEFINE S == Good(disk, acked, started)
             y == Last(Abandoned)
             e == Dropped(To("cancelled"))
             stages == Stages(Abandoned, engine, e)
  <1>1. /\ Open /\ Job.phase \notin Terminal /\ Job.cancel_requested
        /\ UNCHANGED <<acked, started>>
    BY DEF finish_switch_cancelled
  <1>2. disk.pointer = Job.source
    BY <1>1, JobBegins
  <1>3. /\ Abandoned \in Seq(S) /\ Abandoned # <<>> /\ Saved(y, e) \in S
        /\ \A f \in Reloaded(e) : EngineInv(Saved(y, e), f)
    BY <1>1, <1>2, Concluded
  <1>4. \/ Fails(stages, TRUE)
        \/ Crashes(stages)
        \/ disk' = Last(stages).disk /\ engine' \in Reloaded(e) /\ failing' = FALSE
    <2>1. engine' \in (IF e.embedder # None THEN {e}
                       ELSE {[e EXCEPT !.embedder = ProfileOf[engine.serving]]}
                              \cup IF MayRefuse THEN {e} ELSE {})
          => engine' \in Reloaded(e)
      BY DEF Reloaded
    <2> QED
      BY <2>1 DEF finish_switch_cancelled, Abandoned
  <1> HIDE DEF S, y, e
  <1>5. ~Fails(stages, TRUE)
    BY FailsCost DEF Calm
  <1>6. Last(stages).disk = Saved(y, e)
    BY <1>3, StagePlaces DEF y, Stage
  <1>7. CASE Crashes(stages)
    <2>1. disk' \in S /\ engine' = Closed /\ failing' = FALSE
      BY <1>3, <1>7, StagesEnd
    <2> QED
      BY <1>1, <2>1 DEF Safe, S, FailingInv
  <1>8. CASE disk' = Last(stages).disk /\ engine' \in Reloaded(e) /\ failing' = FALSE
    BY <1>1, <1>3, <1>6, <1>8 DEF Safe, S, FailingInv
  <1> QED
    BY <1>4, <1>5, <1>7, <1>8

LEMMA FailedSafe ==
    ASSUME Calm, faults' = 0, fail_model_switch
    PROVE  Safe
  <1> DEFINE S == Good(disk, acked, started)
  <1>1. /\ Open /\ Running(disk.journal) /\ ~disk.journal.current.cancel_requested
        /\ UNCHANGED <<acked, started>>
    BY DEF fail_model_switch, Calm, FailingInv
  <1>2. /\ Job.phase \notin Terminal /\ ~Job.cancel_requested /\ Job = disk.journal.current
    BY <1>1, HandlerBegins DEF Running
  <1>3. CASE disk.pointer # Job.target
    <2> DEFINE y == Last(Abandoned)
               e == Dropped(To("failed"))
               stages == Stages(Abandoned, e, e)
    <2>1. disk.pointer = Job.source
      BY <1>1, <1>2, <1>3, JobBegins DEF JobInv
    <2>2. /\ Abandoned \in Seq(S) /\ Abandoned # <<>> /\ Saved(y, e) \in S
          /\ \A f \in Reloaded(e) : EngineInv(Saved(y, e), f)
      BY <1>1, <1>2, <2>1, Concluded
    <2>3. \/ faults' # 0
          \/ Crashes(stages)
          \/ disk' = Last(stages).disk /\ engine' \in Reloaded(e) /\ failing' = FALSE
      <3>1. engine' \in (IF e.embedder # None \/ disk.pointer = Job.target THEN {e}
                         ELSE {[e EXCEPT !.embedder = ProfileOf[engine.serving]]}
                                \cup IF MayRefuse THEN {e} ELSE {})
            => engine' \in Reloaded(e)
        BY DEF Reloaded
      <3>2. \A s, then : Fails(s, then) => faults' # 0
        BY FailsCost DEF Calm
      <3>3. faults' = faults + 1 => faults' # 0
        BY DEF Calm
      <3> HIDE DEF e
      <3>4. e = Dropped(To("failed"))
        BY DEF e
      <3> QED
        BY <1>3, <3>1, <3>2, <3>3, <3>4 DEF fail_model_switch, Abandoned
    <2> HIDE DEF S, y, e
    <2>4. Last(stages).disk = Saved(y, e)
      BY <2>2, StagePlaces DEF y, Stage
    <2>5. CASE Crashes(stages)
      <3>1. disk' \in S /\ engine' = Closed /\ failing' = FALSE
        BY <2>2, <2>5, StagesEnd
      <3> QED
        BY <1>1, <3>1 DEF Safe, S, FailingInv
    <2>6. CASE disk' = Last(stages).disk /\ engine' \in Reloaded(e) /\ failing' = FALSE
      BY <1>1, <2>2, <2>4, <2>6 DEF Safe, S, FailingInv
    <2> QED
      BY <2>3, <2>5, <2>6
  <1>4. CASE disk.pointer = Job.target
    <2> DEFINE k == [Job EXCEPT !.phase = "committing"]
               e0 == Dropped(WithJob(engine, k))
               e == [e0 EXCEPT !.active = disk.pointer]
               stages == Stages(<<disk>>, e, e)
    <2>1. /\ Job \in JobType /\ JobInv(disk, Job) /\ KeepsCancel(Job, acked)
          /\ disk \in S /\ disk \in DiskType /\ disk.pending = {}
          /\ engine.active = disk.pointer /\ engine.serving = disk.pointer
          /\ engine.embedder \in {None, ProfileOf[disk.pointer]}
      BY <1>1, <1>2, JobBegins
    <2>2. k = Job
      <3>1. Job.phase = "committing"
        BY <1>4, <2>1 DEF JobInv
      <3> QED
        BY <2>1, <3>1 DEF JobType
    <2>3. SameJob(Job, k) /\ k \in JobType /\ ~k.cancel_requested /\ k.phase = "committing"
      BY <1>2, <2>1, <2>2, Phased DEF Phases
    <2>4. engine \in EngineType /\ engine.journal = disk.journal
      BY <1>1, HandlerBegins
    <2>5. /\ e0 \in EngineType /\ e0.journal = [disk.journal EXCEPT !.current = k]
          /\ e0.active = engine.active /\ e0.serving = engine.serving
          /\ e0.embedder \in {None, engine.embedder}
      BY <2>3, <2>4, EngineForms
    <2> HIDE DEF e0
    <2>6. /\ e \in EngineType /\ e.journal = [disk.journal EXCEPT !.current = k]
          /\ e.active = disk.pointer /\ e.serving = disk.pointer
          /\ e.embedder \in {None, ProfileOf[disk.pointer]}
      <3>1. e = e0
        BY <2>1, <2>5 DEF EngineType
      <3> QED
        BY <2>1, <2>5, <3>1
    <2> HIDE DEF e
    <2>7. Saved(disk, e) \in S /\ EngineInv(Saved(disk, e), e)
      <3>1. KeepsCancel(k, acked) /\ JobInv(disk, k)
        BY <2>1, <2>2
      <3>2. k.cancel_requested <=> k.phase \in {"cancel_requested", "cancelled"}
        BY <2>3
      <3>3. k.phase \notin Terminal
        BY <2>3 DEF Terminal
      <3> HIDE DEF k
      <3> QED
        BY <1>1, <2>1, <2>3, <2>6, <3>1, <3>2, <3>3, MovesOn
    <2>8. \/ faults' # 0
          \/ Crashes(stages)
          \/ disk' = Last(stages).disk /\ engine' = e /\ failing' = FALSE
      <3>1. e = [Dropped(To("committing")) EXCEPT !.active = disk.pointer]
        BY DEF e, e0, k, To
      <3>2. \A s, then : Fails(s, then) => faults' # 0
        BY FailsCost DEF Calm
      <3>3. faults' = faults + 1 => faults' # 0
        BY DEF Calm
      <3> QED
        BY <1>4, <3>1, <3>2, <3>3 DEF fail_model_switch
    <2> HIDE DEF S
    <2>9. <<disk>> \in Seq(S) /\ <<disk>> # <<>> /\ Last(<<disk>>) = disk
      BY <2>1, OneGood
    <2>10. Last(stages).disk = Saved(disk, e)
      <3>1. Last(stages) = Stage(Saved(Last(<<disk>>), e), e)
        BY <2>9, StagePlaces
      <3> HIDE DEF stages
      <3> QED
        BY <2>9, <3>1 DEF Stage
    <2>11. CASE Crashes(stages)
      <3>1. disk' \in S /\ engine' = Closed /\ failing' = FALSE
        BY <2>9, <2>11, StagesEnd
      <3> QED
        BY <1>1, <3>1 DEF Safe, S, FailingInv
    <2>12. CASE disk' = Last(stages).disk /\ engine' = e /\ failing' = FALSE
      BY <1>1, <2>7, <2>10, <2>12 DEF Safe, S, FailingInv
    <2> QED
      BY <2>8, <2>11, <2>12
  <1> QED
    BY <1>3, <1>4

\* Files in which only the generation g differs.
OnlyOf(g, d, x) ==
    /\ x \in DiskType /\ SameBut(d, x)
    /\ \A h \in All : h # g => x.store[h] = d.store[h] /\ x.docs[h] = d.docs[h]
    /\ \A h \in Gens : h # g => x.manifest[h] = d.manifest[h]

LEMMA OnlyStore ==
    ASSUME NEW d \in DiskType, NEW g \in All, NEW s \in StoreStates,
           NEW x, x = SetStore(d, g, s)
    PROVE  OnlyOf(g, d, x) /\ x.store[g] = s /\ x.docs = d.docs /\ x.manifest = d.manifest
  BY StoreSet DEF OnlyOf

LEMMA OnlyDocs ==
    ASSUME NEW d \in DiskType, NEW g \in All, NEW c \in Content,
           NEW x, x = SetDocs(d, g, c)
    PROVE  OnlyOf(g, d, x) /\ x.docs[g] = c /\ x.store = d.store /\ x.manifest = d.manifest
  BY DocsSet DEF OnlyOf

LEMMA OnlyManifest ==
    ASSUME NEW d \in DiskType, NEW g \in Gens, NEW m \in ManifestType \cup {NoManifest},
           NEW x, x = SetManifest(d, g, m)
    PROVE  OnlyOf(g, d, x) /\ x.manifest[g] = m /\ x.store = d.store /\ x.docs = d.docs
  BY ManifestSet DEF OnlyOf

LEMMA OnlyOfTwo ==
    ASSUME NEW g, NEW d, NEW x, NEW y, OnlyOf(g, d, x), OnlyOf(g, x, y)
    PROVE  OnlyOf(g, d, y)
  BY DEF OnlyOf, SameBut

\* The store and the collection of a generation.
SetBoth(d, g, s) == [d EXCEPT !.store[g] = s, !.docs[g] = Empty]

LEMMA BothSet ==
    ASSUME NEW d \in DiskType, NEW g \in All, NEW s \in StoreStates,
           NEW x, x = SetBoth(d, g, s)
    PROVE  /\ OnlyOf(g, d, x) /\ x.store[g] = s /\ x.docs[g] = Empty
           /\ x.manifest = d.manifest
  <1>1. x = SetDocs(SetStore(d, g, s), g, Empty)
    BY DEF DiskType, SetDocs, SetStore, SetBoth
  <1>2. PICK w : w = SetStore(d, g, s)
    OBVIOUS
  <1>3. OnlyOf(g, d, w) /\ w.store[g] = s /\ w.manifest = d.manifest /\ w \in DiskType
    <2>1. OnlyOf(g, d, w) /\ w.store[g] = s /\ w.manifest = d.manifest
      BY <1>2, OnlyStore
    <2> QED
      BY <2>1 DEF OnlyOf
  <1>4. Empty \in Content
    BY Shapes
  <1>5. OnlyOf(g, w, x) /\ x.docs[g] = Empty /\ x.store = w.store /\ x.manifest = w.manifest
    <2>1. w \in DiskType /\ x = SetDocs(w, g, Empty)
      BY <1>1, <1>2, <1>3
    <2> QED
      BY <1>4, <2>1, OnlyDocs
  <1> QED
    BY <1>3, <1>5, OnlyOfTwo

\* The files of a removal.
LEMMA RemovedFiles ==
    ASSUME NEW d \in DiskType, NEW g \in All, NEW first
    PROVE  \E a, b :
              /\ Removed(d, g, first) = <<a, b>> /\ OnlyOf(g, d, a) /\ OnlyOf(g, d, b)
              /\ a.store[g] # "absent"
              /\ b.store[g] = "absent" /\ b.docs[g] = Empty
              /\ g \in Gens => b.manifest[g] = NoManifest
  <1> DEFINE gone == [d EXCEPT !.store[g] = "absent", !.docs[g] = Empty]
             hollow == [d EXCEPT !.store[g] = "hollow", !.docs[g] = Empty]
             bare == [d EXCEPT !.store[g] = "unsealed", !.manifest[g] = NoManifest]
             none == [gone EXCEPT !.manifest[g] = NoManifest]
  <1>1. "absent" \in StoreStates /\ "hollow" \in StoreStates /\ "unsealed" \in StoreStates
    BY DEF StoreStates
  <1>2. OnlyOf(g, d, gone) /\ gone.store[g] = "absent" /\ gone.docs[g] = Empty
    <2>1. gone = SetBoth(d, g, "absent")
      BY DEF SetBoth
    <2> HIDE DEF gone
    <2> QED
      BY <1>1, <2>1, BothSet
  <1>3. OnlyOf(g, d, hollow) /\ hollow.store[g] = "hollow"
    <2>1. hollow = SetBoth(d, g, "hollow")
      BY DEF SetBoth
    <2> HIDE DEF hollow
    <2> QED
      BY <1>1, <2>1, BothSet
  <1>4. ASSUME g \in Gens
        PROVE  /\ OnlyOf(g, d, bare) /\ bare.store[g] = "unsealed"
               /\ OnlyOf(g, d, none) /\ none.store[g] = "absent" /\ none.docs[g] = Empty
               /\ none.manifest[g] = NoManifest
    <2>1. bare = SetManifest(SetStore(d, g, "unsealed"), g, NoManifest)
      BY DEF DiskType, SetManifest, SetStore
    <2>2. none = SetManifest(gone, g, NoManifest)
      BY DEF SetManifest
    <2> HIDE DEF bare, none, gone
    <2>3. PICK w : w = SetStore(d, g, "unsealed")
      OBVIOUS
    <2>4. OnlyOf(g, d, w) /\ w.store[g] = "unsealed" /\ w \in DiskType
      <3>1. OnlyOf(g, d, w) /\ w.store[g] = "unsealed"
        BY <1>1, <2>3, OnlyStore
      <3> QED
        BY <3>1 DEF OnlyOf
    <2>5. OnlyOf(g, w, bare) /\ bare.store = w.store
      BY <1>4, <2>1, <2>3, <2>4, OnlyManifest
    <2>6. gone \in DiskType
      BY <1>2 DEF OnlyOf
    <2>7. /\ OnlyOf(g, gone, none) /\ none.store = gone.store /\ none.docs = gone.docs
          /\ none.manifest[g] = NoManifest
      BY <1>4, <2>2, <2>6, OnlyManifest
    <2> QED
      BY <1>2, <2>4, <2>5, <2>7, OnlyOfTwo
  <1>5. CASE g = Legacy
    <2>1. Removed(d, g, first) = <<hollow, gone>> /\ g \notin Gens
      BY <1>5, SwitchConstants DEF Removed
    <2> HIDE DEF hollow, gone
    <2> QED
      BY <1>2, <1>3, <2>1
  <1>6. CASE g # Legacy
    <2>1. g \in Gens
      BY <1>6 DEF All
    <2>2. Removed(d, g, first) = <<IF first THEN bare ELSE hollow, none>>
      BY <1>6 DEF Removed
    <2> HIDE DEF hollow, gone, bare, none
    <2> QED
      BY <1>3, <1>4, <2>1, <2>2
  <1> QED
    BY <1>5, <1>6

\* Files in which only what the commit writes differs from those at the cut-over.
LEMMA SourceGood ==
    ASSUME Calm, Open, Job.phase \notin Terminal,
           NEW d \in Good(disk, acked, started), d.journal = disk.journal,
           d.pointer = Job.target, d.pending = {},
           NEW x \in DiskType, SameBut(d, x), SourceOnly(d, Job, x)
    PROVE  /\ x \in Good(disk, acked, started) /\ DiskInv(x, acked, started)
           /\ x.journal = disk.journal /\ x.pointer = Job.target /\ x.pending = {}
           /\ x.revision = d.revision
  <1>1. /\ DiskInv(d, acked, started) /\ started \in Nat
    BY DEF Calm, Good
  <1>2. /\ Running(disk.journal) /\ Running(d.journal) /\ Job = d.journal.current
    BY JobBegins
  <1>3. /\ d.pointer = d.journal.current.target
        /\ SourceOnly(d, d.journal.current, x)
    BY <1>2
  <1>4. DiskInv(x, acked, started) /\ Follows(d, x)
    BY <1>1, <1>2, <1>3, SourceWritten
  <1>5. /\ x.journal = disk.journal /\ x.pointer = Job.target /\ x.pending = {}
        /\ x.revision = d.revision
    BY DEF SameBut
  <1> QED
    BY <1>2, <1>4, <1>5, GoodOn

\* The job has succeeded in the files z.
LEMMA SucceededOn ==
    ASSUME Calm, Open, Job.phase = "committing", ~Job.cancel_requested,
           NEW z \in Good(disk, acked, started), z.journal = disk.journal,
           z.pointer = Job.target, z.pending = {},
           IF Job.source = Legacy THEN Job.retain \/ z.store[Legacy] = "absent"
           ELSE IF Job.retain
           THEN z.manifest[Job.source] = [state |-> "retained", digest |-> Job.digest,
                                          revision |-> z.revision]
           ELSE z.manifest[Job.source] = NoManifest,
           NEW e \in EngineType, e.journal = disk.journal,
           e.active = Job.target, e.serving = Job.target,
           e.embedder \in {None, ProfileOf[Job.target]}
    PROVE  LET e1 == WithJob(e, [Job EXCEPT !.phase = "succeeded"])
           IN Saved(z, e1) \in Good(disk, acked, started) /\ EngineInv(Saved(z, e1), e1)
  <1> DEFINE k == [Job EXCEPT !.phase = "succeeded"]
             e1 == WithJob(e, k)
             x == Saved(z, e1)
  <1>1. Job.phase \notin Terminal
    BY DEF Terminal
  <1>2. /\ Job \in JobType /\ KeepsCancel(Job, acked) /\ Running(disk.journal)
        /\ Job = z.journal.current /\ Running(z.journal)
    BY <1>1, JobBegins
  <1>3. SameJob(Job, k) /\ k \in JobType /\ ~k.cancel_requested /\ k.phase = "succeeded"
    BY <1>2, Phased DEF Phases
  <1> HIDE DEF k
  <1>4. KeepsCancel(k, acked)
    BY <1>2, <1>3 DEF KeepsCancel, SameJob
  <1>5. /\ e1 \in EngineType /\ e1.journal = [z.journal EXCEPT !.current = k]
        /\ e1.active = e.active /\ e1.serving = e.serving
        /\ e1.embedder \in {None, e.embedder}
    BY <1>3, EngineForms
  <1> HIDE DEF e1
  <1>6. x = [z EXCEPT !.journal = [z.journal EXCEPT !.current = k]]
    BY <1>5 DEF Saved
  <1>7. DiskInv(z, acked, started) /\ started \in Nat /\ z \in DiskType
    BY DEF Good, Calm
  <1>8. /\ SameJob(z.journal.current, k) /\ z.pointer = k.target
        /\ z.journal.current.phase = "committing"
        /\ IF k.source = Legacy THEN k.retain \/ z.store[Legacy] = "absent"
           ELSE IF k.retain
           THEN z.manifest[k.source] = [state |-> "retained", digest |-> k.digest,
                                        revision |-> z.revision]
           ELSE z.manifest[k.source] = NoManifest
    BY <1>2, <1>3 DEF SameJob
  <1> HIDE DEF x
  <1>9. x \in DiskType /\ DiskInv(x, acked, started) /\ Follows(z, x)
    BY <1>2, <1>3, <1>4, <1>6, <1>7, <1>8, Succeeded
  <1>10. x \in Good(disk, acked, started)
    BY <1>2, <1>9, GoodOn
  <1>11. x.journal = e1.journal /\ x.pointer = Job.target /\ x.pending = {}
    <2>1. e1.journal \in JournalType /\ x = [z EXCEPT !.journal = e1.journal]
      BY <1>5, <1>6 DEF EngineType
    <2> QED
      BY <1>7, <2>1, DiskFields
  <1>12. EngineInv(x, e1)
    BY <1>5, <1>11 DEF EngineInv
  <1> QED
    BY <1>10, <1>12 DEF x, e1, k

\* The files that the end of a commit goes through.
LEMMA FinalizedGood ==
    ASSUME Calm, Open, Job.phase = "committing", ~Job.cancel_requested,
           NEW d \in Good(disk, acked, started), d.journal = disk.journal,
           d.pointer = Job.target, d.pending = {}, Finalizes(d),
           NEW e \in EngineType, e.journal = disk.journal,
           e.active = Job.target, e.serving = Job.target,
           e.embedder \in {None, ProfileOf[Job.target]},
           NEW first
    PROVE  LET S == Good(disk, acked, started)
               e1 == WithJob(e, [Job EXCEPT !.phase = "succeeded"])
           IN \E disks \in Seq(S) :
                 /\ disks # <<>> /\ Finalized(d, e, first) = Stages(disks, e, e1)
                 /\ Saved(Last(disks), e1) \in S /\ EngineInv(Saved(Last(disks), e1), e1)
  <1> DEFINE S == Good(disk, acked, started)
             e1 == WithJob(e, [Job EXCEPT !.phase = "succeeded"])
             t == Job.target
             source == Job.source
             d1 == IF t = Legacy THEN d ELSE [d EXCEPT !.manifest[t].state = "active"]
             m == [state |-> "retained", digest |-> Job.digest, revision |-> d1.revision]
             d2 == IF source = Legacy \/ d1.manifest[source] = NoManifest THEN d1
                   ELSE [d1 EXCEPT !.manifest[source] = m]
             removal == IF Job.retain \/ d2.store[source] = "absent" THEN <<>>
                        ELSE Removed(d2, source, first)
             all == <<d, d1, d2>> \o removal
             Ends(z) == /\ z \in S /\ z.journal = disk.journal
                        /\ z.pointer = t /\ z.pending = {}
                        /\ IF source = Legacy THEN Job.retain \/ z.store[Legacy] = "absent"
                           ELSE IF Job.retain
                           THEN z.manifest[source] = [state |-> "retained",
                                     digest |-> Job.digest, revision |-> z.revision]
                           ELSE z.manifest[source] = NoManifest
  <1>1. Job.phase \notin Terminal
    BY DEF Terminal
  <1>2. /\ Job \in JobType /\ Running(disk.journal) /\ Job = disk.journal.current
        /\ t \in All /\ source \in All
    BY <1>1, JobBegins
  <1>3. /\ d \in DiskType /\ DiskInv(d, acked, started) /\ JobInv(d, Job)
    BY <1>2 DEF Good, DiskInv
  <1>4. /\ source # t /\ (t \in Gens => d.manifest[t] # NoManifest)
        /\ d.store[source] = "absent" =>
             /\ d.docs[source] = Empty
             /\ source \in Gens => d.manifest[source] = NoManifest
    <2>1. source # t /\ (t \in Gens => d.manifest[t] # NoManifest)
      BY <1>3 DEF JobInv
    <2>2. d.store[source] = "absent" =>
             /\ d.docs[source] = Empty
             /\ source \in Gens => d.manifest[source] = NoManifest
      BY <1>2, <1>3 DEF DiskInv
    <2> QED
      BY <2>1, <2>2
  <1>5. /\ OnlyOf(t, d, d1) /\ d1.store = d.store /\ d1.docs = d.docs
        /\ t \in Gens => d1.manifest[t] # NoManifest
    <2>1. CASE t = Legacy
      <3>1. d1 = d /\ t \notin Gens
        BY <2>1, SwitchConstants
      <3> HIDE DEF d1
      <3> QED
        BY <1>3, <3>1 DEF OnlyOf, SameBut
    <2>2. CASE t # Legacy
      <3>1. t \in Gens /\ d1 = [d EXCEPT !.manifest[t].state = "active"]
        BY <1>2, <2>2 DEF All
      <3> HIDE DEF d1
      <3>2. \E w \in ManifestType : w # NoManifest /\ d1 = SetManifest(d, t, w)
        <4>1. d.manifest[t] # NoManifest /\ d \in DiskType
          BY <1>3, <1>4, <3>1
        <4> HIDE DEF t
        <4> QED
          BY <3>1, <4>1, StateSet
      <3>3. PICK w \in ManifestType : w # NoManifest /\ d1 = SetManifest(d, t, w)
        BY <3>2
      <3>4. OnlyOf(t, d, d1) /\ d1.manifest[t] = w /\ d1.store = d.store /\ d1.docs = d.docs
        <4>1. /\ w \in ManifestType \cup {NoManifest} /\ d \in DiskType
              /\ t \in Gens /\ d1 = SetManifest(d, t, w)
          BY <1>3, <3>1, <3>3
        <4> HIDE DEF t
        <4> QED
          BY <4>1, OnlyManifest
      <3> QED
        BY <3>3, <3>4
    <2> QED
      BY <2>1, <2>2
  <1>6. d1 \in DiskType /\ SameBut(d, d1) /\ d1.revision = d.revision
    BY <1>5 DEF OnlyOf, SameBut
  <1>7. /\ OnlyOf(source, d1, d2) /\ d2.store = d.store /\ d2.docs = d.docs
        /\ source \in Gens =>
             \/ d2.manifest[source] = NoManifest /\ d.manifest[source] = NoManifest
             \/ d2.manifest[source] = m /\ d.manifest[source] # NoManifest
    <2>1. source \in Gens => d1.manifest[source] = d.manifest[source]
      BY <1>4, <1>5 DEF OnlyOf
    <2> HIDE DEF d1
    <2>2. CASE source = Legacy \/ d1.manifest[source] = NoManifest
      <3>1. d2 = d1
        BY <2>2
      <3>2. source \in Gens => d1.manifest[source] = NoManifest
        BY <2>2, SwitchConstants
      <3> HIDE DEF d2
      <3> QED
        BY <1>5, <1>6, <2>1, <3>1, <3>2 DEF OnlyOf, SameBut
    <2>3. CASE source # Legacy /\ d1.manifest[source] # NoManifest
      <3>1. source \in Gens /\ d2 = SetManifest(d1, source, m)
        BY <1>2, <2>3 DEF All, SetManifest
      <3>2. m \in ManifestType \cup {NoManifest} /\ d1 \in DiskType
        BY <1>2, <1>3, <1>6 DEF JobType, ManifestType, DiskType
      <3> HIDE DEF d2, m
      <3>3. OnlyOf(source, d1, d2) /\ d2.manifest[source] = m /\ d2.store = d1.store
            /\ d2.docs = d1.docs
        <4> HIDE DEF source
        <4> QED
          BY <3>1, <3>2, OnlyManifest
      <3> QED
        BY <1>5, <2>1, <2>3, <3>3
    <2> QED
      BY <2>2, <2>3
  <1>8. d2 \in DiskType /\ SameBut(d, d2) /\ d2.revision = d.revision
    BY <1>6, <1>7 DEF OnlyOf, SameBut
  <1>9. m.revision = d.revision /\ m = [state |-> "retained", digest |-> Job.digest,
                                        revision |-> d.revision]
    BY <1>6
  <1> HIDE DEF d1, d2, m
  <1>10. SourceOnly(d, Job, d) /\ SourceOnly(d, Job, d1)
    BY <1>4, <1>5 DEF SourceOnly, OnlyOf
  <1>11. SourceOnly(d, Job, d2)
    <2>1. t \in Gens => d2.manifest[t] # NoManifest
      BY <1>4, <1>5, <1>7 DEF OnlyOf
    <2>2. \A g \in Gens : g \notin {source, t} => d2.manifest[g] = d.manifest[g]
      BY <1>5, <1>7 DEF OnlyOf
    <2>3. d2.store[source] = "absent" =>
             /\ d2.docs[source] = Empty
             /\ source \in Gens => d2.manifest[source] = NoManifest
      BY <1>4, <1>7
    <2> QED
      BY <1>7, <2>1, <2>2, <2>3 DEF SourceOnly
  <1>12. /\ d \in S
         /\ d1 \in S
         /\ d2 \in S /\ d2.journal = disk.journal /\ d2.pointer = t /\ d2.pending = {}
    BY <1>1, <1>6, <1>8, <1>10, <1>11, SourceGood
  <1>13. Finalized(d, e, first) = Stages(all, e, e1)
    BY DEF Finalized, d1, d2, m
  <1>14. CASE Job.retain \/ d2.store[source] = "absent"
    <2>1. all = <<d, d1, d2>> \o <<>>
      BY <1>14
    <2>2. Ends(d2)
      <3>1. CASE source = Legacy
        BY <1>12, <1>14, <3>1
      <3>2. CASE source # Legacy /\ Job.retain
        <4>1. source \in Gens /\ d.manifest[source] # NoManifest
          BY <1>2, <3>2 DEF All, Finalizes
        <4>2. d2.manifest[source] = m
          BY <1>7, <4>1
        <4> QED
          BY <1>8, <1>9, <1>12, <3>2, <4>2
      <3>3. CASE source # Legacy /\ ~Job.retain
        <4>1. source \in Gens /\ d.store[source] = "absent"
          BY <1>2, <1>7, <1>14, <3>3 DEF All
        <4>2. d.manifest[source] = NoManifest
          BY <1>4, <4>1
        <4> QED
          BY <1>7, <1>12, <3>3, <4>1, <4>2
      <3> QED
        BY <3>1, <3>2, <3>3
    <2> HIDE DEF S, all
    <2>3. all \in Seq(S) /\ all # <<>> /\ Last(all) = d2
      BY <1>12, <2>1 DEF Last
    <2> HIDE DEF e1
    <2>4. Saved(d2, e1) \in S /\ EngineInv(Saved(d2, e1), e1)
      <3>1. Ends(d2) /\ e1 = WithJob(e, [Job EXCEPT !.phase = "succeeded"])
        BY <2>2 DEF e1
      <3> QED
        BY <3>1, SucceededOn DEF S
    <2> QED
      BY <1>13, <2>3, <2>4 DEF S, e1
  <1>15. CASE ~Job.retain /\ d2.store[source] # "absent"
    <2>1. PICK a, b :
              /\ Removed(d2, source, first) = <<a, b>>
              /\ OnlyOf(source, d2, a) /\ OnlyOf(source, d2, b)
              /\ a.store[source] # "absent"
              /\ b.store[source] = "absent" /\ b.docs[source] = Empty
              /\ source \in Gens => b.manifest[source] = NoManifest
      <3> HIDE DEF source
      <3> QED
        BY <1>2, <1>8, RemovedFiles
    <2>2. all = <<d, d1, d2>> \o <<a, b>>
      BY <1>15, <2>1
    <2>3. /\ a \in DiskType /\ SameBut(d, a)
          /\ b \in DiskType /\ SameBut(d, b)
      BY <1>8, <2>1 DEF OnlyOf, SameBut
    <2>4. SourceOnly(d, Job, a) /\ SourceOnly(d, Job, b)
      <3>1. t \in Gens => a.manifest[t] # NoManifest /\ b.manifest[t] # NoManifest
        BY <1>4, <1>5, <1>7, <2>1 DEF OnlyOf
      <3>2. \A g \in Gens : g \notin {source, t} =>
               a.manifest[g] = d.manifest[g] /\ b.manifest[g] = d.manifest[g]
        BY <1>5, <1>7, <2>1 DEF OnlyOf
      <3>3. \A g \in All : g # source =>
               /\ a.store[g] = d.store[g] /\ a.docs[g] = d.docs[g]
               /\ b.store[g] = d.store[g] /\ b.docs[g] = d.docs[g]
        BY <1>7, <2>1 DEF OnlyOf
      <3> QED
        BY <1>15, <2>1, <3>1, <3>2, <3>3 DEF SourceOnly
    <2>5. /\ a \in S
          /\ b \in S /\ b.journal = disk.journal /\ b.pointer = t /\ b.pending = {}
      BY <1>1, <2>3, <2>4, SourceGood
    <2>6. Ends(b)
      <3>1. source # Legacy => source \in Gens
        BY <1>2 DEF All
      <3> QED
        BY <1>15, <2>1, <2>5, <3>1
    <2> HIDE DEF S, all
    <2>7. all \in Seq(S) /\ all # <<>> /\ Last(all) = b
      BY <1>12, <2>2, <2>5 DEF Last
    <2> HIDE DEF e1
    <2>8. Saved(b, e1) \in S /\ EngineInv(Saved(b, e1), e1)
      <3>1. Ends(b) /\ e1 = WithJob(e, [Job EXCEPT !.phase = "succeeded"])
        BY <2>6 DEF e1
      <3> QED
        BY <3>1, SucceededOn DEF S
    <2> QED
      BY <1>13, <2>7, <2>8 DEF S, e1
  <1> QED
    BY <1>14, <1>15

\* The commit turns the engine to the target.
LEMMA TurnedEngine ==
    ASSUME Calm, Open, Job.target \in All
    PROVE  LET e == [Dropped(Loaded(engine)) EXCEPT
                       !.active = Job.target, !.serving = Job.target,
                       !.embedder = ProfileOf[Job.target]]
           IN /\ e \in EngineType /\ e.journal = disk.journal
              /\ e.active = Job.target /\ e.serving = Job.target
              /\ e.embedder = ProfileOf[Job.target]
  <1> DEFINE t == Job.target
             e == [Dropped(Loaded(engine)) EXCEPT
                      !.active = t, !.serving = t, !.embedder = ProfileOf[t]]
  <1>1. /\ engine \in EngineType /\ engine.journal = disk.journal
    BY HandlerBegins
  <1>2. /\ engine.embedder \in Profiles \cup {None} /\ engine.active \in All
        /\ engine.serving \in All /\ engine.journal \in JournalType
        /\ engine = [active |-> engine.active, serving |-> engine.serving,
                     embedder |-> engine.embedder, target |-> engine.target,
                     journal |-> engine.journal]
    BY <1>1 DEF EngineType
  <1>3. \E b : Dropped(Loaded(engine)) = [engine EXCEPT !.target = FALSE, !.embedder = b]
    <2>1. CASE Job.downtime
      <3>1. Dropped(Loaded(engine)) = [[engine EXCEPT !.target = TRUE, !.embedder = None]
                                          EXCEPT !.target = FALSE]
        BY <2>1 DEF Dropped, Loaded
      <3>2. Dropped(Loaded(engine)) = [engine EXCEPT !.target = FALSE, !.embedder = None]
        BY <1>2, <3>1
      <3> QED
        BY <3>2
    <2>2. CASE ~Job.downtime
      <3>1. Dropped(Loaded(engine)) = [[engine EXCEPT !.target = TRUE, !.embedder = engine.embedder]
                                          EXCEPT !.target = FALSE]
        BY <2>2 DEF Dropped, Loaded
      <3>2. Dropped(Loaded(engine))
              = [engine EXCEPT !.target = FALSE, !.embedder = engine.embedder]
        BY <1>2, <3>1
      <3> QED
        BY <3>2
    <2> QED
      BY <2>1, <2>2
  <1>4. PICK b : Dropped(Loaded(engine)) = [engine EXCEPT !.target = FALSE, !.embedder = b]
    BY <1>3
  <1>5. e = [[engine EXCEPT !.target = FALSE, !.embedder = b]
                EXCEPT !.active = t, !.serving = t, !.embedder = ProfileOf[t]]
    BY <1>4
  <1>6. e = [active |-> t, serving |-> t, embedder |-> ProfileOf[t], target |-> FALSE,
             journal |-> engine.journal]
    <2> HIDE DEF e
    <2>1. e = [engine EXCEPT !.target = FALSE, !.active = t, !.serving = t,
                             !.embedder = ProfileOf[t]]
      BY <1>2, <1>5
    <2> QED
      BY <1>2, <2>1
  <1>7. ProfileOf[t] \in Profiles
    BY DEF Profiles
  <1> HIDE DEF e
  <1> QED
    BY <1>1, <1>2, <1>6, <1>7 DEF EngineType, e

LEMMA CommittingSafe ==
    ASSUME Calm, faults' = 0, StepCommitting
    PROVE  Safe
  <1> DEFINE S == Good(disk, acked, started)
             t == Job.target
             d == [disk EXCEPT !.pointer = t]
             taken == Dropped(Loaded(engine))
             e == [taken EXCEPT !.active = t, !.serving = t, !.embedder = ProfileOf[t]]
             k == [Job EXCEPT !.phase = "succeeded"]
  <1>1. /\ Open /\ Job.phase = "committing" /\ ~Job.cancel_requested
        /\ UNCHANGED <<acked, started>>
    BY DEF StepCommitting, InPhase
  <1>2. Job.phase \notin Terminal
    BY <1>1 DEF Terminal
  <1>3. /\ disk \in S /\ disk \in DiskType /\ disk.pending = {} /\ t \in All
        /\ Running(disk.journal) /\ Job = disk.journal.current
        /\ engine.active = disk.pointer /\ engine.serving = disk.pointer
        /\ engine.embedder \in {None, ProfileOf[disk.pointer]}
        /\ engine \in EngineType /\ engine.journal = disk.journal
    BY <1>1, <1>2, JobBegins, HandlerBegins
  <1>4. \/ Errs
        \/ /\ engine.active = t /\ Finalizes(disk)
           /\ \E first \in BOOLEAN : Runs(Finalized(disk, engine, first))
        \/ /\ engine.active # t /\ Finalizes(d)
           /\ \E first \in BOOLEAN : Runs(<<Stage(disk, taken)>> \o Finalized(d, e, first))
    BY DEF StepCommitting
  <1>5. CASE Errs
    BY <1>1, <1>2, <1>5, JobBegins, Erred
  <1>6. ASSUME engine.active = t, Finalizes(disk), NEW first \in BOOLEAN,
               Runs(Finalized(disk, engine, first))
        PROVE  Safe
    <2> DEFINE e1 == WithJob(engine, k)
    <2>1. \E disks \in Seq(S) :
             /\ disks # <<>> /\ Finalized(disk, engine, first) = Stages(disks, engine, e1)
             /\ Saved(Last(disks), e1) \in S /\ EngineInv(Saved(Last(disks), e1), e1)
      BY <1>1, <1>3, <1>6, FinalizedGood
    <2> HIDE DEF S, e1
    <2>2. PICK disks \in Seq(S) :
             /\ disks # <<>> /\ Finalized(disk, engine, first) = Stages(disks, engine, e1)
             /\ Saved(Last(disks), e1) \in S /\ EngineInv(Saved(Last(disks), e1), e1)
      BY <2>1
    <2>3. Runs(Stages(disks, engine, e1))
      BY <1>6, <2>2
    <2> QED
      BY <1>1, <2>2, <2>3, Handled DEF S
  <1>7. ASSUME engine.active # t, Finalizes(d), NEW first \in BOOLEAN,
               Runs(<<Stage(disk, taken)>> \o Finalized(d, e, first))
        PROVE  Safe
    <2> DEFINE e1 == WithJob(e, k)
    <2>1. d \in S /\ d.journal = disk.journal /\ d.pointer = t /\ d.pending = {}
      <3>1. DiskInv(disk, acked, started) /\ started \in Nat
        BY DEF Calm
      <3>2. /\ d.journal = disk.journal /\ d.pointer = t /\ d.pending = {}
        BY <1>3 DEF DiskType
      <3>3. d \in DiskType /\ DiskInv(d, acked, started) /\ Follows(disk, d)
        <4>1. d = [disk EXCEPT !.pointer = t]
          OBVIOUS
        <4> HIDE DEF d
        <4> QED
          BY <1>1, <1>3, <3>1, <4>1, PointerInstalled
      <3> QED
        BY <3>2, <3>3 DEF Good
    <2>2. /\ e \in EngineType /\ e.journal = disk.journal
          /\ e.active = t /\ e.serving = t /\ e.embedder = ProfileOf[t]
      BY <1>1, <1>3, TurnedEngine
    <2> HIDE DEF d, e, taken
    <2>3. \E disks \in Seq(S) :
             /\ disks # <<>> /\ Finalized(d, e, first) = Stages(disks, e, e1)
             /\ Saved(Last(disks), e1) \in S /\ EngineInv(Saved(Last(disks), e1), e1)
      BY <1>1, <1>7, <2>1, <2>2, FinalizedGood
    <2> HIDE DEF S, e1
    <2>4. PICK disks \in Seq(S) :
             /\ disks # <<>> /\ Finalized(d, e, first) = Stages(disks, e, e1)
             /\ Saved(Last(disks), e1) \in S /\ EngineInv(Saved(Last(disks), e1), e1)
      BY <2>3
    <2> DEFINE stages == <<Stage(disk, taken)>> \o Stages(disks, e, e1)
    <2>5. Completes(stages) \/ Crashes(stages)
      <3>1. Runs(stages)
        BY <1>7, <2>4
      <3>2. ~Fails(stages, TRUE)
        BY FailsCost DEF Calm
      <3> QED
        BY <3>1, <3>2 DEF Runs
    <2>6. \/ disk' = Saved(Last(disks), e1) /\ engine' = e1 /\ failing' = FALSE
          \/ disk' \in S /\ engine' = Closed /\ failing' = FALSE
      <3>1. disk \in S
        BY <1>3
      <3>2. stages = <<Stage(disk, taken)>> \o Stages(disks, e, e1)
        OBVIOUS
      <3> HIDE DEF stages
      <3> QED
        BY <2>4, <2>5, <3>1, <3>2, CommitEnd
    <2> QED
      BY <1>1, <2>4, <2>6 DEF Safe, S, FailingInv
  <1> QED
    BY <1>4, <1>5, <1>6, <1>7
-----------------------------------------------------------------------------
(***************************************************************************)
(* Mutations, searches and the recovery.                                   *)
(***************************************************************************)

\* Only the memories of the generation that serves change, and not while a
\* switch runs.
MemoriesOnly(d, x) ==
    /\ x.pointer = d.pointer /\ x.journal = d.journal /\ x.manifest = d.manifest
    /\ x.store = d.store
    /\ \A g \in All : g # d.pointer => x.docs[g] = d.docs[g]
    /\ \A i \in Ids : (\A p \in x.pending : p[1] # i) => x.docs[d.pointer][i] = x.content[i]
    /\ Running(d.journal) =>
         x.docs = d.docs /\ x.content = d.content /\ x.pending = {}
    /\ \/ d.revision < x.revision
       \/ /\ x.revision = d.revision /\ x.pending = {}
          /\ d.pending = {} => x.docs = d.docs /\ x.content = d.content

LEMMA MemoriesChanged ==
    ASSUME NEW d, NEW acks, NEW n \in Nat, DiskInv(d, acks, n),
           NEW x \in DiskType, MemoriesOnly(d, x)
    PROVE  DiskInv(x, acks, n) /\ Follows(d, x)
  <1>1. d \in DiskType /\ d.revision \in Nat /\ x.revision \in Nat /\ d.pointer \in All
    BY DiskFields DEF DiskInv
  <1>2. /\ x.pointer = d.pointer /\ x.journal = d.journal /\ x.manifest = d.manifest
        /\ x.store = d.store
    BY DEF MemoriesOnly
  <1>3. Running(x.journal) => JobInv(x, x.journal.current)
    <2>1. ASSUME Running(d.journal)
          PROVE  JobInv(x, x.journal.current)
      <3>1. JobInv(d, d.journal.current) /\ x.docs = d.docs /\ x.content = d.content
        BY <2>1 DEF DiskInv, MemoriesOnly
      <3> QED
        BY <1>2, <3>1 DEF JobInv
    <2> QED
      BY <1>2, <2>1
  <1>4. ASSUME NEW g \in Gens
        PROVE  Excused(g, x) \/ Kept(g, x)
    <2>1. CASE Excused(g, d)
      BY <1>2, <2>1 DEF Excused
    <2>2. CASE ~Excused(g, d)
      <3>1. Kept(g, d) /\ g # d.pointer
        BY <2>2 DEF DiskInv, Excused
      <3>2. x.docs[g] = d.docs[g] /\ x.store[g] = d.store[g] /\ x.manifest[g] = d.manifest[g]
        BY <1>2, <3>1 DEF MemoriesOnly, All
      <3>3. CASE d.manifest[g].state \in {"retained", "complete"}
        <4>1. d.manifest[g] \in ManifestType
          <5>1. d.manifest[g] \in ManifestType \cup {NoManifest}
            BY <1>1 DEF DiskType
          <5> QED
            BY <3>3, <5>1 DEF NoManifest, None
        <4>2. d.manifest[g].revision \in Nat
          BY <4>1 DEF ManifestType
        <4>3. CASE d.revision < x.revision
          BY <1>1, <3>1, <3>2, <4>2, <4>3 DEF Kept
        <4>4. CASE /\ x.revision = d.revision /\ x.pending = {}
                   /\ d.pending = {} => x.docs = d.docs /\ x.content = d.content
          BY <1>1, <3>1, <3>2, <4>2, <4>4 DEF Kept
        <4> QED
          BY <4>3, <4>4 DEF MemoriesOnly
      <3>4. CASE d.manifest[g].state \notin {"retained", "complete"}
        BY <3>2, <3>4 DEF Kept
      <3> QED
        BY <3>3, <3>4
    <2> QED
      BY <2>1, <2>2
  <1>5. LegacyKept(x)
    <2>1. LegacyKept(d)
      BY DEF DiskInv
    <2>2. d.pointer # Legacy => x.docs[Legacy] = d.docs[Legacy]
      BY DEF MemoriesOnly, All
    <2> QED
      BY <1>2, <2>1, <2>2 DEF LegacyKept
  <1>6. Retained(x)
    BY <1>2 DEF DiskInv, Retained
  <1>7. \A g \in All : x.store[g] = "absent" => x.docs[g] = Empty
    <2>1. ASSUME NEW g \in All, x.store[g] = "absent"
          PROVE  x.docs[g] = Empty
      <3>1. g # d.pointer /\ d.docs[g] = Empty
        BY <1>2, <2>1 DEF DiskInv
      <3> QED
        BY <3>1 DEF MemoriesOnly
    <2> QED
      BY <2>1
  <1>8. \A g \in Gens : x.store[g] = "absent" => x.manifest[g] = NoManifest
    BY <1>2 DEF DiskInv
  <1>9. /\ JournalInv(x.journal, acks, n) /\ x.store[x.pointer] = "sealed"
        /\ \A i \in Ids : (\A p \in x.pending : p[1] # i) => x.docs[x.pointer][i] = x.content[i]
        /\ x.pending # {} => ~Running(x.journal)
    BY <1>2 DEF DiskInv, MemoriesOnly
  <1>10. Follows(d, x)
    BY <1>2 DEF Follows, MemoriesOnly
  <1> QED
    BY <1>3, <1>4, <1>5, <1>6, <1>7, <1>8, <1>9, <1>10 DEF DiskInv

SetMemories(d, r, c, docs, pending) ==
    [d EXCEPT !.revision = r, !.content = c, !.docs = docs, !.pending = pending]

LEMMA MemoriesSet ==
    ASSUME NEW d \in DiskType, NEW r \in Nat, NEW c \in Content, NEW docs \in [All -> Content],
           NEW pending \in SUBSET (Ids \X Versions), NEW x, x = SetMemories(d, r, c, docs, pending)
    PROVE  /\ x \in DiskType
           /\ x.pointer = d.pointer /\ x.journal = d.journal
           /\ x.manifest = d.manifest /\ x.store = d.store
           /\ x.docs = docs /\ x.content = c /\ x.pending = pending /\ x.revision = r
  <1>1. x = [pointer |-> d.pointer, journal |-> d.journal, manifest |-> d.manifest,
             store |-> d.store, docs |-> docs, content |-> c, revision |-> r,
             pending |-> pending]
    BY DEF DiskType, SetMemories
  <1>2. /\ d.pointer \in All /\ d.journal \in JournalType
        /\ d.manifest \in [Gens -> ManifestType \cup {NoManifest}]
        /\ d.store \in [All -> {"absent", "unsealed", "hollow", "sealed"}]
    BY DEF DiskType
  <1>3. x \in DiskType
    BY <1>1, <1>2 DEF DiskType
  <1> QED
    BY <1>1, <1>3

\* A search counts what it returned.
LEMMA SearchSafe ==
    ASSUME Calm, Search
    PROVE  Safe
  <1>1. /\ Open /\ ~failing /\ disk' = [disk EXCEPT !.revision = @ + 1]
        /\ UNCHANGED <<engine, failing, acked, started>>
    BY DEF Search
  <1>2. disk \in DiskType /\ disk.pending = {} /\ disk.revision \in Nat
    BY <1>1, HandlerBegins, DiskFields
  <1>3. /\ disk' \in DiskType
        /\ disk'.pointer = disk.pointer /\ disk'.journal = disk.journal
        /\ disk'.manifest = disk.manifest /\ disk'.store = disk.store
        /\ disk'.docs = disk.docs /\ disk'.content = disk.content
        /\ disk'.pending = disk.pending /\ disk'.revision = disk.revision + 1
    BY <1>1, <1>2 DEF DiskType
  <1>4. DiskInv(disk, acked, started) /\ started \in Nat /\ EngineInv(disk, engine)
    BY <1>1 DEF Calm
  <1>5. MemoriesOnly(disk, disk')
    BY <1>2, <1>3, <1>4 DEF MemoriesOnly, DiskInv
  <1>6. disk' \in Good(disk, acked, started)
    BY <1>3, <1>4, <1>5, MemoriesChanged DEF Good
  <1>7. EngineInv(disk', engine')
    BY <1>1, <1>3, <1>4 DEF EngineInv
  <1> QED
    BY <1>1, <1>6, <1>7 DEF Safe, FailingInv

\* A mutation changes a memory and its document alike.
LEMMA MutateSafe ==
    ASSUME Calm, NEW i \in Ids, NEW v \in Versions, Mutate(i, v)
    PROVE  Safe
  <1> DEFINE g == disk.pointer
             c == [disk.content EXCEPT ![i] = v]
             docs == [disk.docs EXCEPT ![g] = [disk.docs[g] EXCEPT ![i] = v]]
  <1>1. /\ Open /\ ~failing /\ ~Frozen
        /\ disk' = [disk EXCEPT !.revision = @ + 1, !.content[i] = v,
                                !.docs[engine.serving][i] = v]
        /\ UNCHANGED <<engine, failing, acked, started>>
    BY DEF Mutate, MayMutate
  <1>2. /\ disk \in DiskType /\ disk.pending = {} /\ disk.revision \in Nat /\ g \in All
        /\ engine.serving = g /\ ~Running(disk.journal)
        /\ disk.docs \in [All -> Content] /\ disk.content \in Content
    BY <1>1, HandlerBegins, DiskFields
  <1>3. c \in Content /\ docs \in [All -> Content]
    BY <1>2 DEF Content
  <1>4. disk' = SetMemories(disk, disk.revision + 1, c, docs, disk.pending)
    BY <1>1, <1>2 DEF DiskType, SetMemories
  <1> HIDE DEF c, docs
  <1>5. /\ disk' \in DiskType
        /\ disk'.pointer = disk.pointer /\ disk'.journal = disk.journal
        /\ disk'.manifest = disk.manifest /\ disk'.store = disk.store
        /\ disk'.docs = docs /\ disk'.content = c
        /\ disk'.pending = disk.pending /\ disk'.revision = disk.revision + 1
    <2>1. disk.revision + 1 \in Nat /\ disk.pending \in SUBSET (Ids \X Versions)
      BY <1>2 DEF DiskType
    <2> QED
      BY <1>2, <1>3, <1>4, <2>1, MemoriesSet
  <1>6. DiskInv(disk, acked, started) /\ started \in Nat /\ EngineInv(disk, engine)
    BY <1>1 DEF Calm
  <1>7. \A j \in Ids : docs[g][j] = c[j]
    <2>1. \A j \in Ids : disk.docs[g][j] = disk.content[j]
      BY <1>2, <1>6 DEF DiskInv
    <2> QED
      BY <1>2, <2>1 DEF c, docs, Content
  <1>8. \A h \in All : h # g => docs[h] = disk.docs[h]
    BY <1>2 DEF docs
  <1>9. MemoriesOnly(disk, disk')
    BY <1>2, <1>5, <1>7, <1>8 DEF MemoriesOnly
  <1>10. disk' \in Good(disk, acked, started)
    BY <1>5, <1>6, <1>9, MemoriesChanged DEF Good
  <1>11. EngineInv(disk', engine')
    BY <1>1, <1>5, <1>6 DEF EngineInv
  <1> QED
    BY <1>1, <1>10, <1>11 DEF Safe, FailingInv

\* A crash leaves the mutation in the journal of state.json.
LEMMA MutateJournaledSafe ==
    ASSUME Calm, faults' = 0, NEW i \in Ids, NEW v \in Versions, MutateJournaled(i, v)
    PROVE  Safe
  <1> DEFINE g == disk.pointer
  <1>1. /\ Open /\ ~failing /\ ~Frozen /\ disk.pending = {}
        /\ UNCHANGED <<failing, acked, started>>
    BY DEF MutateJournaled, MayMutate
  <1>2. engine' = Closed
    BY DEF MutateJournaled, Calm
  <1>3. PICK written \in BOOLEAN :
           disk' = [disk EXCEPT !.revision = @ + 1, !.pending = {<<i, v>>},
                       !.docs[engine.serving][i] = IF written THEN v ELSE @]
    BY DEF MutateJournaled
  <1>4. /\ disk \in DiskType /\ disk.revision \in Nat /\ g \in All
        /\ engine.serving = g /\ ~Running(disk.journal)
        /\ disk.docs \in [All -> Content] /\ disk.content \in Content
    BY <1>1, HandlerBegins, DiskFields
  <1> DEFINE w == IF written THEN v ELSE disk.docs[g][i]
             docs == [disk.docs EXCEPT ![g] = [disk.docs[g] EXCEPT ![i] = w]]
             pending == {<<i, v>>}
  <1>5. docs \in [All -> Content] /\ pending \in SUBSET (Ids \X Versions)
    BY <1>4 DEF Content
  <1>6. disk' = SetMemories(disk, disk.revision + 1, disk.content, docs, pending)
    BY <1>3, <1>4 DEF DiskType, SetMemories
  <1>7. \A j \in Ids : j # i => docs[g][j] = disk.content[j]
    <2>1. \A j \in Ids : disk.docs[g][j] = disk.content[j]
      BY <1>1 DEF Calm, DiskInv
    <2> QED
      BY <1>4, <2>1 DEF Content
  <1>8. \A h \in All : h # g => docs[h] = disk.docs[h]
    BY <1>4
  <1>9. \A j \in Ids : (\A p \in pending : p[1] # j) => j # i
    OBVIOUS
  <1> HIDE DEF docs, w, pending
  <1>10. /\ disk' \in DiskType
         /\ disk'.pointer = disk.pointer /\ disk'.journal = disk.journal
         /\ disk'.manifest = disk.manifest /\ disk'.store = disk.store
         /\ disk'.docs = docs /\ disk'.content = disk.content
         /\ disk'.pending = pending /\ disk'.revision = disk.revision + 1
    <2>1. disk.revision + 1 \in Nat
      BY <1>4
    <2> QED
      BY <1>4, <1>5, <1>6, <2>1, MemoriesSet
  <1>11. DiskInv(disk, acked, started) /\ started \in Nat
    BY DEF Calm
  <1>12. MemoriesOnly(disk, disk')
    BY <1>4, <1>7, <1>8, <1>9, <1>10 DEF MemoriesOnly
  <1>13. disk' \in Good(disk, acked, started)
    BY <1>10, <1>11, <1>12, MemoriesChanged DEF Good
  <1> QED
    BY <1>1, <1>2, <1>13 DEF Safe, FailingInv

\* What was journaled of a mutation is recovered when the engine is opened.
Newest(i, old) ==
    IF \E v \in Versions : <<i, v>> \in disk.pending
    THEN (CHOOSE p \in disk.pending : p[1] = i)[2] ELSE old

LEMMA NewestFacts ==
    ASSUME disk \in DiskType, NEW i \in Ids
    PROVE  /\ (\A p \in disk.pending : p[1] # i) => \A old : Newest(i, old) = old
           /\ ~(\A p \in disk.pending : p[1] # i) =>
                 \E v \in Versions : \A old : Newest(i, old) = v
           /\ \A old \in Versions : Newest(i, old) \in Versions
  <1>1. disk.pending \in SUBSET (Ids \X Versions)
    BY DEF DiskType
  <1>2. ASSUME \A p \in disk.pending : p[1] # i
        PROVE  \A old : Newest(i, old) = old
    <2>1. \A v \in Versions : <<i, v>> \notin disk.pending
      BY <1>2
    <2> QED
      BY <2>1 DEF Newest
  <1>3. ASSUME NEW p \in disk.pending, p[1] = i
        PROVE  \E v \in Versions : \A old : Newest(i, old) = v
    <2>1. p = <<i, p[2]>> /\ p[2] \in Versions
      BY <1>1, <1>3
    <2> DEFINE q == CHOOSE r \in disk.pending : r[1] = i
    <2>2. q \in disk.pending
      BY <1>3
    <2>3. q[2] \in Versions
      BY <1>1, <2>2
    <2>4. \A old : Newest(i, old) = q[2]
      BY <2>1 DEF Newest
    <2> QED
      BY <2>3, <2>4
  <1> QED
    BY <1>2, <1>3

LEMMA OpenSafe ==
    ASSUME Calm, OpenEngine
    PROVE  Safe
  <1> DEFINE g == disk.pointer
             S == Good(disk, acked, started)
             docs == [disk.docs EXCEPT ![g] = [i \in Ids |-> Newest(i, disk.docs[g][i])]]
             c == [i \in Ids |-> Newest(i, disk.content[i])]
             opened == [active |-> g, serving |-> g, embedder |-> ProfileOf[g],
                        target |-> FALSE, journal |-> disk.journal]
             x == SetMemories(disk, disk.revision, c, docs, {})
  <1>1. ~Open /\ UNCHANGED <<acked, started>>
    BY DEF OpenEngine
  <1>2. ~failing
    BY <1>1 DEF Calm, FailingInv
  <1>3. DiskInv(disk, acked, started) /\ started \in Nat
    BY DEF Calm
  <1>4. /\ disk \in DiskType /\ g \in All /\ disk.revision \in Nat /\ disk.journal \in JournalType
        /\ disk.docs \in [All -> Content] /\ disk.content \in Content
        /\ disk.pending \in SUBSET (Ids \X Versions)
    BY <1>3, DiskFields DEF DiskInv
  <1>5. disk.store[g] = "sealed" /\ created(g) = <<disk>> /\ Last(<<disk>>) = disk
    BY <1>3 DEF DiskInv, created, Last
  <1>6. \/ disk' = x /\ engine' = opened /\ UNCHANGED failing
        \/ Crashes(Stages(<<disk>>, Closed, opened))
    <2>1. [disk EXCEPT !.docs[g] = [i \in Ids |-> Newest(i, disk.docs[g][i])],
                       !.content = [i \in Ids |-> Newest(i, disk.content[i])],
                       !.pending = {}] = x
      BY <1>4 DEF DiskType, SetMemories
    <2>2. \/ /\ disk' = [Last(created(g)) EXCEPT
                             !.docs[g] = [i \in Ids |-> Newest(i, @[i])],
                             !.content = [i \in Ids |-> Newest(i, @[i])],
                             !.pending = {}]
             /\ engine' = opened /\ UNCHANGED failing
          \/ Crashes(Stages(created(g), Closed, opened))
      BY DEF OpenEngine, Newest
    <2>3. Last(created(g)) = disk
      BY <1>5
    <2> HIDE DEF x, opened
    <2> QED
      BY <1>5, <2>1, <2>2, <2>3
  <1>7. c \in Content /\ docs \in [All -> Content]
    <2>1. \A i \in Ids : disk.docs[g][i] \in Versions /\ disk.content[i] \in Versions
      BY <1>4 DEF Content
    <2>2. \A i \in Ids : /\ Newest(i, disk.docs[g][i]) \in Versions
                         /\ Newest(i, disk.content[i]) \in Versions
      BY <1>4, <2>1, NewestFacts
    <2>3. [i \in Ids |-> Newest(i, disk.docs[g][i])] \in Content /\ c \in Content
      BY <2>2 DEF Content
    <2> QED
      BY <1>4, <2>3
  <1>8. \A i \in Ids : docs[g][i] = c[i]
    <2>1. ASSUME NEW i \in Ids
          PROVE  Newest(i, disk.docs[g][i]) = Newest(i, disk.content[i])
      <3>1. CASE \A p \in disk.pending : p[1] # i
        <4>1. disk.docs[g][i] = disk.content[i]
          BY <1>3, <3>1 DEF DiskInv
        <4> QED
          BY <4>1
      <3>2. CASE ~(\A p \in disk.pending : p[1] # i)
        BY <1>4, <3>2, NewestFacts
      <3> QED
        BY <3>1, <3>2
    <2> QED
      BY <1>4, <2>1
  <1>9. disk.pending = {} => docs = disk.docs /\ c = disk.content
    <2>1. ASSUME disk.pending = {}, NEW i \in Ids
          PROVE  \A old : Newest(i, old) = old
      BY <1>4, <2>1, NewestFacts
    <2>2. ASSUME disk.pending = {}
          PROVE  c = disk.content
      BY <1>4, <2>1, <2>2 DEF Content
    <2>3. ASSUME disk.pending = {}
          PROVE  docs = disk.docs
      <3>1. disk.docs[g] \in [Ids -> Versions]
        BY <1>4 DEF Content
      <3>2. [i \in Ids |-> Newest(i, disk.docs[g][i])] = disk.docs[g]
        BY <2>1, <2>3, <3>1
      <3> QED
        BY <1>4, <3>2
    <2> QED
      BY <2>2, <2>3
  <1>10. \A h \in All : h # g => docs[h] = disk.docs[h]
    BY <1>4
  <1>11. opened \in EngineType
    BY <1>4 DEF EngineType, Profiles
  <1> HIDE DEF docs, c
  <1>12. /\ x \in DiskType
         /\ x.pointer = disk.pointer /\ x.journal = disk.journal
         /\ x.manifest = disk.manifest /\ x.store = disk.store
         /\ x.docs = docs /\ x.content = c /\ x.pending = {} /\ x.revision = disk.revision
    BY <1>4, <1>7, MemoriesSet
  <1> HIDE DEF x
  <1>13. MemoriesOnly(disk, x)
    <2>1. Running(disk.journal) => disk.pending = {}
      BY <1>3 DEF DiskInv
    <2> QED
      BY <1>8, <1>9, <1>10, <1>12, <2>1 DEF MemoriesOnly
  <1>14. x \in S
    BY <1>3, <1>12, <1>13, MemoriesChanged DEF Good
  <1>15. EngineInv(x, opened)
    BY <1>11, <1>12 DEF EngineInv
  <1>16. disk \in S
    BY <1>3, SameGood
  <1> HIDE DEF S, opened
  <1>17. CASE disk' = x /\ engine' = opened /\ UNCHANGED failing
    BY <1>1, <1>2, <1>14, <1>15, <1>17 DEF Safe, FailingInv, S
  <1>18. CASE Crashes(Stages(<<disk>>, Closed, opened))
    <2>1. <<disk>> \in Seq(S) /\ <<disk>> # <<>>
      BY <1>16, OneGood
    <2>2. disk' \in S /\ engine' = Closed /\ failing' = FALSE
      BY <1>18, <2>1, StagesEnd
    <2> QED
      BY <1>1, <2>2 DEF Safe, FailingInv, S
  <1> QED
    BY <1>6, <1>17, <1>18

LEMMA CrashSafe ==
    ASSUME Calm, Crash
    PROVE  Safe
  <1>1. /\ UNCHANGED <<disk, acked, started>> /\ engine' = Closed /\ failing' = FALSE
    BY DEF Crash
  <1>2. disk \in Good(disk, acked, started)
    BY SameGood DEF Calm
  <1> QED
    BY <1>1, <1>2 DEF Safe, FailingInv
-----------------------------------------------------------------------------
(***************************************************************************)
(* Requests.                                                               *)
(***************************************************************************)

SetCurrent(d, k) == [d EXCEPT !.journal = [d.journal EXCEPT !.current = k]]

\* A cancellation that is saved is a promise.
LEMMA CancelGood ==
    ASSUME NEW d, NEW acks, NEW n \in Nat, DiskInv(d, acks, n),
           NEW job, job = d.journal.current, job.phase \in can_cancel,
           NEW k, k = Cancelled(job),
           NEW x, x = SetCurrent(d, k)
    PROVE  /\ x \in Good(d, acks \cup {job.id}, n) /\ k \in JobType /\ k.id = job.id
           /\ x.journal = [d.journal EXCEPT !.current = k] /\ x.pointer = d.pointer
           /\ x.pending = {}
  <1>1. d \in DiskType /\ d.journal \in JournalType
    BY DiskFields DEF DiskInv
  <1>2. Running(d.journal) /\ job.phase # "committing"
    BY DEF can_cancel, Running
  <1>3. job \in JobType /\ JobInv(d, job) /\ d.pending = {}
    BY <1>1, <1>2, RunningJob DEF DiskInv
  <1>4. /\ k \in JobType /\ SameJob(job, k) /\ k.phase = "cancel_requested"
        /\ k.cancel_requested /\ k.id = job.id
    <2>1. k = [job EXCEPT !.cancel_requested = TRUE, !.phase = "cancel_requested"]
      BY DEF Cancelled
    <2>2. "cancel_requested" \in Phases
      BY DEF Phases
    <2> QED
      BY <1>3, <2>1, <2>2 DEF JobType, SameJob
  <1>5. d.pointer = job.source
    BY <1>2, <1>3 DEF JobInv
  <1>6. JobInv(d, k)
    BY <1>3, <1>4, <1>5, JobOn
  <1>7. KeepsCancel(k, acks \cup {job.id}) /\ k.phase \notin Terminal
    BY <1>4 DEF KeepsCancel, Terminal
  <1>8. SameJob(d.journal.current, k) /\ acks \cup {job.id} \subseteq acks \cup {k.id}
    BY <1>4
  <1>9. x \in DiskType /\ DiskInv(x, acks \cup {job.id}, n) /\ Follows(d, x)
    <2>1. x = [d EXCEPT !.journal = [d.journal EXCEPT !.current = k]]
      BY DEF SetCurrent
    <2> QED
      BY <1>2, <1>4, <1>6, <1>7, <1>8, <2>1, Moved
  <1>10. [d.journal EXCEPT !.current = k] \in JournalType
    BY <1>1, <1>4 DEF JournalType
  <1> QED
    BY <1>1, <1>3, <1>4, <1>9, <1>10, DiskFields DEF Good, SetCurrent

LEMMA CancelSafe ==
    ASSUME Calm, faults' = 0, cancel_model_switch
    PROVE  Safe
  <1> DEFINE k == Cancelled(Job)
             e == WithJob(engine, k)
             S == Good(disk, acked, started)
             stages == Stages(<<disk>>, engine, e)
  <1>1. /\ Open /\ ~failing /\ Job.phase \in can_cancel /\ UNCHANGED started
    BY DEF cancel_model_switch
  <1>2. /\ Job = disk.journal.current /\ engine \in EngineType /\ engine.journal = disk.journal
        /\ engine.active = disk.pointer /\ engine.serving = disk.pointer
        /\ engine.embedder \in {None, ProfileOf[disk.pointer]}
    BY <1>1, HandlerBegins
  <1>3. DiskInv(disk, acked, started) /\ started \in Nat /\ disk \in S
    BY SameGood DEF Calm
  <1>4. PICK x : x = SetCurrent(disk, k)
    OBVIOUS
  <1>5. /\ x \in Good(disk, acked \cup {Job.id}, started) /\ k \in JobType
        /\ x.journal = [disk.journal EXCEPT !.current = k] /\ x.pointer = disk.pointer
        /\ x.pending = {}
    <2>1. k = Cancelled(Job)
      OBVIOUS
    <2> HIDE DEF k
    <2> QED
      BY <1>1, <1>2, <1>3, <1>4, <2>1, CancelGood
  <1> HIDE DEF k
  <1>6. /\ e \in EngineType /\ e.journal = [disk.journal EXCEPT !.current = k]
        /\ e.active = engine.active /\ e.serving = engine.serving
        /\ e.embedder \in {None, engine.embedder}
    BY <1>2, <1>5, EngineForms
  <1> HIDE DEF e
  <1>7. Saved(disk, e) = x
    BY <1>4, <1>6 DEF Saved, SetCurrent
  <1>8. EngineInv(x, e)
    BY <1>2, <1>5, <1>6 DEF EngineInv
  <1>9. \/ Completes(stages) /\ acked' = acked \cup {Job.id}
        \/ Crashes(stages) /\ UNCHANGED acked
    <2>1. ~Fails(stages, FALSE)
      BY FailsCost DEF Calm
    <2> QED
      BY <2>1 DEF cancel_model_switch, k, e
  <1> HIDE DEF S
  <1>10. <<disk>> \in Seq(S) /\ <<disk>> # <<>> /\ Last(<<disk>>) = disk
    BY <1>3, OneGood
  <1>11. CASE Completes(stages) /\ acked' = acked \cup {Job.id}
    <2>1. disk' = Saved(Last(<<disk>>), e) /\ engine' = e /\ failing' = FALSE
      BY <1>10, <1>11, StagesEnd
    <2>2. disk' = x
      BY <1>7, <1>10, <2>1
    <2> QED
      BY <1>1, <1>5, <1>8, <1>11, <2>1, <2>2 DEF Safe, FailingInv
  <1>12. CASE Crashes(stages) /\ UNCHANGED acked
    <2>1. disk' \in S /\ engine' = Closed /\ failing' = FALSE
      BY <1>10, <1>12, StagesEnd
    <2> QED
      BY <1>1, <1>12, <2>1 DEF Safe, FailingInv, S
  <1> QED
    BY <1>9, <1>11, <1>12

LEMMA CancelFromDiskSafe ==
    ASSUME Calm, cancel_switch_from_disk
    PROVE  Safe
  <1> DEFINE job == disk.journal.current
             k == Cancelled(job)
  <1>1. /\ ~Open /\ job.phase \in can_cancel /\ acked' = acked \cup {job.id}
        /\ disk' = [disk EXCEPT !.journal.current = Cancelled(@)]
        /\ UNCHANGED <<engine, failing, started>>
    BY DEF cancel_switch_from_disk
  <1>2. DiskInv(disk, acked, started) /\ started \in Nat /\ disk \in DiskType
    BY DEF Calm, DiskInv
  <1>3. disk' = SetCurrent(disk, k)
    BY <1>1, <1>2 DEF DiskType, SetCurrent
  <1>4. disk' \in Good(disk, acked \cup {job.id}, started)
    <2>1. PICK x : x = disk'
      OBVIOUS
    <2>2. /\ job = disk.journal.current /\ job.phase \in can_cancel
          /\ k = Cancelled(job) /\ x = SetCurrent(disk, k)
      BY <1>1, <1>3, <2>1
    <2> HIDE DEF k, job
    <2>3. x \in Good(disk, acked \cup {job.id}, started)
      BY <1>2, <2>2, CancelGood
    <2> QED
      BY <2>1, <2>3
  <1>5. ~failing
    BY <1>1 DEF Calm, FailingInv
  <1> QED
    BY <1>1, <1>4, <1>5 DEF Safe, FailingInv, Open

\* The next id is taken even when the request is lost.
LEMMA MoreStarted ==
    ASSUME NEW d, NEW acks, NEW n \in Nat, DiskInv(d, acks, n)
    PROVE  DiskInv(d, acks, n + 1)
  <1>1. d \in DiskType /\ d.journal \in JournalType
    BY DiskFields DEF DiskInv
  <1>2. JournalInv(d.journal, acks, n + 1)
    <2>1. acks \subseteq 0 .. n + 1
      BY DEF DiskInv, JournalInv
    <2>2. d.journal.current # NoJob =>
             d.journal.current.id \in Nat /\ d.journal.current.id <= n
      BY <1>1, RunningJob DEF DiskInv, JournalInv, JobType
    <2>3. JournalInv(d.journal, acks, n)
      BY DEF DiskInv
    <2> QED
      BY <2>1, <2>2, <2>3 DEF JournalInv
  <1> QED
    BY <1>2 DEF DiskInv

\* A target that preflight lets be used holds the memories of today.
LEMMA RollbackTarget ==
    ASSUME NEW acks, NEW n, DiskInv(disk, acks, n), ~Running(disk.journal),
           NEW g \in All, g # disk.pointer, ~Blocked(g),
           IF g = Legacy THEN LegacyCurrent(disk.journal)
           ELSE SameSource(disk.manifest[g].digest, disk.manifest[g].revision)
    PROVE  /\ disk.store[g] = "sealed" /\ disk.docs[g] = disk.content
           /\ g \in Gens => disk.manifest[g].state \in {"retained", "complete"}
  <1>1. disk \in DiskType /\ disk.content \in Content
    BY DiskFields DEF DiskInv
  <1>2. CASE g = Legacy
    <2>1. disk.store[g] = "sealed" /\ g \notin Gens
      BY <1>2, SwitchConstants DEF Blocked
    <2>2. /\ legacy_snapshot(disk.journal) # NoJob
          /\ legacy_snapshot(disk.journal).digest = disk.content
      BY <1>2 DEF LegacyCurrent
    <2>3. disk.content # Unknown
      BY <1>1, Shapes
    <2>4. LegacyKept(disk)
      BY DEF DiskInv
    <2> QED
      BY <1>2, <2>1, <2>2, <2>3, <2>4 DEF LegacyKept
  <1>3. CASE g # Legacy
    <2>1. g \in Gens /\ disk.manifest[g].state \in {"retained", "complete"}
      BY <1>3 DEF All, Blocked
    <2>2. Kept(g, disk)
      <3>1. ~Excused(g, disk)
        BY DEF Excused
      <3> QED
        BY <2>1, <3>1 DEF DiskInv
    <2>3. \/ /\ disk.manifest[g].digest = Unknown
             /\ disk.manifest[g].revision = disk.revision
          \/ disk.manifest[g].digest # Unknown /\ disk.manifest[g].digest = disk.content
      BY <1>3 DEF SameSource
    <2>4. disk.revision \in Nat
      BY <1>1 DEF DiskType
    <2> QED
      BY <2>1, <2>2, <2>3, <2>4 DEF Kept
  <1> QED
    BY <1>2, <1>3

\* A request for a new generation, or to return to one that is as it should be.
LEMMA StartSafe ==
    ASSUME Calm, faults' = 0, ~looped',
           NEW target \in All, NEW rollback \in BOOLEAN, NEW retain \in BOOLEAN,
           NEW downtime \in BOOLEAN,
           start_model_switch(target, rollback, retain, downtime)
    PROVE  Safe
  <1> DEFINE n == Cardinality(Present(disk.content))
             job == [id |-> started + 1, phase |-> IF rollback THEN "verifying" ELSE "queued",
                     source |-> engine.active, target |-> target,
                     cursor |-> IF rollback THEN n ELSE 0, total |-> n,
                     cancel_requested |-> FALSE, revision |-> disk.revision,
                     digest |-> disk.content, downtime |-> downtime, retain |-> retain,
                     preexisting |-> rollback, snapshot |-> TRUE]
             e == [engine EXCEPT !.journal = replace_current(@, job)]
             S == Good(disk, acked, started + 1)
             stages == Stages(<<disk>>, engine, e)
  <1>1. /\ Open /\ ~failing /\ ~Frozen /\ started' = started + 1 /\ UNCHANGED acked
        /\ IF ~rollback THEN target \in Gens /\ Unused(target)
           ELSE /\ ~Blocked(target)
                /\ target # engine.active
                /\ IF target = Legacy THEN LegacyCurrent(engine.journal)
                   ELSE SameSource(disk.manifest[target].digest, disk.manifest[target].revision)
    BY DEF start_model_switch
  <1>2. /\ disk \in DiskType /\ disk.journal \in JournalType
        /\ engine \in EngineType /\ engine.journal = disk.journal
        /\ engine.active = disk.pointer /\ engine.serving = disk.pointer
        /\ engine.embedder \in {None, ProfileOf[disk.pointer]}
        /\ disk.pending = {} /\ ~Running(disk.journal)
    BY <1>1, HandlerBegins
  <1>3. DiskInv(disk, acked, started) /\ started \in Nat
    BY DEF Calm
  <1>4. /\ disk.content \in Content /\ disk.revision \in Nat /\ disk.pointer \in All
        /\ disk.docs[target] \in Content
    BY <1>2, DiskFields
  <1>5. n \in Nat
    <2>1. Present(disk.content) \subseteq Ids /\ IsFiniteSet(Ids)
      BY SwitchConstants DEF Present
    <2> QED
      BY <2>1, FS_Subset, FS_CardinalityType
  <1>6. job \in JobType
    <2>1. {"verifying", "queued"} \subseteq Phases /\ started + 1 \in Nat
      BY <1>3 DEF Phases
    <2> QED
      BY <1>2, <1>4, <1>5, <2>1 DEF JobType
  <1>7. /\ job.id = started + 1 /\ ~job.cancel_requested
        /\ job.phase = IF rollback THEN "verifying" ELSE "queued"
        /\ job.source = disk.pointer /\ job.target = target /\ job.digest = disk.content
        /\ job.preexisting = rollback
    BY <1>2
  <1> HIDE DEF job
  <1>8. JobInv(disk, job)
    <2>1. CASE rollback
      <3>1. target # disk.pointer
        BY <1>1, <1>2, <2>1
      <3>2. /\ disk.store[target] = "sealed" /\ disk.docs[target] = disk.content
            /\ target \in Gens => disk.manifest[target].state \in {"retained", "complete"}
        BY <1>1, <1>2, <1>3, <2>1, <3>1, RollbackTarget
      <3>3. target \in Gens => disk.manifest[target] # NoManifest
        BY <3>2 DEF NoManifest, None
      <3>4. job.phase = "verifying"
        BY <1>7, <2>1
      <3> QED
        BY <1>7, <2>1, <3>1, <3>2, <3>3, <3>4 DEF JobInv
    <2>2. CASE ~rollback
      <3>1. target \in Gens /\ disk.store[target] = "absent" /\ job.phase = "queued"
        BY <1>1, <1>7, <2>2 DEF Unused
      <3>2. target # disk.pointer /\ target # Legacy /\ disk.docs[target] = Empty
        BY <1>3, <3>1, SwitchConstants DEF DiskInv
      <3>3. \A i \in Ids : disk.docs[target][i] = 0
        BY <3>2 DEF Empty
      <3> QED
        BY <1>7, <2>2, <3>1, <3>2, <3>3 DEF JobInv
    <2> QED
      BY <2>1, <2>2
  <1>9. PICK x : x = [disk EXCEPT !.journal = replace_current(disk.journal, job)]
    OBVIOUS
  <1>10. x \in DiskType /\ DiskInv(x, acked, started + 1) /\ Follows(disk, x)
    <2>1. job.phase \in {"queued", "verifying"}
      BY <1>7
    <2> QED
      BY <1>2, <1>3, <1>6, <1>7, <1>8, <1>9, <2>1, Started
  <1>11. replace_current(disk.journal, job) \in JournalType
    <2>1. job.phase \in {"queued", "verifying"} /\ JournalInv(disk.journal, acked, started)
      BY <1>3, <1>7 DEF DiskInv
    <2> QED
      BY <1>2, <1>3, <1>6, <1>7, <2>1, JournalStarted
  <1>12. /\ e \in EngineType /\ e.journal = replace_current(disk.journal, job)
         /\ e.active = engine.active /\ e.serving = engine.serving
         /\ e.embedder = engine.embedder
    <2>1. e = [engine EXCEPT !.journal = replace_current(disk.journal, job)]
      BY <1>2
    <2> HIDE DEF e
    <2> QED
      BY <1>2, <1>11, <2>1 DEF EngineType
  <1>13. Completes(stages) \/ Crashes(stages)
    <2>1. ~Fails(stages, FALSE)
      BY FailsCost DEF Calm
    <2>2. Completes(stages) \/ Fails(stages, FALSE) \/ Crashes(stages)
      BY DEF start_model_switch, job
    <2> QED
      BY <2>1, <2>2
  <1> HIDE DEF e, stages
  <1>14. Saved(disk, e) = x
    BY <1>9, <1>12 DEF Saved
  <1>15. x.journal = e.journal /\ x.pointer = disk.pointer /\ x.pending = {}
    BY <1>2, <1>9, <1>11, <1>12, DiskFields
  <1>16. EngineInv(x, e) /\ x \in S
    BY <1>2, <1>10, <1>12, <1>15 DEF EngineInv, Good
  <1>17. disk \in S
    BY <1>2, <1>3, MoreStarted DEF Good, Follows
  <1> HIDE DEF S
  <1>18. <<disk>> \in Seq(S) /\ <<disk>> # <<>> /\ Last(<<disk>>) = disk
    BY <1>17, OneGood
  <1>19. CASE Completes(stages)
    <2>1. disk' = Saved(Last(<<disk>>), e) /\ engine' = e /\ failing' = FALSE
      BY <1>18, <1>19, StagesEnd DEF stages
    <2>2. disk' = x
      BY <1>14, <1>18, <2>1
    <2> QED
      BY <1>1, <1>16, <2>1, <2>2 DEF Safe, FailingInv, S
  <1>20. CASE Crashes(stages)
    <2>1. disk' \in S /\ engine' = Closed /\ failing' = FALSE
      BY <1>18, <1>20, StagesEnd DEF stages
    <2> QED
      BY <1>1, <2>1 DEF Safe, FailingInv, S
  <1> QED
    BY <1>13, <1>19, <1>20
-----------------------------------------------------------------------------
(***************************************************************************)
(* All steps together.                                                     *)
(***************************************************************************)

\* Until a write fails, every step but a request to switch the active generation
\* to itself keeps the files and the engine sound.
LEMMA NextSafe ==
    ASSUME Calm, faults' = 0, ~looped', Next
    PROVE  Safe
  <1>1. CASE OpenEngine
    BY <1>1, OpenSafe
  <1>2. CASE \E i \in Ids, v \in Versions : Mutate(i, v) \/ MutateJournaled(i, v)
    BY <1>2, MutateSafe, MutateJournaledSafe
  <1>3. CASE Search
    BY <1>3, SearchSafe
  <1>4. CASE \E target \in All, rollback, retain, downtime \in BOOLEAN :
               start_model_switch(target, rollback, retain, downtime)
    BY <1>4, StartSafe
  <1>5. CASE cancel_model_switch
    BY <1>5, CancelSafe
  <1>6. CASE cancel_switch_from_disk
    BY <1>6, CancelFromDiskSafe
  <1>7. CASE Step
    BY <1>7, QueuedSafe, ValidatingSafe, DownloadingSafe, PreparingSafe, ReindexingSafe,
       VerifyingSafe, CommittingSafe, CancelledSafe, FailedSafe DEF Step
  <1>8. CASE Crash
    BY <1>8, CrashSafe
  <1> QED
    BY <1>1, <1>2, <1>3, <1>4, <1>5, <1>6, <1>7, <1>8 DEF Next

\* What a handler adds to the failures.
LEMMA HandlerFaults ==
    ASSUME faults \in 0 .. MaxFaults, NEW stages, NEW then,
           Completes(stages) \/ Fails(stages, then) \/ Crashes(stages)
    PROVE  faults' \in 0 .. MaxFaults /\ faults <= faults'
  <1>1. MaxFaults \in Nat /\ faults \in Nat
    BY SwitchConstants
  <1>2. ASSUME NEW cost \in {1, 2}, faults + cost <= MaxFaults, faults' = faults + cost
        PROVE  faults' \in 0 .. MaxFaults /\ faults <= faults'
    BY <1>1, <1>2
  <1>3. Fails(stages, then) =>
           \E cost \in {1, 2} : faults + cost <= MaxFaults /\ faults' = faults + cost
    BY DEF Fails
  <1>4. ~Fails(stages, then) => faults' = faults
    BY DEF Completes, Crashes
  <1> QED
    BY <1>1, <1>2, <1>3, <1>4

\* Failures and switches are counted up, by every step.
LEMMA CountersGrow ==
    ASSUME faults \in 0 .. MaxFaults, started \in Nat, Next
    PROVE  faults' \in 0 .. MaxFaults /\ faults <= faults' /\ started' \in Nat
  <1>0. MaxFaults \in Nat /\ faults \in Nat
    BY SwitchConstants
  <1> DEFINE Grown == faults' \in 0 .. MaxFaults /\ faults <= faults' /\ started' \in Nat
  <1>a. ASSUME NEW stages, Runs(stages), UNCHANGED started
        PROVE  Grown
    BY <1>a, HandlerFaults DEF Runs
  <1>b. ASSUME NEW stages, NEW then, Fails(stages, then) \/ Crashes(stages), UNCHANGED started
        PROVE  Grown
    BY <1>b, HandlerFaults
  <1>c. ASSUME faults < MaxFaults, faults' = faults + 1, UNCHANGED started
        PROVE  Grown
    BY <1>0, <1>c
  <1>d. ASSUME UNCHANGED <<faults, started>>
        PROVE  Grown
    BY <1>0, <1>d
  <1>1. CASE OpenEngine
    BY <1>1, <1>b, <1>d DEF OpenEngine
  <1>2. ASSUME NEW i \in Ids, NEW v \in Versions, Mutate(i, v) \/ MutateJournaled(i, v)
        PROVE  Grown
    BY <1>2, <1>c, <1>d DEF Mutate, MutateJournaled
  <1>3. CASE Search \/ cancel_switch_from_disk \/ Crash
    BY <1>3, <1>d DEF Search, cancel_switch_from_disk, Crash
  <1>4. ASSUME NEW target \in All, NEW rollback \in BOOLEAN, NEW retain \in BOOLEAN,
               NEW downtime \in BOOLEAN,
               start_model_switch(target, rollback, retain, downtime)
        PROVE  Grown
    <2>1. started' \in Nat
      BY <1>4 DEF start_model_switch
    <2>2. PICK stages : Completes(stages) \/ Fails(stages, FALSE) \/ Crashes(stages)
      BY <1>4 DEF start_model_switch
    <2> QED
      BY <2>1, <2>2, HandlerFaults
  <1>5. CASE cancel_model_switch
    <2>1. PICK stages : Completes(stages) \/ Fails(stages, FALSE) \/ Crashes(stages)
      BY <1>5 DEF cancel_model_switch
    <2>2. UNCHANGED started
      BY <1>5 DEF cancel_model_switch
    <2> QED
      BY <2>1, <2>2, HandlerFaults
  <1>6. CASE Step
    <2>1. CASE StepQueued
      BY <1>a, <2>1 DEF StepQueued, InPhase
    <2>2. CASE StepValidating
      BY <1>a, <1>d, <2>2 DEF StepValidating, InPhase, Errs
    <2>3. CASE StepDownloading
      BY <1>a, <1>d, <2>3 DEF StepDownloading, InPhase
    <2>4. CASE StepPreparing
      BY <1>a, <1>d, <2>4 DEF StepPreparing, InPhase, Errs
    <2>5. CASE StepReindexing
      <3>1. UNCHANGED started /\ (Errs \/ \E stages : Runs(stages))
        BY <2>5 DEF StepReindexing, InPhase
      <3> QED
        BY <1>a, <1>d, <3>1 DEF Errs
    <2>6. CASE StepVerifying
      <3>1. UNCHANGED started /\ (Errs \/ \E stages : Runs(stages))
        BY <2>6 DEF StepVerifying, InPhase
      <3> QED
        BY <1>a, <1>d, <3>1 DEF Errs
    <2>7. CASE StepCommitting
      <3>1. UNCHANGED started /\ (Errs \/ \E stages : Runs(stages))
        BY <2>7 DEF StepCommitting, InPhase
      <3> QED
        BY <1>a, <1>d, <3>1 DEF Errs
    <2>8. CASE finish_switch_cancelled
      BY <1>b, <1>d, <2>8 DEF finish_switch_cancelled
    <2>9. CASE fail_model_switch
      BY <1>b, <1>c, <1>d, <2>9 DEF fail_model_switch
    <2> QED
      BY <1>6, <2>1, <2>2, <2>3, <2>4, <2>5, <2>6, <2>7, <2>8, <2>9 DEF Step
  <1> QED
    BY <1>1, <1>2, <1>3, <1>4, <1>5, <1>6 DEF Next

\* A request to switch the active generation to itself is remembered.
LEMMA LoopRemembered ==
    ASSUME looped \in BOOLEAN, [Next]_vars
    PROVE  looped' \in BOOLEAN /\ (looped => looped')
  <1>1. CASE UNCHANGED vars
    BY <1>1 DEF vars
  <1>2. CASE OpenEngine \/ Search \/ cancel_model_switch \/ cancel_switch_from_disk \/ Crash
    BY <1>2 DEF OpenEngine, Search, cancel_model_switch, cancel_switch_from_disk, Crash
  <1>3. CASE \E i \in Ids, v \in Versions : Mutate(i, v) \/ MutateJournaled(i, v)
    <2>1. UNCHANGED looped
      BY <1>3 DEF Mutate, MutateJournaled
    <2> QED
      BY <2>1
  <1>4. CASE \E target \in All, rollback, retain, downtime \in BOOLEAN :
               start_model_switch(target, rollback, retain, downtime)
    BY <1>4 DEF start_model_switch
  <1>5. CASE Step
    <2>1. UNCHANGED looped
      BY <1>5 DEF Step, InPhase, StepQueued, StepValidating, StepDownloading, StepPreparing,
         StepReindexing, StepVerifying, StepCommitting, finish_switch_cancelled,
         fail_model_switch
    <2> QED
      BY <2>1
  <1> QED
    BY <1>1, <1>2, <1>3, <1>4, <1>5 DEF Next

\* The job that an earlier release left.
LEMMA LeftJob ==
    ASSUME NEW journal \in Found, First \in Content
    PROVE  \/ journal = [current |-> NoJob, history |-> <<>>]
           \/ \E job \in JobType :
                /\ journal = [current |-> job, history |-> <<>>]
                /\ job.id = 0 /\ job.phase = "downloading" /\ job.source = Legacy
                /\ job.target \in Gens /\ ~job.cancel_requested /\ ~job.preexisting
                /\ job.digest \in {Unknown, First}
  <1>1. CASE journal = Journal
    BY <1>1 DEF Journal
  <1>2. ASSUME NEW g \in Gens, NEW digest \in {Unknown, First}, NEW retain \in BOOLEAN,
               journal = [current |-> Inherited(g, digest, retain), history |-> <<>>]
        PROVE  \E job \in JobType :
                  /\ journal = [current |-> job, history |-> <<>>]
                  /\ job.id = 0 /\ job.phase = "downloading" /\ job.source = Legacy
                  /\ job.target \in Gens /\ ~job.cancel_requested /\ ~job.preexisting
                  /\ job.digest \in {Unknown, First}
    <2> DEFINE job == Inherited(g, digest, retain)
    <2>1. Cardinality(Ids) \in Nat
      BY SwitchConstants, FS_CardinalityType
    <2>2. /\ job \in JobType
          /\ job.id = 0 /\ job.phase = "downloading" /\ job.source = Legacy
          /\ job.target \in Gens /\ ~job.cancel_requested /\ ~job.preexisting
          /\ job.digest \in {Unknown, First}
      BY <2>1 DEF Inherited, JobType, Phases, All
    <2> HIDE DEF job
    <2> QED
      BY <1>2, <2>2 DEF job
  <1> QED
    BY <1>1, <1>2 DEF Found

\* A new project, or one that an earlier release left while it switched.
LEMMA InitSafe ==
    ASSUME Init
    PROVE  SwitchInv
  <1>1. PICK journal \in Found : disk = Project(journal)
    BY DEF Init
  <1>2. First \in Content /\ Empty \in Content /\ Legacy \in All /\ Gens \subseteq All
    <2>1. 1 \in Versions
      BY SwitchConstants DEF Versions
    <2> QED
      BY <2>1, Shapes DEF Content, All, First
  <1>3. \/ journal = [current |-> NoJob, history |-> <<>>]
        \/ \E job \in JobType :
             /\ journal = [current |-> job, history |-> <<>>]
             /\ job.id = 0 /\ job.phase = "downloading" /\ job.source = Legacy
             /\ job.target \in Gens /\ ~job.cancel_requested /\ ~job.preexisting
             /\ job.digest \in {Unknown, First}
    BY <1>1, <1>2, LeftJob
  <1>4. journal \in JournalType
    <2>1. <<>> \in Seq(JobType)
      OBVIOUS
    <2>2. \A job \in JobType \cup {NoJob} : [current |-> job, history |-> <<>>] \in JournalType
      BY <2>1 DEF JournalType
    <2> QED
      BY <1>3, <2>2
  <1>5. /\ disk.pointer = Legacy /\ disk.journal = journal
        /\ disk.manifest = [g \in Gens |-> NoManifest]
        /\ disk.store = [g \in All |-> IF g = Legacy THEN "sealed" ELSE "absent"]
        /\ disk.docs = [g \in All |-> IF g = Legacy THEN First ELSE Empty]
        /\ disk.content = First /\ disk.revision = 1 /\ disk.pending = {}
        /\ disk = [pointer |-> disk.pointer, journal |-> disk.journal,
                   manifest |-> disk.manifest, store |-> disk.store, docs |-> disk.docs,
                   content |-> disk.content, revision |-> disk.revision,
                   pending |-> disk.pending]
    BY <1>1 DEF Project
  <1>6. disk \in DiskType
    <2>1. disk.docs \in [All -> Content]
      BY <1>2, <1>5
    <2>2. disk.store \in [All -> {"absent", "unsealed", "hollow", "sealed"}]
      BY <1>5
    <2>3. disk.manifest \in [Gens -> ManifestType \cup {NoManifest}]
      BY <1>5
    <2> QED
      BY <1>2, <1>4, <1>5, <2>1, <2>2, <2>3 DEF DiskType
  <1>7. started = 0 /\ acked = {} /\ faults = 0 /\ ~failing /\ ~Open /\ looped = FALSE
    BY DEF Init, Open
  <1>8. JournalInv(disk.journal, acked, started)
    <2>1. \A job \in JobType : job # NoJob
      BY Shapes
    <2>2. CASE journal = [current |-> NoJob, history |-> <<>>]
      BY <1>5, <1>7, <2>2 DEF JournalInv
    <2>3. CASE \E job \in JobType :
             /\ journal = [current |-> job, history |-> <<>>]
             /\ job.id = 0 /\ job.phase = "downloading" /\ ~job.cancel_requested
      BY <1>5, <1>7, <2>1, <2>3 DEF JournalInv, KeepsCancel
    <2> QED
      BY <1>3, <2>2, <2>3
  <1>9. Running(disk.journal) => JobInv(disk, disk.journal.current)
    <2>1. ~Running([current |-> NoJob, history |-> <<>>])
      BY DEF Running, NoJob, Terminal
    <2>2. ASSUME NEW job \in JobType, journal = [current |-> job, history |-> <<>>],
                 job.phase = "downloading", job.source = Legacy,
                 job.target \in Gens, ~job.cancel_requested, ~job.preexisting,
                 job.digest \in {Unknown, First}
          PROVE  JobInv(disk, disk.journal.current)
      <3>1. disk.journal.current = job
        BY <1>5, <2>2
      <3>2. job.target # Legacy /\ disk.docs[job.target] = Empty
        BY <1>2, <1>5, <2>2, SwitchConstants
      <3>3. \A i \in Ids : disk.docs[job.target][i] = 0
        BY <3>2 DEF Empty
      <3> QED
        BY <1>5, <2>2, <3>1, <3>2, <3>3 DEF JobInv
    <2> QED
      BY <1>3, <1>5, <2>1, <2>2
  <1>10. disk.journal.current.phase # "succeeded"
    BY <1>3, <1>5 DEF NoJob
  <1>11. \A g \in Gens : Kept(g, disk)
    BY <1>5 DEF Kept, NoManifest, None
  <1>12. DiskInv(disk, acked, started)
    <2>1. LegacyKept(disk) /\ Retained(disk)
      BY <1>5, <1>10 DEF LegacyKept, Retained
    <2>2. \A g \in Gens : disk.manifest[g] = NoManifest
      BY <1>5
    <2>3. \A g \in All : disk.store[g] = "absent" => disk.docs[g] = Empty
      BY <1>5
    <2>4. disk.store[disk.pointer] = "sealed" /\ disk.docs[disk.pointer] = disk.content
      BY <1>2, <1>5
    <2> QED
      BY <1>5, <1>6, <1>8, <1>9, <1>11, <2>1, <2>2, <2>3, <2>4 DEF DiskInv
  <1>13. faults \in 0 .. MaxFaults /\ started \in Nat /\ looped \in BOOLEAN
    <2>1. faults = 0 /\ started = 0 /\ MaxFaults \in Nat
      BY <1>7, SwitchConstants
    <2>2. looped \in BOOLEAN
      BY <1>7, Zenon
    <2> QED
      BY <2>1, <2>2
  <1>14. (Open => EngineInv(disk, engine)) /\ FailingInv
    BY <1>7 DEF FailingInv
  <1> QED
    BY <1>12, <1>13, <1>14 DEF SwitchInv

\* The invariant is inductive.
LEMMA SwitchStep ==
    ASSUME SwitchInv, [Next]_vars
    PROVE  SwitchInv'
  <1>1. CASE UNCHANGED vars
    BY <1>1 DEF vars, SwitchInv, FailingInv, Open
  <1>2. CASE Next
    <2>1. faults' \in 0 .. MaxFaults /\ faults <= faults' /\ started' \in Nat
      BY <1>2, CountersGrow DEF SwitchInv
    <2>2. ASSUME faults' = 0 PROVE faults = 0
      <3>1. MaxFaults \in Nat
        BY SwitchConstants
      <3> QED
        BY <2>1, <2>2, <3>1 DEF SwitchInv
    <2>4. looped' \in BOOLEAN /\ (looped => looped')
      BY LoopRemembered DEF SwitchInv
    <2>3. ASSUME faults' = 0, ~looped'
          PROVE  /\ DiskInv(disk', acked', started')
                 /\ Open' => EngineInv(disk', engine')
                 /\ FailingInv'
      <3>1. Safe
        BY <1>2, <2>2, <2>3, <2>4, NextSafe DEF SwitchInv, Calm
      <3> QED
        BY <3>1 DEF Safe, Good, Open
    <2> QED
      BY <2>1, <2>3, <2>4 DEF SwitchInv
  <1> QED
    BY <1>1, <1>2

\* Whatever number of generations, switches, mutations and crashes: the files,
\* the open engine and the promises to callers fit together, until a write fails
\* or the active generation is asked to be switched to itself.
THEOREM SwitchFollows == Spec => []SwitchInv
  <1>1. Init => SwitchInv
    BY InitSafe
  <1>2. SwitchInv /\ [Next]_vars => SwitchInv'
    BY SwitchStep
  <1> QED
    BY <1>1, <1>2, PTL DEF Spec

\* A switch whose cancellation was promised is not committed, then or later,
\* whether the engine or the file took the request and whatever crashes follow.
THEOREM CancelIsKept == Spec => [](faults = 0 /\ ~looped => CancelHolds)
  <1>1. SwitchInv => (faults = 0 /\ ~looped => CancelHolds)
    <2> SUFFICES ASSUME SwitchInv, faults = 0, ~looped PROVE CancelHolds
      OBVIOUS
    <2>1. JournalInv(disk.journal, acked, started) /\ disk.journal \in JournalType
      BY DiskFields DEF SwitchInv, DiskInv
    <2>2. disk.journal.history \in Seq(JobType)
      BY <2>1, RunningJob
    <2>3. \A j \in ToSet(disk.journal.history) :
             \E k \in DOMAIN disk.journal.history : j = disk.journal.history[k]
      BY DEF ToSet
    <2>4. \A j \in {disk.journal.current} \cup ToSet(disk.journal.history) :
             j # NoJob => KeepsCancel(j, acked)
      BY <2>1, <2>3 DEF JournalInv
    <2> QED
      BY <2>4 DEF CancelHolds, KeepsCancel
  <1> QED
    BY <1>1, SwitchFollows, PTL

\* A generation that a rollback would be admitted to holds the memories of
\* today, and the one that a switch was told to retain is there to return to.
THEOREM RollbackIsSound == Spec => [](faults = 0 /\ ~looped => RollbackIsCurrent)
  <1>1. SwitchInv => (faults = 0 /\ ~looped => RollbackIsCurrent)
    <2> SUFFICES ASSUME SwitchInv, faults = 0, ~looped PROVE RollbackIsCurrent
      OBVIOUS
    <2>1. DiskInv(disk, acked, started) /\ (Open => engine.journal = disk.journal)
      BY DEF SwitchInv, EngineInv
    <2>2. ASSUME NEW g \in All \ {disk.pointer}, ~Frozen, ~Blocked(g),
                 g # Legacy => SameSource(disk.manifest[g].digest, disk.manifest[g].revision)
          PROVE  disk.store[g] = "sealed" /\ Holds(g)
      <3>1. ~Running(disk.journal)
        BY <2>1, <2>2 DEF Frozen
      <3>2. g = Legacy => LegacyCurrent(disk.journal)
        BY <2>2 DEF Blocked
      <3>3. disk.store[g] = "sealed" /\ disk.docs[g] = disk.content
        BY <2>1, <2>2, <3>1, <3>2, RollbackTarget
      <3> QED
        BY <3>3 DEF Holds
    <2>3. Retained(disk)
      BY <2>1 DEF DiskInv
    <2> QED
      BY <2>2, <2>3 DEF RollbackIsCurrent, Retained
  <1> QED
    BY <1>1, SwitchFollows, PTL

-----------------------------------------------------------------------------
(***************************************************************************)
(* What users see.                                                         *)
(***************************************************************************)

\* Where no write fails, every step is one of EmbeddingGeneration, or is not seen.
LEMMA StepPromised ==
    ASSUME MaxFaults = 0, SwitchInv, [Next]_vars
    PROVE  [Promise!Next]_(Promise!vars)
  <1>1. CASE UNCHANGED vars
    BY <1>1 DEF vars, Promise!vars, Frozen, Open
  <1>3. looped' \in BOOLEAN /\ (looped => looped')
    BY LoopRemembered DEF SwitchInv
  <1>4. CASE looped'
    BY <1>3, <1>4 DEF Promise!Next, Promise!Misuse
  <1>2. CASE Next /\ ~looped'
    <2>0. looped = FALSE /\ looped' = FALSE /\ UNCHANGED looped
      BY <1>2, <1>3 DEF SwitchInv
    <2>1. faults = 0 /\ faults' = 0
      <3>1. faults' \in 0 .. MaxFaults /\ faults \in 0 .. MaxFaults
        BY <1>2, CountersGrow DEF SwitchInv
      <3> QED
        BY <3>1
    <2>2. Safe
      BY <1>2, <2>0, <2>1, NextSafe DEF SwitchInv, Calm
    <2>3. /\ DiskInv(disk, acked, started) /\ disk \in DiskType
          /\ Open => engine.journal = disk.journal /\ disk.pending = {}
      BY <2>0, <2>1 DEF SwitchInv, DiskInv, EngineInv
    <2>4. /\ DiskInv(disk', acked', started') /\ disk' \in DiskType
          /\ Open' => engine'.journal = disk'.journal /\ disk'.pending = {}
          /\ Follows(disk, disk')
      BY <2>2 DEF Safe, Good, DiskInv, EngineInv, Open
    <2>5. (Frozen /\ disk.pending = {}) = Running(disk.journal)
      <3>1. Frozen /\ disk.pending = {} <=> Running(disk.journal)
        BY <2>3 DEF Frozen, DiskInv
      <3> QED
        BY <3>1, Zenon DEF Running
    <2>6. (Frozen' /\ disk'.pending = {}) = Running(disk'.journal)
      <3>1. Frozen' /\ disk'.pending = {} <=> Running(disk'.journal)
        BY <2>4 DEF Frozen, DiskInv
      <3> QED
        BY <3>1, Zenon DEF Running
    <2>7. /\ disk'.pointer \in All /\ disk'.docs \in [All -> Content]
          /\ disk'.docs[disk'.pointer] \in Content
      BY <2>4 DEF DiskType
    <2>8. Running(disk'.journal) \in BOOLEAN /\ Running(disk.journal) \in BOOLEAN
      BY DEF Running
    <2>9. CASE ~Running(disk.journal) /\ disk'.pointer = disk.pointer
      <3>1. Promise!Mutate
        BY <2>5, <2>6, <2>7, <2>8, <2>9 DEF Promise!Mutate
      <3> QED
        BY <2>0, <3>1 DEF Promise!Next
    <2>10. CASE /\ Running(disk.journal) /\ disk'.pointer # disk.pointer
                /\ disk'.docs[disk'.pointer] = disk.docs[disk.pointer]
      <3>1. Promise!Cutover
        BY <2>5, <2>6, <2>7, <2>8, <2>10 DEF Promise!Cutover
      <3> QED
        BY <2>0, <3>1 DEF Promise!Next
    <2>11. CASE /\ Running(disk.journal) /\ disk'.pointer = disk.pointer
                /\ disk'.docs[disk'.pointer] = disk.docs[disk.pointer]
      <3>1. CASE Running(disk'.journal)
        BY <2>0, <2>5, <2>6, <2>11, <3>1 DEF Promise!vars
      <3>2. CASE ~Running(disk'.journal)
        <4>1. Promise!End
          BY <2>5, <2>6, <2>11, <3>2 DEF Promise!End
        <4> QED
          BY <2>0, <4>1 DEF Promise!Next
      <3> QED
        BY <3>1, <3>2
    <2> QED
      BY <2>4, <2>9, <2>10, <2>11 DEF Follows
  <1> QED
    BY <1>1, <1>2, <1>4

\* The code keeps the promise of EmbeddingGeneration: what answers changes in
\* one instant, while a switch runs, and answers the same before and after.
THEOREM SwitchKeepsPromise == MaxFaults = 0 => (Spec => KeepsPromise)
  <1> SUFFICES ASSUME MaxFaults = 0 PROVE Spec => KeepsPromise
    OBVIOUS
  <1>1. Init => Promise!Init
    <2> SUFFICES ASSUME Init PROVE Promise!Init
      OBVIOUS
    <2>1. SwitchInv /\ faults = 0 /\ looped = FALSE
      BY InitSafe DEF Init
    <2>2. disk \in DiskType
      BY <2>1 DEF SwitchInv, DiskInv
    <2>3. disk.pointer \in All /\ disk.docs[disk.pointer] \in Content
      BY <2>2 DEF DiskType
    <2>4. (Frozen /\ disk.pending = {}) \in BOOLEAN
      OBVIOUS
    <2> QED
      BY <2>1, <2>3, <2>4 DEF Promise!Init
  <1>2. SwitchInv /\ [Next]_vars => [Promise!Next]_(Promise!vars)
    BY StepPromised
  <1> QED
    BY <1>1, <1>2, SwitchFollows, PTL DEF Spec, KeepsPromise, Promise!Spec
-----------------------------------------------------------------------------
(***************************************************************************)
(* The manifests.                                                          *)
(***************************************************************************)
MarkedNext == Marked(disk') /\ (failing' => Refused(disk'))

LEMMA Appended ==
    ASSUME NEW S, NEW s \in Seq(S), NEW x \in S
    PROVE  Append(s, x) \in Seq(S) /\ Append(s, x) # <<>>
  <1>1. Append(s, x) \in Seq(S) /\ Len(Append(s, x)) = Len(s) + 1 /\ Len(s) \in Nat
    OBVIOUS
  <1>2. Len(<<>>) = 0
    OBVIOUS
  <1> QED
    BY <1>1, <1>2

LEMMA LastOf ==
    ASSUME NEW S, NEW s \in Seq(S), s # <<>>
    PROVE  Last(s) \in S
  <1>1. Len(s) \in Nat \ {0}
    BY EmptySeq
  <1> QED
    BY <1>1 DEF Last

\* Other files with the same pointer, journal and manifests, and no older.
LEMMA MarkedSame ==
    ASSUME NEW d, NEW x, Marked(d), x.pointer = d.pointer, x.journal = d.journal,
           x.manifest = d.manifest, d.revision \in Nat, x.revision \in Nat,
           d.revision <= x.revision, Running(d.journal) => d.journal.current.revision \in Nat
    PROVE  Marked(x)
  BY DEF Marked, Outdated

\* Files whose manifests differ only where they may.
LEMMA MarkedBut ==
    ASSUME NEW d \in DiskType, NEW x \in DiskType, Marked(d), SameBut(d, x), NEW g,
           \A h \in Gens : h # g => x.manifest[h] = d.manifest[h],
           \/ g = Legacy
           \/ x.manifest[g].state \in Usable
           \/ /\ g # d.pointer
              /\ Running(d.journal) /\ d.journal.current.phase = "committing"
                   => g # d.journal.current.target \/ Outdated(d, d.journal.current)
    PROVE  Marked(x)
  <1>1. d.pointer \in All /\ (Running(d.journal) => d.journal.current.target \in All)
    BY DiskFields, RunningJob DEF JobType
  <1>2. All = Gens \cup {Legacy} /\ Legacy \notin Gens
    BY SwitchConstants DEF All
  <1>3. x.pointer = d.pointer /\ x.journal = d.journal /\ x.revision = d.revision
    BY DEF SameBut
  <1> QED
    BY <1>1, <1>2, <1>3 DEF Marked, Outdated

\* The journal of a job that moves on.
LEMMA MarkedSaved ==
    ASSUME NEW y \in DiskType, Marked(y), NEW b, NEW e1, e1.journal = b,
           LET k == b.current IN
           Running(b) =>
             /\ k.revision <= y.revision
             /\ k.phase = "committing" /\ k.target # Legacy =>
                  y.manifest[k.target].state \in Usable \/ Outdated(y, k)
    PROVE  Marked(Saved(y, e1))
  <1> DEFINE x == [y EXCEPT !.journal = b]
  <1>1. /\ x.journal = b /\ x.pointer = y.pointer /\ x.manifest = y.manifest
        /\ x.revision = y.revision
    BY DEF DiskType
  <1>2. Saved(y, e1) = x
    BY DEF Saved
  <1> HIDE DEF x
  <1> QED
    BY <1>1, <1>2 DEF Marked, Outdated

\* A handler whose stages are marked as they should be.
LEMMA MarkedHandled ==
    ASSUME Calm, faults' = 0, NEW S, \A x \in S : Marked(x),
           NEW disks \in Seq(S), disks # <<>>, NEW e, NEW e1,
           Marked(Saved(Last(disks), e1)), Runs(Stages(disks, e, e1))
    PROVE  MarkedNext
  <1>1. ~Fails(Stages(disks, e, e1), TRUE)
    BY FailsCost DEF Calm
  <1>2. \/ disk' = Saved(Last(disks), e1) /\ failing' = FALSE
        \/ disk' \in S /\ failing' = FALSE
    <2>1. Completes(Stages(disks, e, e1)) \/ Crashes(Stages(disks, e, e1))
      BY <1>1 DEF Runs
    <2> QED
      BY <2>1, StagesEnd
  <1> QED
    BY <1>2 DEF MarkedNext

\* A step that leads the job to its next phase.
LEMMA MarkedTurned ==
    ASSUME Calm, Marked(disk), faults' = 0, Open, Job.phase \notin Terminal,
           NEW S, \A x \in S : x \in DiskType /\ Marked(x) /\ SameBut(disk, x),
           NEW disks \in Seq(S), disks # <<>>,
           NEW k \in JobType, SameJob(Job, k),
           k.phase = "committing" /\ k.target # Legacy =>
              Last(disks).manifest[k.target].state \in Usable,
           NEW f \in Forms(k), NEW e, Runs(Stages(disks, e, f))
    PROVE  MarkedNext
  <1>1. /\ engine \in EngineType /\ engine.journal = disk.journal
        /\ Job = disk.journal.current /\ Running(disk.journal) /\ disk.journal \in JournalType
    BY HandlerBegins
  <1>2. f.journal = [disk.journal EXCEPT !.current = k]
    BY <1>1, EngineForms DEF Forms
  <1>3. f.journal \in JournalType /\ f.journal.current = k
    BY <1>1, <1>2 DEF JournalType
  <1>4. PICK y : y = Last(disks)
    OBVIOUS
  <1>5. y \in DiskType /\ Marked(y) /\ SameBut(disk, y)
    BY <1>4, LastOf
  <1>6. k.revision <= y.revision
    BY <1>1, <1>5 DEF Marked, SameBut, SameJob
  <1>7. Marked(Saved(y, f))
    BY <1>3, <1>4, <1>5, <1>6, MarkedSaved
  <1> QED
    BY <1>4, <1>7, MarkedHandled

\* The collection is opened, or created: only its directory changes.
LEMMA CreatedMarked ==
    ASSUME disk \in DiskType, NEW g \in All
    PROVE  LET S == {x \in DiskType : SameBut(disk, x) /\ x.manifest = disk.manifest}
           IN created(g) \in Seq(S) /\ created(g) # <<>>
  <1> DEFINE S == {x \in DiskType : SameBut(disk, x) /\ x.manifest = disk.manifest}
             d0 == SetDocs(disk, g, Empty)
             d1 == SetStore(d0, g, "unsealed")
             d2 == SetStore(d1, g, "sealed")
  <1>1. disk \in S
    BY DEF SameBut
  <1>2. CASE disk.store[g] = "sealed"
    <2>1. created(g) = <<disk>>
      BY <1>2 DEF created
    <2> HIDE DEF S
    <2> QED
      BY <1>1, <2>1, OneGood DEF S
  <1>3. CASE disk.store[g] # "sealed"
    <2>1. created(g) = <<disk, d1, d2>>
      BY <1>3 DEF created, SetStore, SetDocs, DiskType
    <2>2. Empty \in Content /\ "unsealed" \in StoreStates /\ "sealed" \in StoreStates
      BY Shapes DEF StoreStates
    <2>3. d0 \in DiskType /\ SameBut(disk, d0) /\ d0.manifest = disk.manifest
      BY <2>2, DocsSet
    <2> HIDE DEF d0
    <2>4. d1 \in DiskType /\ SameBut(d0, d1) /\ d1.manifest = d0.manifest
      BY <2>2, <2>3, StoreSet
    <2> HIDE DEF d1
    <2>5. d2 \in DiskType /\ SameBut(d1, d2) /\ d2.manifest = d1.manifest
      BY <2>2, <2>4, StoreSet
    <2> HIDE DEF d2
    <2>6. d1 \in S /\ d2 \in S
      BY <2>3, <2>4, <2>5 DEF SameBut
    <2> HIDE DEF S
    <2>7. <<disk, d1, d2>> \in Seq(S) /\ <<disk, d1, d2>> # <<>>
      BY <1>1, <2>6
    <2> QED
      BY <2>1, <2>7 DEF S
  <1> QED
    BY <1>2, <1>3

\* A step that fails before the commit leaves the files as they were.
LEMMA MarkedErred ==
    ASSUME Calm, Open, Marked(disk), Errs, Job.phase \notin Terminal \cup {"committing"}
    PROVE  MarkedNext
  <1>1. Job = disk.journal.current
    BY HandlerBegins
  <1> QED
    BY <1>1 DEF MarkedNext, Errs, Refused

\* The files as they are, before a job moves on.
LEMMA MarkedAtOnce ==
    ASSUME Calm, Marked(disk), faults' = 0, Open, Job.phase \notin Terminal,
           NEW ph \in Phases, ph # "committing" \/ Job.target = Legacy,
           NEW f \in Forms([Job EXCEPT !.phase = ph]), NEW e, Runs(Stages(<<disk>>, e, f))
    PROVE  MarkedNext
  <1> DEFINE k == [Job EXCEPT !.phase = ph]
             S == {disk}
  <1>1. k \in JobType /\ SameJob(Job, k) /\ k.phase = ph
    BY Phased, JobBegins
  <1>2. \A x \in S : x \in DiskType /\ Marked(x) /\ SameBut(disk, x)
    BY JobBegins DEF SameBut
  <1>3. k.target = Job.target
    BY <1>1 DEF SameJob
  <1> HIDE DEF k
  <1>4. <<disk>> \in Seq(S) /\ <<disk>> # <<>>
    BY OneGood
  <1> HIDE DEF S
  <1> QED
    BY <1>1, <1>2, <1>3, <1>4, MarkedTurned DEF k

LEMMA QueuedMarked ==
    ASSUME Calm, Marked(disk), faults' = 0, StepQueued
    PROVE  MarkedNext
  <1> DEFINE k == [Job EXCEPT !.phase = "validating"]
  <1>1. /\ Open /\ Job.phase = "queued" /\ Runs(Stages(<<disk>>, engine, WithJob(engine, k)))
    BY DEF StepQueued, InPhase, transition_switch, To
  <1>2. /\ Job.phase \notin Terminal /\ "validating" \in Phases /\ "validating" # "committing"
        /\ WithJob(engine, k) \in Forms(k)
    BY <1>1 DEF Terminal, Phases, Forms
  <1> QED
    BY <1>1, <1>2, MarkedAtOnce

LEMMA ValidatingMarked ==
    ASSUME Calm, Marked(disk), faults' = 0, StepValidating
    PROVE  MarkedNext
  <1> DEFINE k == [Job EXCEPT !.phase = "downloading"]
  <1>1. /\ Open /\ Job.phase = "validating"
        /\ Errs \/ Runs(Stages(<<disk>>, engine, WithJob(engine, k)))
    BY DEF StepValidating, InPhase, transition_switch, To
  <1>2. /\ Job.phase \notin Terminal \cup {"committing"} /\ "downloading" \in Phases
        /\ "downloading" # "committing" /\ WithJob(engine, k) \in Forms(k)
    BY <1>1 DEF Terminal, Phases, Forms
  <1>3. CASE Errs
    BY <1>1, <1>2, <1>3, MarkedErred
  <1>4. CASE Runs(Stages(<<disk>>, engine, WithJob(engine, k)))
    BY <1>1, <1>2, <1>4, MarkedAtOnce
  <1> QED
    BY <1>1, <1>3, <1>4

LEMMA DownloadingMarked ==
    ASSUME Calm, Marked(disk), faults' = 0, StepDownloading
    PROVE  MarkedNext
  <1> DEFINE k == [Job EXCEPT !.phase = "preparing"]
  <1>1. /\ Open /\ Job.phase = "downloading"
        /\ \/ failing' = TRUE /\ disk' = disk
           \/ Runs(Stages(<<disk>>, Loaded(engine), Loaded(WithJob(engine, k))))
    BY DEF StepDownloading, InPhase, To
  <1>2. /\ Job.phase \notin Terminal \cup {"committing"} /\ "preparing" \in Phases
        /\ "preparing" # "committing" /\ Loaded(WithJob(engine, k)) \in Forms(k)
    BY <1>1 DEF Terminal, Phases, Forms
  <1>3. CASE failing' = TRUE /\ disk' = disk
    <2>1. Job = disk.journal.current
      BY <1>1, HandlerBegins
    <2> QED
      BY <1>1, <1>3, <2>1 DEF MarkedNext, Refused
  <1>4. CASE Runs(Stages(<<disk>>, Loaded(engine), Loaded(WithJob(engine, k))))
    BY <1>1, <1>2, <1>4, MarkedAtOnce
  <1> QED
    BY <1>1, <1>3, <1>4

\* The target is created, with a manifest of its own.
LEMMA PreparingMarked ==
    ASSUME Calm, Marked(disk), faults' = 0, StepPreparing
    PROVE  MarkedNext
  <1> DEFINE k == [Job EXCEPT !.phase = "reindexing"]
             t == Job.target
             m == [state |-> "building", digest |-> Job.digest, revision |-> Job.revision]
             y == Last(created(t))
             x == SetManifest(y, t, m)
             all == IF disk.manifest[t] # NoManifest THEN created(t) ELSE Append(created(t), x)
             f == Loaded(WithJob(engine, k))
             C == {z \in DiskType : SameBut(disk, z) /\ z.manifest = disk.manifest}
             S == {z \in DiskType : SameBut(disk, z) /\ Marked(z)}
  <1>1. /\ Open /\ Job.phase = "preparing"
        /\ Errs \/ Runs(Stages(all, Loaded(engine), f))
    BY DEF StepPreparing, InPhase, To, SetManifest
  <1>2. Job.phase \notin Terminal \cup {"committing"}
    BY <1>1 DEF Terminal
  <1>3. CASE Errs
    BY <1>1, <1>2, <1>3, MarkedErred
  <1>4. CASE Runs(Stages(all, Loaded(engine), f))
    <2>1. /\ disk \in DiskType /\ disk.pointer = Job.source /\ Running(disk.journal)
          /\ Job \in JobType /\ t \in All /\ JobInv(disk, Job) /\ Job = disk.journal.current
      BY <1>1, <1>2, JobBegins
    <2>2. t # disk.pointer /\ t \in Gens
      BY <1>1, <2>1 DEF JobInv, All
    <2>3. created(t) \in Seq(C) /\ created(t) # <<>>
      BY <2>1, CreatedMarked
    <2>4. C \subseteq S
      <3>1. disk.revision \in Nat /\ Job.revision \in Nat
        BY <2>1 DEF DiskType, JobType
      <3>2. ASSUME NEW z \in C PROVE Marked(z)
        BY <2>1, <3>1, MarkedSame DEF SameBut
      <3> QED
        BY <3>2
    <2>5. y \in C
      <3> HIDE DEF C
      <3> QED
        BY <2>3, LastOf
    <2>6. m \in ManifestType \cup {NoManifest}
      BY <2>1 DEF JobType, ManifestType
    <2> HIDE DEF y, m
    <2>7. /\ x \in DiskType /\ SameBut(y, x)
          /\ \A g \in Gens : g # t => x.manifest[g] = y.manifest[g]
      BY <2>2, <2>5, <2>6, ManifestSet
    <2> HIDE DEF x
    <2>8. SameBut(disk, x) /\ \A g \in Gens : g # t => x.manifest[g] = disk.manifest[g]
      BY <2>5, <2>7 DEF SameBut
    <2>9. Marked(x)
      <3>1. disk.journal.current.phase # "committing"
        BY <1>1, <2>1
      <3> QED
        BY <2>1, <2>2, <2>7, <2>8, <3>1, MarkedBut
    <2>10. created(t) \in Seq(S) /\ x \in S
      <3>1. x \in S
        BY <2>7, <2>8, <2>9
      <3> HIDE DEF C, S
      <3> QED
        BY <2>3, <2>4, <3>1
    <2>11. k \in JobType /\ SameJob(Job, k) /\ k.phase = "reindexing"
      BY <2>1, Phased DEF Phases
    <2>12. f \in Forms(k)
      BY DEF Forms
    <2>13. \A z \in S : z \in DiskType /\ Marked(z) /\ SameBut(disk, z)
      OBVIOUS
    <2> HIDE DEF S, k, f
    <2>14. all \in Seq(S) /\ all # <<>>
      <3>1. Append(created(t), x) \in Seq(S) /\ Append(created(t), x) # <<>>
        BY <2>10, Appended
      <3> QED
        BY <2>3, <2>10, <3>1
    <2> HIDE DEF all
    <2>15. k.phase # "committing"
      BY <2>11
    <2> QED
      BY <1>1, <1>2, <1>4, <2>11, <2>12, <2>13, <2>14, <2>15, MarkedTurned
  <1> QED
    BY <1>1, <1>3, <1>4

LEMMA ReindexingMarked ==
    ASSUME Calm, Marked(disk), faults' = 0, StepReindexing
    PROVE  MarkedNext
  <1> DEFINE t == Job.target
             k == [Job EXCEPT !.phase = "verifying"]
             k1 == [Job EXCEPT !.cursor = Job.cursor + 1]
             c(id) == [disk.docs[t] EXCEPT ![id] = disk.docs[engine.serving][id]]
  <1>1. /\ Open /\ Job.phase = "reindexing"
    BY DEF StepReindexing, InPhase
  <1>2. /\ Job.phase \notin Terminal \cup {"committing"} /\ "verifying" \in Phases
        /\ "verifying" # "committing" /\ Loaded(WithJob(engine, k)) \in Forms(k)
        /\ Loaded(WithJob(engine, k1)) \in Forms(k1)
    BY <1>1 DEF Terminal, Phases, Forms
  <1>3. /\ disk \in DiskType /\ Job \in JobType /\ t \in All
        /\ Job = disk.journal.current /\ engine.serving \in All
    BY <1>1, <1>2, JobBegins DEF DiskType
  <1>5. \/ Errs
        \/ Runs(Stages(<<disk>>, engine, Loaded(WithJob(engine, k))))
        \/ \E id : Runs(Stages(<<disk, SetDocs(disk, t, c(id))>>, Loaded(engine),
                               Loaded(WithJob(engine, k1))))
    <2>1. \A id : [disk EXCEPT !.docs[t][id] = disk.docs[engine.serving][id]]
                  = SetDocs(disk, t, c(id))
      BY <1>3 DEF DiskType, SetDocs
    <2> QED
      BY <2>1 DEF StepReindexing, To
  <1>6. CASE Errs
    BY <1>1, <1>2, <1>6, MarkedErred
  <1>7. CASE Runs(Stages(<<disk>>, engine, Loaded(WithJob(engine, k))))
    BY <1>1, <1>2, <1>7, MarkedAtOnce
  <1>8. ASSUME NEW id, Runs(Stages(<<disk, SetDocs(disk, t, c(id))>>, Loaded(engine),
                                   Loaded(WithJob(engine, k1))))
        PROVE  MarkedNext
    <2> DEFINE x == SetDocs(disk, t, c(id))
               S == {disk, x}
    <2>1. k1 \in JobType /\ SameJob(Job, k1) /\ k1.phase = Job.phase
      BY <1>3 DEF JobType, SameJob
    <2>2. c(id) \in Content
      <3>1. /\ disk.docs[t] \in [Ids -> Versions]
            /\ disk.docs[engine.serving] \in [Ids -> Versions]
        BY <1>3 DEF DiskType, Content
      <3> QED
        BY <3>1 DEF Content
    <2>3. x \in DiskType /\ SameBut(disk, x) /\ x.manifest = disk.manifest
      <3>1. disk \in DiskType /\ t \in All /\ c(id) \in Content /\ x = SetDocs(disk, t, c(id))
        BY <1>3, <2>2
      <3> HIDE DEF x, c, t
      <3> QED
        BY <3>1, DocsSet
    <2> HIDE DEF x, c
    <2>4. Marked(x)
      <3>1. disk.revision \in Nat /\ Job.revision \in Nat
        BY <1>3 DEF DiskType, JobType
      <3> QED
        BY <1>3, <2>3, <3>1, MarkedSame DEF SameBut
    <2>5. \A z \in S : z \in DiskType /\ Marked(z) /\ SameBut(disk, z)
      BY <1>3, <2>3, <2>4 DEF SameBut
    <2>6. <<disk, x>> \in Seq(S) /\ <<disk, x>> # <<>>
      BY TwoGood
    <2>7. Runs(Stages(<<disk, x>>, Loaded(engine), Loaded(WithJob(engine, k1))))
      BY <1>8 DEF x, c
    <2>8. k1.phase # "committing"
      BY <1>1, <2>1
    <2> HIDE DEF S, k1
    <2> QED
      BY <1>1, <1>2, <2>1, <2>5, <2>6, <2>7, <2>8, MarkedTurned
  <1> QED
    BY <1>5, <1>6, <1>7, <1>8

\* The manifest of the target is complete when the job is to be committed.
LEMMA VerifyingMarked ==
    ASSUME Calm, Marked(disk), faults' = 0, StepVerifying
    PROVE  MarkedNext
  <1> DEFINE t == Job.target
             k == [Job EXCEPT !.phase = "committing"]
             f == Loaded(WithJob(engine, k))
             x == [disk EXCEPT !.manifest[t].state = "complete"]
             S == {disk, x}
  <1>1. /\ Open /\ Job.phase = "verifying"
        /\ \/ Errs
           \/ Runs(Stages(IF t = Legacy THEN <<disk>> ELSE <<disk, x>>, Loaded(engine), f))
    BY DEF StepVerifying, InPhase, To
  <1>2. /\ Job.phase \notin Terminal \cup {"committing"} /\ "committing" \in Phases
        /\ f \in Forms(k)
    BY <1>1 DEF Terminal, Phases, Forms
  <1>3. /\ disk \in DiskType /\ Job \in JobType /\ t \in All /\ JobInv(disk, Job)
    BY <1>1, <1>2, JobBegins
  <1>4. CASE Errs
    BY <1>1, <1>2, <1>4, MarkedErred
  <1>5. CASE t = Legacy /\ Runs(Stages(<<disk>>, Loaded(engine), f))
    <2> HIDE DEF f
    <2> QED
      BY <1>1, <1>2, <1>5, MarkedAtOnce
  <1>6. CASE t # Legacy /\ Runs(Stages(<<disk, x>>, Loaded(engine), f))
    <2>1. t \in Gens /\ disk.manifest[t] # NoManifest
      BY <1>1, <1>3, <1>6 DEF All, JobInv
    <2>2. PICK m \in ManifestType : m.state = "complete" /\ x = SetManifest(disk, t, m)
      <3>1. /\ disk \in DiskType /\ t \in Gens /\ disk.manifest[t] # NoManifest
            /\ x = [disk EXCEPT !.manifest[t].state = "complete"]
        BY <1>3, <2>1
      <3> HIDE DEF x, t
      <3> QED
        BY <3>1, StateSet
    <2> HIDE DEF x
    <2>3. /\ x \in DiskType /\ SameBut(disk, x)
          /\ x.manifest[t] = m /\ \A g \in Gens : g # t => x.manifest[g] = disk.manifest[g]
      <3>1. /\ disk \in DiskType /\ t \in Gens /\ m \in ManifestType \cup {NoManifest}
            /\ x = SetManifest(disk, t, m)
        BY <1>3, <2>1, <2>2
      <3> HIDE DEF t
      <3> QED
        BY <3>1, ManifestSet
    <2>4. x.manifest[t].state \in Usable
      BY <2>2, <2>3 DEF Usable
    <2>5. Marked(x)
      <3> HIDE DEF t
      <3> QED
        BY <1>3, <2>3, <2>4, MarkedBut
    <2>6. k \in JobType /\ SameJob(Job, k) /\ k.target = t
      BY <1>2, <1>3, Phased DEF SameJob
    <2>7. \A z \in S : z \in DiskType /\ Marked(z) /\ SameBut(disk, z)
      BY <1>3, <2>3, <2>5 DEF SameBut
    <2>8. <<disk, x>> \in Seq(S) /\ <<disk, x>> # <<>> /\ Last(<<disk, x>>) = x
      <3>1. disk \in S /\ x \in S
        OBVIOUS
      <3> HIDE DEF S
      <3> QED
        BY <3>1, TwoGood
    <2>9. Last(<<disk, x>>).manifest[k.target].state \in Usable
      BY <2>4, <2>6, <2>8
    <2> HIDE DEF S, k, f
    <2> QED
      BY <1>1, <1>2, <1>6, <2>6, <2>7, <2>8, <2>9, MarkedTurned
  <1> HIDE DEF x, f
  <1> QED
    BY <1>1, <1>4, <1>5, <1>6

\* After the cut-over the manifest of the source is no longer looked at.
LEMMA FinalizedMarked ==
    ASSUME Calm, Open, Job.phase = "committing",
           NEW d \in DiskType, Marked(d), d.journal = disk.journal, d.pointer = Job.target,
           Job.target \in Gens => d.manifest[Job.target] # NoManifest,
           NEW e \in EngineType, e.journal = disk.journal, NEW first
    PROVE  LET S == {z \in DiskType : SameBut(d, z) /\ Marked(z)}
               e1 == WithJob(e, [Job EXCEPT !.phase = "succeeded"])
           IN \E disks \in Seq(S) :
                 /\ disks # <<>> /\ Finalized(d, e, first) = Stages(disks, e, e1)
                 /\ Marked(Saved(Last(disks), e1))
  <1> DEFINE S == {z \in DiskType : SameBut(d, z) /\ Marked(z)}
             k == [Job EXCEPT !.phase = "succeeded"]
             e1 == WithJob(e, k)
             t == Job.target
             source == Job.source
             d1 == IF t = Legacy THEN d ELSE [d EXCEPT !.manifest[t].state = "active"]
             m == [state |-> "retained", digest |-> Job.digest, revision |-> d1.revision]
             d2 == IF source = Legacy \/ d1.manifest[source] = NoManifest THEN d1
                   ELSE [d1 EXCEPT !.manifest[source] = m]
             removal == IF Job.retain \/ d2.store[source] = "absent" THEN <<>>
                        ELSE Removed(d2, source, first)
             all == <<d, d1, d2>> \o removal
  <1>1. Job.phase \notin Terminal
    BY DEF Terminal
  <1>2. /\ Job \in JobType /\ t \in All /\ source \in All /\ source # t
        /\ Job = disk.journal.current /\ disk.journal \in JournalType
    BY <1>1, JobBegins, HandlerBegins DEF JobInv
  <1>3. \A x \in S, y \in DiskType :
           SameBut(x, y) /\ (\A h \in Gens : h # source => y.manifest[h] = x.manifest[h])
             => y \in S
    <2> TAKE x \in S, y \in DiskType
    <2> HAVE SameBut(x, y) /\ (\A h \in Gens : h # source => y.manifest[h] = x.manifest[h])
    <2>1. /\ x.pointer = t /\ x.journal.current = Job /\ x \in DiskType /\ Marked(x)
          /\ SameBut(d, y)
      BY <1>2 DEF SameBut
    <2>2. Marked(y)
      <3> HIDE DEF source, S
      <3> QED
        BY <1>2, <2>1, MarkedBut
    <2> QED
      BY <2>1, <2>2
  <1>4. d \in S
    BY DEF SameBut
  <1>5. d1 \in S
    <2>1. CASE t = Legacy
      BY <1>4, <2>1
    <2>2. CASE t # Legacy
      <3>1. t \in Gens /\ d1 = [d EXCEPT !.manifest[t].state = "active"]
        BY <1>2, <2>2 DEF All
      <3> HIDE DEF d1
      <3>2. PICK w \in ManifestType : w.state = "active" /\ d1 = SetManifest(d, t, w)
        <4>1. d.manifest[t] # NoManifest /\ d \in DiskType
          BY <3>1
        <4> HIDE DEF t
        <4> QED
          BY <3>1, <4>1, StateSet
      <3>3. /\ d1 \in DiskType /\ SameBut(d, d1) /\ d1.manifest[t] = w
            /\ \A g \in Gens : g # t => d1.manifest[g] = d.manifest[g]
        <4>1. w \in ManifestType \cup {NoManifest} /\ t \in Gens /\ d1 = SetManifest(d, t, w)
          BY <3>1, <3>2
        <4> HIDE DEF t
        <4> QED
          BY <4>1, ManifestSet
      <3>4. d1.manifest[t].state \in Usable
        BY <3>2, <3>3 DEF Usable
      <3>5. Marked(d1)
        <4> HIDE DEF t
        <4> QED
          BY <3>3, <3>4, MarkedBut
      <3> QED
        BY <3>3, <3>5
    <2> QED
      BY <2>1, <2>2
  <1> HIDE DEF d1
  <1>6. d2 \in S
    <2>1. CASE source = Legacy \/ d1.manifest[source] = NoManifest
      BY <1>5, <2>1
    <2>2. CASE source # Legacy /\ d1.manifest[source] # NoManifest
      <3>1. source \in Gens /\ d2 = SetManifest(d1, source, m)
        BY <1>2, <2>2 DEF All, SetManifest
      <3>2. m \in ManifestType \cup {NoManifest} /\ d1 \in DiskType
        BY <1>2, <1>5 DEF JobType, ManifestType, DiskType
      <3> HIDE DEF d2, m
      <3>3. /\ d2 \in DiskType /\ SameBut(d1, d2)
            /\ \A g \in Gens : g # source => d2.manifest[g] = d1.manifest[g]
        <4> HIDE DEF source
        <4> QED
          BY <3>1, <3>2, ManifestSet
      <3> HIDE DEF S, source
      <3> QED
        BY <1>3, <1>5, <3>3
    <2> QED
      BY <2>1, <2>2
  <1>7. Finalized(d, e, first) = Stages(all, e, e1)
    BY DEF Finalized, d1
  <1> HIDE DEF d2
  <1>8. all \in Seq(S) /\ all # <<>>
    <2>1. CASE Job.retain \/ d2.store[source] = "absent"
      <3>1. all = <<d, d1, d2>> \o <<>>
        BY <2>1
      <3> HIDE DEF S, all
      <3> QED
        BY <1>4, <1>5, <1>6, <3>1
    <2>2. CASE ~Job.retain /\ d2.store[source] # "absent"
      <3>1. d2 \in DiskType
        BY <1>6
      <3>2. PICK a, b : /\ Removed(d2, source, first) = <<a, b>>
                        /\ OnlyOf(source, d2, a) /\ OnlyOf(source, d2, b)
        <4> HIDE DEF source
        <4> QED
          BY <1>2, <3>1, RemovedFiles
      <3>3. a \in S /\ b \in S
        <4> HIDE DEF S, source
        <4> QED
          BY <1>3, <1>6, <3>2 DEF OnlyOf
      <3>4. all = <<d, d1, d2>> \o <<a, b>>
        BY <2>2, <3>2
      <3> HIDE DEF S, all
      <3> QED
        BY <1>4, <1>5, <1>6, <3>3, <3>4
    <2> QED
      BY <2>1, <2>2
  <1> HIDE DEF all
  <1>9. Marked(Saved(Last(all), e1))
    <2>1. Last(all) \in S
      <3> HIDE DEF S
      <3> QED
        BY <1>8, LastOf
    <2>2. k \in JobType /\ k.phase \in Terminal
      BY <1>2, Phased DEF Phases, Terminal
    <2>3. e1.journal = [disk.journal EXCEPT !.current = k]
      <3> HIDE DEF k
      <3> QED
        BY <2>2, EngineForms
    <2> HIDE DEF k
    <2>4. /\ e1.journal \in JournalType /\ ~Running(e1.journal)
      BY <1>2, <2>2, <2>3 DEF JournalType, Running
    <2> HIDE DEF e1
    <2>5. Last(all) \in DiskType /\ Marked(Last(all))
      BY <2>1
    <2> QED
      BY <2>4, <2>5, MarkedSaved
  <1> HIDE DEF S, e1
  <1> QED
    BY <1>7, <1>8, <1>9 DEF S, e1, k

\* A target is only taken when its manifest is complete.
LEMMA CommittingMarked ==
    ASSUME ~MayRefuse, Calm, Marked(disk), faults' = 0, StepCommitting
    PROVE  MarkedNext
  <1> DEFINE t == Job.target
             d == [disk EXCEPT !.pointer = t]
             taken == Dropped(Loaded(engine))
             e == [taken EXCEPT !.active = t, !.serving = t, !.embedder = ProfileOf[t]]
             k == [Job EXCEPT !.phase = "succeeded"]
  <1>1. Open /\ Job.phase = "committing"
    BY DEF StepCommitting, InPhase
  <1>2. Job.phase \notin Terminal
    BY <1>1 DEF Terminal
  <1>3. /\ disk \in DiskType /\ disk.pending = {} /\ t \in All /\ Job \in JobType
        /\ Running(disk.journal) /\ Job = disk.journal.current
        /\ engine.active = disk.pointer
        /\ engine \in EngineType /\ engine.journal = disk.journal /\ JobInv(disk, Job)
    BY <1>1, <1>2, JobBegins, HandlerBegins
  <1>4. t \in Gens => disk.manifest[t] # NoManifest
    BY <1>1, <1>3 DEF JobInv
  <1>5. \/ Errs /\ (engine.active = t \/ ~Ready)
        \/ engine.active = t /\ \E first \in BOOLEAN : Runs(Finalized(disk, engine, first))
        \/ /\ engine.active # t /\ Ready
           /\ \E first \in BOOLEAN : Runs(<<Stage(disk, taken)>> \o Finalized(d, e, first))
    BY DEF StepCommitting
  <1>6. engine.active # t /\ ~Ready => Outdated(disk, Job)
    <2>1. Job.digest \in {Unknown, disk.content} /\ (t = Legacy => disk.store[Legacy] = "sealed")
      BY <1>1, <1>3 DEF JobInv
    <2>2. engine.active # t => engine.active = Job.source
      BY <1>3 DEF JobInv
    <2>3. Job.revision <= disk.revision /\ Job.revision \in Nat /\ disk.revision \in Nat
      BY <1>3 DEF Marked, JobType, DiskType
    <2>4. disk.content # Unknown
      BY <1>3, Shapes DEF DiskType
    <2> QED
      BY <1>3, <2>1, <2>2, <2>3, <2>4
         DEF Ready, ensure_source_unchanged, SameSource, Outdated
  <1>7. Ready => ~Outdated(disk, Job)
    <2>1. Job.revision \in Nat /\ disk.revision \in Nat
      BY <1>3 DEF JobType, DiskType
    <2> QED
      BY <2>1 DEF Ready, ensure_source_unchanged, SameSource, Outdated
  <1>8. CASE Errs /\ (engine.active = t \/ ~Ready)
    BY <1>3, <1>6, <1>8 DEF Errs, MarkedNext, Refused
  <1>9. ASSUME engine.active = t, NEW first \in BOOLEAN, Runs(Finalized(disk, engine, first))
        PROVE  MarkedNext
    <2> DEFINE S == {z \in DiskType : SameBut(disk, z) /\ Marked(z)}
               e1 == WithJob(engine, k)
    <2>1. PICK disks \in Seq(S) :
             /\ disks # <<>> /\ Finalized(disk, engine, first) = Stages(disks, engine, e1)
             /\ Marked(Saved(Last(disks), e1))
      BY <1>1, <1>3, <1>4, <1>9, FinalizedMarked
    <2>2. \A z \in S : Marked(z)
      OBVIOUS
    <2>3. Runs(Stages(disks, engine, e1))
      BY <1>9, <2>1
    <2> HIDE DEF S, e1
    <2> QED
      BY <2>1, <2>2, <2>3, MarkedHandled
  <1>10. ASSUME engine.active # t, Ready, NEW first \in BOOLEAN,
                Runs(<<Stage(disk, taken)>> \o Finalized(d, e, first))
         PROVE  MarkedNext
    <2> DEFINE S == {z \in DiskType : SameBut(d, z) /\ Marked(z)}
               T == {z \in DiskType : Marked(z)}
               e1 == WithJob(e, k)
    <2>1. /\ d \in DiskType /\ d.journal = disk.journal /\ d.pointer = t
          /\ d.manifest = disk.manifest /\ d.revision = disk.revision
      BY <1>3 DEF DiskType
    <2>2. e \in EngineType /\ e.journal = disk.journal
      BY <1>1, <1>3, TurnedEngine
    <2> HIDE DEF d, e, taken
    <2>3. t # Legacy => disk.manifest[t].state \in Usable
      BY <1>1, <1>3, <1>7, <1>10 DEF Marked
    <2>4. Marked(d)
      BY <2>1, <2>3 DEF Marked, Outdated
    <2>5. \E disks \in Seq(S) :
             /\ disks # <<>> /\ Finalized(d, e, first) = Stages(disks, e, e1)
             /\ Marked(Saved(Last(disks), e1))
      BY <1>1, <1>4, <2>1, <2>2, <2>4, FinalizedMarked
    <2>6. S \subseteq T /\ disk \in T /\ \A z \in T : Marked(z)
      BY <1>3
    <2> HIDE DEF S, T, e1
    <2>7. PICK disks \in Seq(T) :
             /\ disks # <<>> /\ Finalized(d, e, first) = Stages(disks, e, e1)
             /\ Marked(Saved(Last(disks), e1))
      <3>1. PICK disks \in Seq(S) :
               /\ disks # <<>> /\ Finalized(d, e, first) = Stages(disks, e, e1)
               /\ Marked(Saved(Last(disks), e1))
        BY <2>5
      <3>2. disks \in Seq(T)
        BY <2>6, <3>1
      <3> QED
        BY <3>1, <3>2
    <2> DEFINE stages == <<Stage(disk, taken)>> \o Stages(disks, e, e1)
    <2>8. Completes(stages) \/ Crashes(stages)
      <3>1. Runs(stages)
        BY <1>10, <2>7
      <3>2. ~Fails(stages, TRUE)
        BY FailsCost DEF Calm
      <3> QED
        BY <3>1, <3>2 DEF Runs
    <2>9. \/ disk' = Saved(Last(disks), e1) /\ failing' = FALSE
          \/ disk' \in T /\ failing' = FALSE
      <3>1. stages = <<Stage(disk, taken)>> \o Stages(disks, e, e1)
        OBVIOUS
      <3> HIDE DEF stages
      <3> QED
        BY <2>6, <2>7, <2>8, <3>1, CommitEnd
    <2> QED
      BY <2>6, <2>7, <2>9 DEF MarkedNext
  <1> QED
    BY <1>5, <1>8, <1>9, <1>10

\* What is left of a target that is given up is marked as such.
LEMMA AbandonedMarked ==
    ASSUME Calm, Marked(disk), Open, Job.phase \notin Terminal, disk.pointer = Job.source,
           Job.phase = "committing" => Outdated(disk, Job)
    PROVE  LET S == {z \in DiskType : SameBut(disk, z) /\ Marked(z)}
           IN Abandoned \in Seq(S) /\ Abandoned # <<>>
  <1> DEFINE S == {z \in DiskType : SameBut(disk, z) /\ Marked(z)}
             t == Job.target
             x == [disk EXCEPT !.manifest[t].state = "quarantined"]
  <1>1. /\ disk \in DiskType /\ t \in All /\ JobInv(disk, Job) /\ Job = disk.journal.current
    BY JobBegins
  <1>2. disk \in S
    BY <1>1 DEF SameBut
  <1>3. CASE Job.preexisting \/ t = Legacy \/ disk.manifest[t] = NoManifest
    <2>1. Abandoned = <<disk>>
      BY <1>3 DEF Abandoned
    <2> HIDE DEF S
    <2> QED
      BY <1>2, <2>1, OneGood DEF S
  <1>4. CASE ~(Job.preexisting \/ t = Legacy \/ disk.manifest[t] = NoManifest)
    <2>1. Abandoned = <<disk, x>>
      BY <1>4 DEF Abandoned
    <2>2. t \in Gens /\ disk.manifest[t] # NoManifest /\ t # disk.pointer
      BY <1>1, <1>4 DEF All, JobInv
    <2>3. PICK m \in ManifestType : x = SetManifest(disk, t, m)
      <3>1. x = [disk EXCEPT !.manifest[t].state = "quarantined"]
        OBVIOUS
      <3> HIDE DEF x, t
      <3> QED
        BY <1>1, <2>2, <3>1, StateSet
    <2> HIDE DEF x
    <2>4. /\ x \in DiskType /\ SameBut(disk, x)
          /\ \A g \in Gens : g # t => x.manifest[g] = disk.manifest[g]
      <3>1. m \in ManifestType \cup {NoManifest}
        BY <2>3
      <3> HIDE DEF t
      <3> QED
        BY <1>1, <2>2, <2>3, <3>1, ManifestSet
    <2>5. Marked(x)
      <3>1. Running(disk.journal) /\ disk.journal.current.phase = "committing"
               => Outdated(disk, disk.journal.current)
        BY <1>1
      <3> HIDE DEF t
      <3> QED
        BY <1>1, <2>2, <2>4, <3>1, MarkedBut
    <2>6. x \in S
      BY <2>4, <2>5
    <2> HIDE DEF S
    <2> QED
      BY <1>2, <2>1, <2>6, TwoGood DEF S
  <1> QED
    BY <1>3, <1>4

\* A job that ends, in vain.
LEMMA MarkedEnds ==
    ASSUME Calm, Marked(disk), faults' = 0, Open, Job.phase \notin Terminal,
           disk.pointer = Job.source, Job.phase = "committing" => Outdated(disk, Job),
           NEW ph \in Terminal, NEW e, e = Dropped(To(ph)), NEW e0,
           NEW stages, stages = Stages(Abandoned, e0, e),
           Crashes(stages) \/ (disk' = Last(stages).disk /\ failing' = FALSE)
    PROVE  MarkedNext
  <1> DEFINE S == {z \in DiskType : SameBut(disk, z) /\ Marked(z)}
             k == [Job EXCEPT !.phase = ph]
             y == Last(Abandoned)
  <1>1. Abandoned \in Seq(S) /\ Abandoned # <<>>
    BY AbandonedMarked
  <1>2. \A z \in S : z \in DiskType /\ Marked(z)
    OBVIOUS
  <1> HIDE DEF S
  <1>3. y \in DiskType /\ Marked(y)
    BY <1>1, <1>2, LastOf
  <1>4. /\ engine \in EngineType /\ engine.journal = disk.journal
        /\ disk.journal \in JournalType /\ Job \in JobType
    BY HandlerBegins
  <1>5. k \in JobType /\ k.phase = ph
    <2>1. ph \in Phases
      BY DEF Phases, Terminal
    <2> QED
      BY <1>4, <2>1, Phased
  <1>6. e = Dropped(WithJob(engine, k))
    BY DEF To
  <1> HIDE DEF k
  <1>7. e.journal = [disk.journal EXCEPT !.current = k]
    BY <1>4, <1>5, <1>6, EngineForms
  <1>8. e.journal \in JournalType /\ ~Running(e.journal)
    BY <1>4, <1>5, <1>7 DEF JournalType, Running
  <1>9. Marked(Saved(y, e))
    <2> HIDE DEF y
    <2> QED
      BY <1>3, <1>8, MarkedSaved
  <1>10. Last(stages).disk = Saved(y, e)
    BY <1>1, StagePlaces DEF Stage
  <1>11. CASE Crashes(stages)
    <2>1. disk' \in S /\ failing' = FALSE
      BY <1>1, <1>11, StagesEnd
    <2> QED
      BY <1>2, <2>1 DEF MarkedNext
  <1>12. CASE disk' = Last(stages).disk /\ failing' = FALSE
    BY <1>9, <1>10, <1>12 DEF MarkedNext
  <1> QED
    BY <1>11, <1>12

LEMMA CancelledMarked ==
    ASSUME Calm, Marked(disk), faults' = 0, finish_switch_cancelled
    PROVE  MarkedNext
  <1> DEFINE e == Dropped(To("cancelled"))
             stages == Stages(Abandoned, engine, e)
  <1>1. Open /\ Job.phase \notin Terminal /\ Job.cancel_requested
    BY DEF finish_switch_cancelled
  <1>2. /\ disk.pointer = Job.source /\ Job.phase # "committing"
        /\ "cancelled" \in Terminal
    BY <1>1, JobBegins DEF Terminal
  <1>3. ~Fails(stages, TRUE)
    BY FailsCost DEF Calm
  <1>4. Crashes(stages) \/ (disk' = Last(stages).disk /\ failing' = FALSE)
    BY <1>3 DEF finish_switch_cancelled, Abandoned
  <1> HIDE DEF stages
  <1>5. stages = Stages(Abandoned, engine, e)
    BY DEF stages
  <1> HIDE DEF e
  <1> QED
    BY <1>1, <1>2, <1>4, <1>5, MarkedEnds DEF e

\* A commit that failed before the pointer was installed is given up, as outdated.
LEMMA FailedMarked ==
    ASSUME Calm, Marked(disk), failing => Refused(disk), faults' = 0, fail_model_switch
    PROVE  MarkedNext
  <1>1. failing /\ Open /\ Running(disk.journal)
    BY DEF fail_model_switch, Calm, FailingInv
  <1>2. /\ Job.phase \notin Terminal /\ Job = disk.journal.current
    BY <1>1, HandlerBegins DEF Running
  <1>3. /\ Job \in JobType /\ JobInv(disk, Job) /\ disk \in DiskType
        /\ engine \in EngineType /\ engine.journal = disk.journal
        /\ disk.journal \in JournalType /\ Job.target \in All
    BY <1>1, <1>2, JobBegins, HandlerBegins
  <1>4. \A s, then : Fails(s, then) => faults' # 0
    BY FailsCost DEF Calm
  <1>5. faults' # faults + 1
    BY DEF Calm
  <1>6. CASE disk.pointer # Job.target
    <2> DEFINE e == Dropped(To("failed"))
               stages == Stages(Abandoned, e, e)
    <2>1. disk.pointer = Job.source /\ "failed" \in Terminal
      BY <1>3, <1>6 DEF JobInv, Terminal
    <2>2. Job.phase = "committing" => Outdated(disk, Job)
      BY <1>1, <1>2, <1>6 DEF Refused
    <2>3. Crashes(stages) \/ (disk' = Last(stages).disk /\ failing' = FALSE)
      <3> HIDE DEF e
      <3>1. e = Dropped(To("failed"))
        BY DEF e
      <3> QED
        BY <1>4, <1>5, <1>6, <3>1 DEF fail_model_switch, Abandoned
    <2> HIDE DEF stages
    <2>4. stages = Stages(Abandoned, e, e)
      BY DEF stages
    <2> HIDE DEF e
    <2> QED
      BY <1>1, <1>2, <2>1, <2>2, <2>3, <2>4, MarkedEnds DEF e
  <1>7. CASE disk.pointer = Job.target
    <2> DEFINE k == [Job EXCEPT !.phase = "committing"]
               e0 == Dropped(WithJob(engine, k))
               e == [e0 EXCEPT !.active = disk.pointer]
               stages == Stages(<<disk>>, e, e)
    <2>1. k \in JobType /\ k.target = Job.target /\ k.revision = Job.revision
      BY <1>3, Phased DEF Phases, SameJob
    <2>2. e0 \in EngineType /\ e0.journal = [disk.journal EXCEPT !.current = k]
      <3> HIDE DEF k
      <3> QED
        BY <1>3, <2>1, EngineForms
    <2> HIDE DEF e0
    <2>3. e.journal = [disk.journal EXCEPT !.current = k]
      BY <2>2 DEF EngineType
    <2>4. \/ Crashes(stages)
          \/ disk' = Last(stages).disk /\ failing' = FALSE
      <3>1. e = [Dropped(To("committing")) EXCEPT !.active = disk.pointer]
        BY DEF e0, To
      <3> HIDE DEF e
      <3> QED
        BY <1>4, <1>5, <1>7, <3>1 DEF fail_model_switch
    <2> HIDE DEF e
    <2>5. e.journal \in JournalType /\ e.journal.current = k
      BY <1>3, <2>1, <2>3 DEF JournalType
    <2>6. Marked(Saved(disk, e))
      <3>1. k.revision <= disk.revision
        BY <1>1, <1>2, <2>1 DEF Marked
      <3>2. k.target # Legacy => disk.manifest[k.target].state \in Usable
        BY <1>7, <2>1 DEF Marked
      <3> HIDE DEF k
      <3> QED
        BY <1>3, <2>5, <3>1, <3>2, MarkedSaved
    <2>7. <<disk>> \in Seq({disk}) /\ <<disk>> # <<>> /\ Last(<<disk>>) = disk
      BY OneGood
    <2>8. Last(stages).disk = Saved(disk, e)
      <3>1. Last(stages) = Stage(Saved(Last(<<disk>>), e), e)
        BY <2>7, StagePlaces
      <3> HIDE DEF stages
      <3> QED
        BY <2>7, <3>1 DEF Stage
    <2>9. CASE Crashes(stages)
      <3>1. disk' \in {disk} /\ failing' = FALSE
        BY <2>7, <2>9, StagesEnd
      <3> QED
        BY <3>1 DEF MarkedNext
    <2>10. CASE disk' = Last(stages).disk /\ failing' = FALSE
      BY <2>6, <2>8, <2>10 DEF MarkedNext
    <2> QED
      BY <2>4, <2>9, <2>10
  <1> QED
    BY <1>6, <1>7

\* Memories change, or nothing does.
LEMMA MarkedMemories ==
    ASSUME Calm, Marked(disk), failing' => failing /\ UNCHANGED disk,
           failing => Refused(disk),
           disk'.pointer = disk.pointer, disk'.journal = disk.journal,
           disk'.manifest = disk.manifest, disk'.revision \in {disk.revision, disk.revision + 1}
    PROVE  MarkedNext
  <1>1. disk \in DiskType
    BY DEF Calm, DiskInv
  <1>2. disk.revision \in Nat /\ (Running(disk.journal) => disk.journal.current.revision \in Nat)
    BY <1>1, DiskFields, RunningJob DEF JobType
  <1>3. disk'.revision \in Nat /\ disk.revision <= disk'.revision
    BY <1>2
  <1>4. Marked(disk')
    BY <1>2, <1>3, MarkedSame
  <1> QED
    BY <1>4 DEF MarkedNext

LEMMA OthersMarked ==
    ASSUME Calm, Marked(disk), failing => Refused(disk), faults' = 0,
           \/ \E i \in Ids, v \in Versions : Mutate(i, v) \/ MutateJournaled(i, v)
           \/ Search \/ Crash \/ OpenEngine \/ UNCHANGED vars
    PROVE  MarkedNext
  <1>1. disk \in DiskType /\ disk.revision \in Nat /\ disk.pointer \in All
    BY DiskFields DEF Calm, DiskInv
  <1>2. ASSUME NEW i \in Ids, NEW v \in Versions, Mutate(i, v) \/ MutateJournaled(i, v)
        PROVE  MarkedNext
    <2>1. ~failing /\ UNCHANGED failing
      BY <1>2 DEF Mutate, MutateJournaled, MayMutate
    <2>2. /\ disk'.pointer = disk.pointer /\ disk'.journal = disk.journal
          /\ disk'.manifest = disk.manifest /\ disk'.revision = disk.revision + 1
      <3>1. CASE Mutate(i, v)
        BY <1>1, <3>1 DEF Mutate, DiskType
      <3>2. CASE MutateJournaled(i, v)
        BY <1>1, <3>2 DEF MutateJournaled, DiskType
      <3> QED
        BY <1>2, <3>1, <3>2
    <2> QED
      BY <2>1, <2>2, MarkedMemories
  <1>3. CASE Search
    <2>1. ~failing /\ UNCHANGED failing /\ disk' = [disk EXCEPT !.revision = @ + 1]
      BY <1>3 DEF Search
    <2>2. /\ disk'.pointer = disk.pointer /\ disk'.journal = disk.journal
          /\ disk'.manifest = disk.manifest /\ disk'.revision = disk.revision + 1
      BY <1>1, <2>1 DEF DiskType
    <2> QED
      BY <2>1, <2>2, MarkedMemories
  <1>4. CASE Crash \/ UNCHANGED vars
    <2>1. UNCHANGED disk /\ (failing' => failing)
      BY <1>4 DEF Crash, vars
    <2> QED
      BY <2>1, MarkedMemories
  <1>5. CASE OpenEngine
    <2>1. ~failing /\ disk.store[disk.pointer] = "sealed"
      BY <1>5 DEF OpenEngine, Calm, FailingInv, DiskInv
    <2>2. created(disk.pointer) = <<disk>> /\ Last(<<disk>>) = disk
      BY <2>1 DEF created, Last
    <2> DEFINE g == disk.pointer
               x == [disk EXCEPT !.docs[g] = [i \in Ids |-> Newest(i, @[i])],
                                 !.content = [i \in Ids |-> Newest(i, @[i])],
                                 !.pending = {}]
    <2>3. \/ disk' = x /\ UNCHANGED failing
          \/ \E e : Crashes(Stages(<<disk>>, Closed, e))
      <3>1. \/ /\ disk' = [Last(created(g)) EXCEPT
                               !.docs[g] = [i \in Ids |-> Newest(i, @[i])],
                               !.content = [i \in Ids |-> Newest(i, @[i])],
                               !.pending = {}]
               /\ UNCHANGED failing
            \/ \E e : Crashes(Stages(created(g), Closed, e))
        BY <1>5 DEF OpenEngine, Newest
      <3> QED
        BY <2>2, <3>1
    <2>5. /\ x.pointer = disk.pointer /\ x.journal = disk.journal
          /\ x.manifest = disk.manifest /\ x.revision = disk.revision
      BY <1>1 DEF DiskType
    <2> HIDE DEF x
    <2>6. CASE disk' = x /\ UNCHANGED failing
      BY <2>1, <2>5, <2>6, MarkedMemories
    <2>4. ASSUME NEW e, Crashes(Stages(<<disk>>, Closed, e))
          PROVE  disk' = disk /\ failing' = FALSE
      <3>1. <<disk>> \in Seq({disk}) /\ <<disk>> # <<>>
        BY OneGood
      <3>2. disk' \in {disk} /\ failing' = FALSE
        BY <2>4, <3>1, StagesEnd
      <3> QED
        BY <3>2
    <2>7. CASE \E e : Crashes(Stages(<<disk>>, Closed, e))
      BY <2>4, <2>7 DEF MarkedNext
    <2> QED
      BY <2>3, <2>6, <2>7
  <1> QED
    BY <1>2, <1>3, <1>4, <1>5

\* A request saves a journal with a job that is not to be committed yet.
LEMMA MarkedRequest ==
    ASSUME Calm, Marked(disk), NEW b, NEW e, e.journal = b, NEW e0,
           Running(b) => b.current.revision <= disk.revision /\ b.current.phase # "committing",
           Completes(Stages(<<disk>>, e0, e)) \/ Crashes(Stages(<<disk>>, e0, e))
    PROVE  MarkedNext
  <1>1. <<disk>> \in Seq({disk}) /\ <<disk>> # <<>> /\ Last(<<disk>>) = disk
    BY OneGood
  <1>2. Marked(Saved(disk, e))
    <2>1. disk \in DiskType
      BY DEF Calm, DiskInv
    <2> QED
      BY <2>1, MarkedSaved
  <1>3. \/ disk' = Saved(Last(<<disk>>), e) /\ failing' = FALSE
        \/ disk' \in {disk} /\ failing' = FALSE
    BY <1>1, StagesEnd
  <1> QED
    BY <1>1, <1>2, <1>3 DEF MarkedNext

LEMMA StartMarked ==
    ASSUME Calm, Marked(disk), faults' = 0,
           NEW target \in All, NEW rollback \in BOOLEAN, NEW retain \in BOOLEAN,
           NEW downtime \in BOOLEAN,
           start_model_switch(target, rollback, retain, downtime)
    PROVE  MarkedNext
  <1> DEFINE n == Cardinality(Present(disk.content))
             job == [id |-> started + 1, phase |-> IF rollback THEN "verifying" ELSE "queued",
                     source |-> engine.active, target |-> target,
                     cursor |-> IF rollback THEN n ELSE 0, total |-> n,
                     cancel_requested |-> FALSE, revision |-> disk.revision,
                     digest |-> disk.content, downtime |-> downtime, retain |-> retain,
                     preexisting |-> rollback, snapshot |-> TRUE]
             b == replace_current(disk.journal, job)
             e == [engine EXCEPT !.journal = replace_current(@, job)]
             stages == Stages(<<disk>>, engine, e)
  <1>1. Open /\ started' = started + 1 /\ UNCHANGED acked
    BY DEF start_model_switch
  <1>2. /\ disk \in DiskType /\ disk.journal \in JournalType
        /\ engine \in EngineType /\ engine.journal = disk.journal /\ disk.revision \in Nat
    BY <1>1, HandlerBegins, DiskFields
  <1>3. Completes(stages) \/ Crashes(stages)
    <2>1. ~Fails(stages, FALSE)
      BY FailsCost DEF Calm
    <2>2. Completes(stages) \/ Fails(stages, FALSE) \/ Crashes(stages)
      BY DEF start_model_switch
    <2> QED
      BY <2>1, <2>2
  <1>4. b.current = job
    BY DEF replace_current
  <1>5. job.revision = disk.revision /\ job.phase # "committing"
    OBVIOUS
  <1>6. e = [engine EXCEPT !.journal = b]
    BY <1>2
  <1> HIDE DEF b, job
  <1>7. e.journal = b
    BY <1>2, <1>6 DEF EngineType
  <1> HIDE DEF e, stages
  <1>8. Running(b) => b.current.revision <= disk.revision /\ b.current.phase # "committing"
    BY <1>2, <1>4, <1>5
  <1> QED
    BY <1>3, <1>7, <1>8, MarkedRequest DEF stages

LEMMA CancelMarked ==
    ASSUME Calm, Marked(disk), failing => Refused(disk), faults' = 0,
           cancel_model_switch \/ cancel_switch_from_disk
    PROVE  MarkedNext
  <1> DEFINE job == disk.journal.current
             k == Cancelled(job)
             b == [disk.journal EXCEPT !.current = k]
  <1>1. disk \in DiskType /\ disk.journal \in JournalType
    BY DiskFields DEF Calm, DiskInv
  <1>2. ASSUME job.phase \in can_cancel, job # NoJob
        PROVE  /\ b.current = k /\ Running(disk.journal)
               /\ k.revision = job.revision /\ k.phase # "committing"
    <2>1. job \in JobType /\ Running(disk.journal)
      BY <1>1, <1>2, RunningJob DEF can_cancel, Running
    <2>2. k.revision = job.revision /\ k.phase = "cancel_requested"
      BY <2>1 DEF Cancelled, JobType
    <2> HIDE DEF k
    <2> QED
      BY <1>1, <2>1, <2>2 DEF JournalType
  <1>3. ASSUME job.phase \in can_cancel, job # NoJob
        PROVE  Running(b) => b.current.revision <= disk.revision /\ b.current.phase # "committing"
    BY <1>2, <1>3 DEF Marked
  <1>4. CASE cancel_model_switch
    <2> DEFINE e == WithJob(engine, Cancelled(Job))
    <2>1. Open /\ Job.phase \in can_cancel /\ Job # NoJob
      BY <1>4 DEF cancel_model_switch
    <2>2. Job = job /\ engine \in EngineType /\ engine.journal = disk.journal
      BY <2>1, HandlerBegins
    <2>3. e.journal = b
      BY <1>1, <2>2 DEF WithJob, EngineType
    <2>4. Completes(Stages(<<disk>>, engine, e)) \/ Crashes(Stages(<<disk>>, engine, e))
      <3>1. ~Fails(Stages(<<disk>>, engine, e), FALSE)
        BY FailsCost DEF Calm
      <3> QED
        BY <1>4, <3>1 DEF cancel_model_switch
    <2> HIDE DEF b, e
    <2> QED
      BY <1>3, <2>1, <2>2, <2>3, <2>4, MarkedRequest
  <1>5. CASE cancel_switch_from_disk
    <2>1. /\ job.phase \in can_cancel /\ ~Open /\ UNCHANGED failing
          /\ disk' = [disk EXCEPT !.journal.current = Cancelled(@)]
      BY <1>5 DEF cancel_switch_from_disk
    <2>2. job # NoJob
      BY <2>1 DEF can_cancel, NoJob, Terminal
    <2>3. disk' = Saved(disk, [journal |-> b])
      BY <1>1, <2>1 DEF Saved, DiskType
    <2>4. ~failing
      BY <2>1 DEF Calm, FailingInv
    <2>5. [journal |-> b].journal = b
      OBVIOUS
    <2> HIDE DEF b
    <2>6. Marked(Saved(disk, [journal |-> b]))
      BY <1>1, <1>3, <2>1, <2>2, <2>5, MarkedSaved
    <2> QED
      BY <2>1, <2>3, <2>4, <2>6 DEF MarkedNext
  <1> QED
    BY <1>4, <1>5

\* Until a write fails every step keeps the manifests in order.
LEMMA NextMarked ==
    ASSUME ~MayRefuse, Calm, Marked(disk), failing => Refused(disk), faults' = 0, [Next]_vars
    PROVE  MarkedNext
  <1>1. CASE \E target \in All, rollback, retain, downtime \in BOOLEAN :
               start_model_switch(target, rollback, retain, downtime)
    BY <1>1, StartMarked
  <1>2. CASE Step
    BY <1>2, QueuedMarked, ValidatingMarked, DownloadingMarked, PreparingMarked,
       ReindexingMarked, VerifyingMarked, CommittingMarked, CancelledMarked, FailedMarked
       DEF Step
  <1>3. CASE cancel_model_switch \/ cancel_switch_from_disk
    BY <1>3, CancelMarked
  <1>4. CASE \/ \E i \in Ids, v \in Versions : Mutate(i, v) \/ MutateJournaled(i, v)
             \/ Search \/ Crash \/ OpenEngine \/ UNCHANGED vars
    BY <1>4, OthersMarked
  <1> QED
    BY <1>1, <1>2, <1>3, <1>4 DEF Next

-----------------------------------------------------------------------------
\* The generation that the pointer names is there and holds exactly the memories
\* of state.json, and the open engine works on it with the model that made it.
ServesCurrent ==
    /\ disk.store[disk.pointer] = "sealed"
    /\ Holds(disk.pointer)
    /\ Open => /\ engine.serving = disk.pointer /\ engine.active = disk.pointer
               /\ engine.embedder \in {None, ProfileOf[engine.serving]}

\* Whatever loads, downloads and probes fail and wherever a crash interrupts a
\* handler (commit_target_generation, fail_model_switch, open_with_inference_lock).
THEOREM ActiveServes == Spec => [](faults = 0 /\ ~looped => ServesCurrent)
  <1>1. SwitchInv => (faults = 0 /\ ~looped => ServesCurrent)
    <2> SUFFICES ASSUME SwitchInv, faults = 0, ~looped PROVE ServesCurrent
      OBVIOUS
    <2>1. DiskInv(disk, acked, started) /\ (Open => EngineInv(disk, engine))
      BY DEF SwitchInv
    <2> QED
      BY <2>1 DEF ServesCurrent, Holds, Settled, DiskInv, EngineInv
  <1> QED
    BY <1>1, SwitchFollows, PTL

\* Where nothing but the files themselves stops a switch, its manifest lets the
\* generation that the pointer names be opened, too.
THEOREM ActiveIsSound ==
    ~MayRefuse => (Spec => [](faults = 0 => ActiveIsCurrent))
  <1> SUFFICES ASSUME ~MayRefuse
               PROVE  Spec => [](faults = 0 => ActiveIsCurrent)
    OBVIOUS
  <1>1. Init => ManifestInv
    <2> SUFFICES ASSUME Init PROVE ManifestInv
      OBVIOUS
    <2>1. ~failing /\ faults = 0 /\ SwitchInv
      BY InitSafe DEF Init
    <2>2. PICK journal \in Found : disk = Project(journal)
      BY DEF Init
    <2>3. disk.pointer = Legacy /\ disk.journal = journal /\ disk.revision = 1
      BY <2>2 DEF Project
    <2>4. Running(journal) => journal.current.revision = 1 /\ journal.current.phase = "downloading"
      BY DEF Found, Inherited, Journal, NoJob, Running, Terminal
    <2> QED
      BY <2>1, <2>3, <2>4 DEF ManifestInv, Marked
  <1>2. SwitchInv /\ ManifestInv /\ [Next]_vars => ManifestInv'
    <2> SUFFICES ASSUME SwitchInv, ManifestInv, [Next]_vars, faults' = 0, ~looped'
                 PROVE  MarkedNext
      BY DEF ManifestInv, MarkedNext, Marked, Refused
    <2>1. faults = 0
      <3>1. CASE UNCHANGED vars
        BY <3>1 DEF vars
      <3>2. CASE Next
        <4>1. faults \in 0 .. MaxFaults /\ faults <= faults' /\ MaxFaults \in Nat
          BY <3>2, CountersGrow, SwitchConstants DEF SwitchInv
        <4> QED
          BY <4>1
      <3> QED
        BY <3>1, <3>2
    <2>3. ~looped
      BY LoopRemembered DEF SwitchInv
    <2>2. Calm
      BY <2>1, <2>3 DEF SwitchInv, Calm
    <2> QED
      BY <2>1, <2>2, <2>3, NextMarked DEF ManifestInv
  <1>3. SwitchInv /\ ManifestInv => (faults = 0 => ActiveIsCurrent)
    <2> SUFFICES ASSUME SwitchInv, ManifestInv, faults = 0, ~looped PROVE ActiveIsCurrent
      BY DEF ActiveIsCurrent
    <2>1. DiskInv(disk, acked, started) /\ (Open => EngineInv(disk, engine)) /\ Marked(disk)
      BY DEF SwitchInv, ManifestInv
    <2> QED
      BY <2>1 DEF ActiveIsCurrent, Holds, Settled, DiskInv, EngineInv, Marked, Usable
  <1> QED
    BY <1>1, <1>2, <1>3, SwitchFollows, PTL DEF Spec
=============================================================================

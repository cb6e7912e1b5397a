-------------------------- MODULE ActorRegistryProofs --------------------------
(***************************************************************************)
(* What holds of the registry for any number of tasks, actors and panics:  *)
(*                                                                         *)
(*   RegistryFollows  Spec => []RegistryInv                                *)
(*   WorkersAlternate Spec => []OneServingWorker                           *)
(*   LeasesHold       Spec => []LeasedIsKept                               *)
(*                                                                         *)
(* The argument.  A task stops an actor only when its worker is on its way *)
(* out (Stoppers); the main loop stops one only while nobody leases it,    *)
(* and keeps the registry's lock until a task that looks can see that it   *)
(* is draining (Evicting).  So a worker that serves is the one of the      *)
(* registry's entry (Current): whoever removes the entry has joined the    *)
(* thread, or found that another party has taken its handle, which happens *)
(* to a serving worker only when that party is the main loop (Handles).    *)
(***************************************************************************)
EXTENDS ActorRegistry, FiniteSetTheorems, TLAPS

-----------------------------------------------------------------------------
(* The invariant.                                                          *)

Serving(a) == act[a].worker \in {"opening", "recv", "run"}
Over(a) == act[a].worker \in {"exiting", "gone"}
Holders(a) == {t \in Task : task[t].pc \in {"wait_ready", "leased"} /\ task[t].on = a}
Stopping == {"drain", "send_draining", "send_stop", "take", "join", "remove"}

\* Nothing refers to an actor that is not yet spawned.
Births ==
    /\ current <= spawned
    /\ \A a \in Actor : a > spawned => act[a] = Unborn
    /\ \A t \in Party : /\ task[t].on <= spawned
                        /\ task[t].pc \notin {"idle", "lookup"} => task[t].on # NoActor
    /\ task["main"].pc \in {"idle"} \cup Stopping

\* The leases of an actor are those of the tasks that wait for it or hold it.
Counted == \A a \in Actor : act[a].leases = Cardinality(Holders(a))

\* An actor that opens is waited for, and does not look as if it were going.
Opening ==
    \A a \in Actor : act[a].worker = "opening" =>
        act[a].state = "opening" /\ \E t \in Holders(a) : task[t].pc = "wait_ready"

\* Until an eviction is visible nobody can have, or get, a lease on the actor.
Evicting ==
    task["main"].pc \in {"drain", "send_draining"} =>
        LET a == task["main"].on
        IN lock /\ Holders(a) = {} /\ act[a].worker # "opening"

Visible ==
    \A a \in Actor :
        /\ ~act[a].accepting => is_draining(a) \/ task["main"] = [pc |-> "send_draining", on |-> a]
        /\ act[a].state \in {"failed", "closed"} => Over(a)

\* A task stops an actor, or forgets it, when its worker is on its way out.
Stoppers ==
    \A t \in Task : task[t].pc \in {"forget"} \cup Stopping =>
        Over(task[t].on) /\ is_draining(task[t].on)

\* So does an actor that is leased go.
Leased ==
    \A a \in Actor : Holders(a) # {} =>
        /\ is_draining(a) => Over(a)
        /\ act[a].accepting \/ Over(a)

Current == \A a \in Actor : Serving(a) => current = a

Handles ==
    /\ \A a \in Actor : Serving(a) /\ ~act[a].handle => task["main"] = [pc |-> "join", on |-> a]
    /\ task["main"].pc = "remove" => ~Serving(task["main"].on)

RegistryInv ==
    /\ TypeOK /\ Births /\ Counted
    /\ Opening /\ Evicting /\ Visible /\ Stoppers /\ Leased
    /\ Current /\ Handles

-----------------------------------------------------------------------------
(* Lemmas.                                                                 *)

LEMMA HoldersFinite == \A a : IsFiniteSet(Holders(a)) /\ Holders(a) \subseteq Task
  BY RegistryAssumption, FS_Subset DEF Holders

\* A task that holds a lease is counted.
LEMMA HolderCounts ==
    ASSUME RegistryInv, NEW a \in Actor, NEW t \in Holders(a)
    PROVE  act[a].leases \in Nat \ {0}
  <1>1. Cardinality(Holders(a)) \in Nat /\ Cardinality(Holders(a)) # 0
    BY HoldersFinite, FS_CardinalityType, FS_EmptySet
  <1> QED
    BY <1>1 DEF RegistryInv, Counted

\* An actor that something is known of has been spawned.
LEMMA Spawned ==
    ASSUME RegistryInv, NEW a \in Actor, act[a].worker # "none"
    PROVE  a <= spawned
  <1>1. spawned \in Nat /\ a \in Nat
    BY DEF RegistryInv, TypeOK, Actor
  <1> QED
    BY <1>1 DEF RegistryInv, Births, Unborn

LEMMA InitRegistry == Init => RegistryInv
  <1> SUFFICES ASSUME Init PROVE RegistryInv
    OBVIOUS
  <1>1. \A a \in Actor : act[a] = Unborn
    BY DEF Init
  <1>2. \A t \in Party : task[t] = [pc |-> "idle", on |-> NoActor]
    BY DEF Init, Idle
  <1>3. TypeOK
    <2>1. Unborn \in ActorType
      BY DEF Unborn, ActorType
    <2>2. act \in [Actor -> ActorType]
      BY <2>1 DEF Init
    <2>3. 0 \in 0 .. MaxActors /\ 0 \in 0 .. MaxPanics
      BY RegistryAssumption
    <2> QED
      BY <2>2, <2>3 DEF Init, TypeOK, TaskType, Idle
  <1>4. \A a : Holders(a) = {}
    BY <1>2 DEF Holders, Party
  <1>5. Counted
    BY <1>1, <1>4, FS_EmptySet DEF Counted, Unborn
  <1>6. Births
    BY <1>1, <1>2 DEF Init, Births, NoActor, Party
  <1>7. Opening /\ Evicting /\ Visible /\ Leased /\ Current
    BY <1>1, <1>2, <1>4 DEF Opening, Evicting, Visible, Leased, Current, Unborn, Serving, Party
  <1>8. Stoppers /\ Handles
    BY <1>1, <1>2 DEF Stoppers, Handles, Stopping, Unborn, Serving, Party
  <1> QED
    BY <1>3, <1>5, <1>6, <1>7, <1>8 DEF RegistryInv

-----------------------------------------------------------------------------
(* The worker threads.                                                     *)

\* What no step of a worker does: serve again, open again, or hide its end.
LEMMA WorkerMoves ==
    ASSUME RegistryInv, NEW a \in Actor, Worker(a)
    PROVE  /\ UNCHANGED <<current, task, lock, spawned>>
           /\ act' = [act EXCEPT ![a] = act'[a]]
           /\ act'[a] \in ActorType
           /\ act'[a].leases = act[a].leases /\ act'[a].handle = act[a].handle
           /\ act'[a].accepting = act[a].accepting
           /\ act[a].worker # "none" /\ act'[a].worker # "opening"
           /\ Serving(a)' => Serving(a)
           /\ Over(a) => Over(a)'
           /\ is_draining(a)' <=> is_draining(a) \/ act'[a].state \in {"failed", "closed"}
           /\ act'[a].state \in {"failed", "closed"} => Over(a)'
           /\ panics' \in 0 .. MaxPanics
  <1>1. TypeOK /\ (act[a].state \in {"failed", "closed"} => Over(a))
        /\ (act[a].worker = "opening" => act[a].state = "opening")
    BY DEF RegistryInv, Visible, Opening
  <1>2. act[a] \in ActorType
    BY <1>1 DEF TypeOK
  <1>3. panics \in 0 .. MaxPanics /\ MaxPanics \in Nat /\ act \in [Actor -> {act[b] : b \in Actor}]
    BY <1>1, RegistryAssumption DEF TypeOK
  <1>4. CASE Open(a)
    BY <1>1, <1>2, <1>3, <1>4 DEF Open, Work, Serving, Over, is_draining, ActorType
  <1>5. CASE Receive(a)
    <2>1. act[a].queued - 1 = 0
      BY <1>2, <1>5 DEF Receive, ActorType
    <2>2. /\ act[a].worker = "recv" /\ UNCHANGED <<current, task, lock, spawned, panics>>
          /\ act' = [act EXCEPT ![a] = [act[a] EXCEPT !.worker = "run", !.queued = 0, !.busy = TRUE]]
      BY <1>5, <2>1 DEF Receive, Work
    <2> QED
      BY <1>1, <1>2, <1>3, <2>2 DEF Serving, Over, is_draining, ActorType
  <1>6. CASE Finish(a)
    BY <1>1, <1>2, <1>3, <1>6 DEF Finish, Work, Serving, Over, is_draining, ActorType
  <1>7. CASE Panic(a)
    <2>1. panics' \in 0 .. MaxPanics
      BY <1>3, <1>7 DEF Panic
    <2>2. act[a].worker = "run" /\ UNCHANGED <<current, task, lock, spawned>>
      BY <1>7 DEF Panic, Work
    <2>3. CASE act' = [act EXCEPT ![a] = [act[a] EXCEPT !.worker = "failing", !.busy = FALSE]]
      BY <1>1, <1>2, <1>3, <2>1, <2>2, <2>3 DEF Serving, Over, is_draining, ActorType
    <2>4. CASE act' = [act EXCEPT ![a] = [act[a] EXCEPT !.worker = "exiting"]]
      BY <1>1, <1>2, <1>3, <2>1, <2>2, <2>4 DEF Serving, Over, is_draining, ActorType
    <2> QED
      BY <1>7, <2>3, <2>4 DEF Panic, Work
  <1>8. CASE Fail(a)
    BY <1>1, <1>2, <1>3, <1>8 DEF Fail, Work, Serving, Over, is_draining, ActorType
  <1>9. CASE ReceiveStop(a)
    BY <1>1, <1>2, <1>3, <1>9 DEF ReceiveStop, Work, Serving, Over, is_draining, ActorType
  <1>10. CASE Exit(a)
    BY <1>1, <1>2, <1>3, <1>10 DEF Exit, Work, Serving, Over, is_draining, ActorType
  <1> QED
    BY <1>4, <1>5, <1>6, <1>7, <1>8, <1>9, <1>10 DEF Worker

LEMMA WorkerStep ==
    ASSUME RegistryInv, NEW a \in Actor, Worker(a)
    PROVE  RegistryInv'
  <1>1. /\ UNCHANGED <<current, task, lock, spawned>>
        /\ act' = [act EXCEPT ![a] = act'[a]]
        /\ panics' \in 0 .. MaxPanics
    BY WorkerMoves
  <1>2. TypeOK'
    BY <1>1, WorkerMoves DEF RegistryInv, TypeOK
  <1>3. act \in [Actor -> {act[b] : b \in Actor}]
    BY DEF RegistryInv, TypeOK
  <1>4. \A b \in Actor : b # a => act'[b] = act[b]
    BY <1>1, <1>3
  <1>5. \A b : Holders(b)' = Holders(b)
    BY <1>1 DEF Holders
  <1>6. Births'
    <2>1. a <= spawned
      BY WorkerMoves, Spawned
    <2>2. spawned \in Nat /\ a \in Nat
      BY DEF RegistryInv, TypeOK, Actor
    <2> QED
      BY <1>1, <1>4, <2>1, <2>2 DEF RegistryInv, Births
  <1>7. Counted'
    BY <1>4, <1>5, WorkerMoves DEF RegistryInv, Counted
  <1>8. Opening'
    BY <1>1, <1>4, <1>5, WorkerMoves DEF RegistryInv, Opening
  <1>9. Evicting'
    <2> SUFFICES ASSUME task["main"].pc \in {"drain", "send_draining"}
                 PROVE  /\ lock /\ Holders(task["main"].on) = {}
                        /\ act'[task["main"].on].worker # "opening"
      BY <1>1, <1>5 DEF Evicting
    <2>1. task["main"].on \in Actor
      BY DEF RegistryInv, TypeOK, TaskType, Births, Party
    <2> QED
      BY <2>1, <1>4, WorkerMoves DEF RegistryInv, Evicting
  <1>10. Visible'
    BY <1>1, <1>4, WorkerMoves DEF RegistryInv, Visible, is_draining, Over
  <1>11. Stoppers'
    <2> SUFFICES ASSUME NEW t \in Task, task[t].pc \in {"forget"} \cup Stopping
                 PROVE  Over(task[t].on)' /\ is_draining(task[t].on)'
      BY <1>1 DEF Stoppers
    <2>1. task[t].on \in Actor
      BY DEF RegistryInv, TypeOK, TaskType, Births, Party, Stopping
    <2>2. Over(task[t].on) /\ is_draining(task[t].on)
      BY DEF RegistryInv, Stoppers
    <2> QED
      BY <1>1, <2>1, <2>2, <1>4, WorkerMoves DEF Over, is_draining
  <1>12. Leased'
    BY <1>1, <1>4, <1>5, WorkerMoves DEF RegistryInv, Leased, is_draining, Over
  <1>13. Current'
    BY <1>1, <1>4, WorkerMoves DEF RegistryInv, Current, Serving
  <1>14. Handles'
    <2>1. \A b \in Actor : Serving(b)' => Serving(b) /\ act'[b].handle = act[b].handle
      BY <1>4, WorkerMoves DEF Serving
    <2>2. task["main"].pc = "remove" => task["main"].on \in Actor
      BY DEF RegistryInv, TypeOK, TaskType, Births, Party
    <2> QED
      BY <1>1, <2>1, <2>2 DEF RegistryInv, Handles, Serving
  <1> QED
    BY <1>2, <1>6, <1>7, <1>8, <1>9, <1>10, <1>11, <1>12, <1>13, <1>14 DEF RegistryInv

-----------------------------------------------------------------------------
(* Tasks: asking, leasing, calling and giving back.                        *)

\* A party that goes on to its next place.
LEMMA GotoMoves ==
    ASSUME TypeOK, NEW t \in Party, NEW pc, Goto(t, pc),
           [pc |-> pc, on |-> task[t].on] \in TaskType
    PROVE  /\ task' = [task EXCEPT ![t] = [pc |-> pc, on |-> task[t].on]]
           /\ task' \in [Party -> TaskType]
           /\ task'[t] = [pc |-> pc, on |-> task[t].on]
           /\ \A u \in Party : u # t => task'[u] = task[u]
  <1>1. task \in [Party -> TaskType] /\ task[t] = [pc |-> task[t].pc, on |-> task[t].on]
    BY DEF TypeOK, TaskType
  <1>2. task' = [task EXCEPT ![t] = [pc |-> pc, on |-> task[t].on]]
    <2>1. task[t] \in TaskType
      BY <1>1
    <2>2. [task[t] EXCEPT !.pc = pc] = [pc |-> pc, on |-> task[t].on]
      BY <2>1 DEF TaskType
    <2> QED
      BY <2>2 DEF Goto
  <1> QED
    BY <1>1, <1>2

\* A party that holds no lease before and after a step leaves the holders.
LEMMA HoldersStay ==
    ASSUME NEW t \in Party,
           task[t].pc \notin {"wait_ready", "leased"}, task'[t].pc \notin {"wait_ready", "leased"},
           \A u \in Party : u # t => task'[u] = task[u]
    PROVE  \A a : Holders(a)' = Holders(a)
  BY DEF Holders, Party

\* A task that holds no lease and stops nothing, before and after.
LEMMA PassiveStep ==
    ASSUME RegistryInv, NEW t \in Task, UNCHANGED <<act, current, lock, spawned, panics>>,
           task' \in [Party -> TaskType],
           \A u \in Party : u # t => task'[u] = task[u],
           task[t].pc \in {"idle", "lookup", "wait_closed", "forget"},
           task'[t].pc \in {"idle", "lookup", "wait_closed", "forget"},
           task'[t].pc = "forget" => Over(task'[t].on) /\ is_draining(task'[t].on),
           task'[t].on <= spawned, task'[t].pc \notin {"idle", "lookup"} => task'[t].on # NoActor
    PROVE  RegistryInv'
  <1>1. t \in Party /\ task'["main"] = task["main"] /\ "main" \in Party
    BY RegistryAssumption DEF Party
  <1>2. \A a : Holders(a)' = Holders(a)
    BY <1>1, HoldersStay
  <1>3. TypeOK' /\ Births'
    BY <1>1 DEF RegistryInv, TypeOK, Births
  <1>4. Counted' /\ Evicting' /\ Visible' /\ Leased' /\ Current' /\ Handles'
    BY <1>1, <1>2 DEF RegistryInv, Counted, Evicting, Visible, Leased, Current, Handles, is_draining,
                      Over, Serving
  <1>5. Opening'
    BY <1>2 DEF RegistryInv, Opening, Holders, Party
  <1>6. Stoppers'
    BY DEF RegistryInv, Stoppers, Stopping, Over, is_draining, Party
  <1> QED
    BY <1>3, <1>4, <1>5, <1>6 DEF RegistryInv

LEMMA AskStep ==
    ASSUME RegistryInv, NEW t \in Task, Ask(t)
    PROVE  RegistryInv'
  <1>1. t \in Party /\ TypeOK /\ [pc |-> "lookup", on |-> task[t].on] \in TaskType
    BY DEF Party, RegistryInv, TypeOK, TaskType
  <1>2. /\ task' \in [Party -> TaskType]
        /\ task'[t] = [pc |-> "lookup", on |-> task[t].on]
        /\ \A u \in Party : u # t => task'[u] = task[u]
    BY <1>1, GotoMoves DEF Ask
  <1>3. task[t].on <= spawned
    BY <1>1 DEF RegistryInv, Births
  <1> QED
    BY <1>2, <1>3, PassiveStep DEF Ask

LEMMA WaitClosedStep ==
    ASSUME RegistryInv, NEW t \in Task, wait_closed(t)
    PROVE  RegistryInv'
  <1>1. t \in Party /\ TypeOK /\ [pc |-> "forget", on |-> task[t].on] \in TaskType
    BY DEF Party, RegistryInv, TypeOK, TaskType
  <1>2. /\ task' \in [Party -> TaskType]
        /\ task'[t] = [pc |-> "forget", on |-> task[t].on]
        /\ \A u \in Party : u # t => task'[u] = task[u]
    BY <1>1, GotoMoves DEF wait_closed
  <1>3. task[t].on <= spawned /\ task[t].on # NoActor /\ task[t].on \in Actor
    BY <1>1 DEF RegistryInv, Births, TypeOK, TaskType, wait_closed
  <1>4. Over(task[t].on) /\ is_draining(task[t].on)
    BY <1>3 DEF wait_closed, RegistryInv, Visible, is_draining
  <1> QED
    BY <1>2, <1>3, <1>4, PassiveStep DEF wait_closed

\* A call in the queue changes nothing that the registry looks at.
LEMMA SendCallStep ==
    ASSUME RegistryInv, NEW t \in Task, SendCall(t)
    PROVE  RegistryInv'
  <1> DEFINE a == task[t].on
  <1>1. TypeOK /\ t \in Party /\ a \in Actor /\ a <= spawned
    BY DEF RegistryInv, TypeOK, TaskType, Births, Party, SendCall
  <1>2. /\ UNCHANGED <<current, task, lock, spawned, panics>>
        /\ act' = [act EXCEPT ![a] = [act[a] EXCEPT !.queued = 1]]
    BY <1>1 DEF SendCall, TypeOK
  <1>3. TypeOK'
    BY <1>1, <1>2 DEF TypeOK, ActorType
  <1>4. \A b \in Actor : /\ act'[b].state = act[b].state /\ act'[b].worker = act[b].worker
                         /\ act'[b].leases = act[b].leases /\ act'[b].handle = act[b].handle
                         /\ act'[b].accepting = act[b].accepting
    BY <1>1, <1>2 DEF TypeOK, ActorType
  <1>5. \A b \in Actor : b > spawned => act'[b] = act[b]
    BY <1>1, <1>2 DEF TypeOK, Actor
  <1>6. \A b : Holders(b)' = Holders(b)
    BY <1>2 DEF Holders
  <1>7. task["main"].pc # "idle" => task["main"].on \in Actor
    BY <1>1 DEF RegistryInv, Births, TypeOK, TaskType, Party, Stopping
  <1>8. \A u \in Task : task[u].pc \in {"forget"} \cup Stopping => task[u].on \in Actor
    BY <1>1 DEF RegistryInv, Births, TypeOK, TaskType, Party, Stopping
  <1> HIDE DEF a
  <1>9. Births' /\ Counted' /\ Opening'
    BY <1>2, <1>4, <1>5, <1>6 DEF RegistryInv, Births, Counted, Opening
  <1>10. Evicting' /\ Visible' /\ Stoppers' /\ Leased'
    BY <1>2, <1>4, <1>6, <1>7, <1>8
    DEF RegistryInv, Evicting, Visible, Stoppers, Leased, is_draining, Over
  <1>11. Current' /\ Handles'
    BY <1>2, <1>4, <1>7 DEF RegistryInv, Current, Handles, Serving
  <1> QED
    BY <1>3, <1>9, <1>10, <1>11 DEF RegistryInv

\* A lease on the actor that is there, or on a new one.
LEMMA LeaseStep ==
    ASSUME RegistryInv, NEW t \in Task, NEW a \in Actor, task[t].pc = "lookup", ~lock,
           task' = [task EXCEPT ![t] = [pc |-> "wait_ready", on |-> a]],
           \/ /\ a = current /\ ~is_draining(a) /\ UNCHANGED <<current, spawned>>
              /\ act' = [act EXCEPT ![a].leases = @ + 1]
           \/ /\ current = NoActor /\ a = spawned + 1 /\ spawned' = a /\ current' = a
              /\ act' = [act EXCEPT ![a] = [Unborn EXCEPT !.leases = 1, !.worker = "opening",
                                                          !.handle = TRUE]],
           UNCHANGED <<lock, panics>>
    PROVE  RegistryInv'
  <1>1. TypeOK /\ t \in Party /\ "main" \in Party /\ t # "main"
    BY RegistryAssumption DEF RegistryInv, Party
  <1>2. spawned \in Nat /\ MaxActors \in Nat /\ current \in Nat /\ Actor \subseteq Nat
    BY <1>1, RegistryAssumption DEF TypeOK, Actor, NoActor
  <1>3. /\ task' \in [Party -> TaskType] /\ task'[t] = [pc |-> "wait_ready", on |-> a]
        /\ \A u \in Party : u # t => task'[u] = task[u]
    BY <1>1 DEF TypeOK, TaskType
  <1>4. Holders(a)' = Holders(a) \cup {t} /\ t \notin Holders(a)
        /\ \A b : b # a => Holders(b)' = Holders(b)
    BY <1>3 DEF Holders, Party
  <1>5. /\ act' \in [Actor -> ActorType] /\ act'[a].leases = act[a].leases + 1
        /\ \/ act'[a].handle = act[a].handle /\ act'[a].worker = act[a].worker
           \/ act'[a].handle /\ a > spawned
        /\ ~is_draining(a)' /\ spawned' \in 0 .. MaxActors
        /\ spawned <= spawned' /\ a <= spawned' /\ current' = a
        /\ act'[a].worker = "opening" => act'[a].state = "opening"
        /\ \A b \in Actor : b # a => act'[b] = act[b] /\ (Serving(b) => current = b)
        /\ act'[a].accepting
    <2>1. CASE /\ a = current /\ ~is_draining(a) /\ UNCHANGED <<current, spawned>>
               /\ act' = [act EXCEPT ![a].leases = @ + 1]
      <3>1. act[a] \in ActorType /\ [act[a] EXCEPT !.leases = @ + 1] \in ActorType
        BY <1>1 DEF TypeOK, ActorType
      <3>2. act' = [act EXCEPT ![a] = [act[a] EXCEPT !.leases = @ + 1]]
        BY <2>1
      <3>3. act[a].accepting
        <4>1. task["main"] # [pc |-> "send_draining", on |-> a]
          BY DEF RegistryInv, Evicting
        <4> QED
          BY <2>1, <4>1 DEF RegistryInv, Visible
      <3>4. act' \in [Actor -> ActorType] /\ act'[a] = [act[a] EXCEPT !.leases = @ + 1]
            /\ \A b \in Actor : b # a => act'[b] = act[b]
        BY <1>1, <3>1, <3>2 DEF TypeOK
      <3>5. /\ act'[a].leases = act[a].leases + 1 /\ act'[a].handle = act[a].handle
            /\ act'[a].state = act[a].state /\ act'[a].worker = act[a].worker
            /\ act'[a].accepting = act[a].accepting
        BY <3>1, <3>4 DEF ActorType
      <3> QED
        BY <1>1, <2>1, <3>3, <3>4, <3>5
        DEF RegistryInv, TypeOK, Births, Opening, is_draining, Current, Serving
    <2>2. CASE /\ current = NoActor /\ a = spawned + 1 /\ spawned' = a /\ current' = a
               /\ act' = [act EXCEPT ![a] = [Unborn EXCEPT !.leases = 1, !.worker = "opening",
                                                           !.handle = TRUE]]
      <3>1. act[a] = Unborn
        BY <1>2, <2>2 DEF RegistryInv, Births
      <3> DEFINE new == [Unborn EXCEPT !.leases = 1, !.worker = "opening", !.handle = TRUE]
      <3>2. /\ new \in ActorType /\ new.state = "opening" /\ new.worker = "opening"
            /\ new.leases = Unborn.leases + 1 /\ new.handle /\ new.accepting
        <4>1. /\ Unborn \in ActorType /\ Unborn.state = "opening" /\ Unborn.accepting
              /\ Unborn.leases = 0
          BY DEF Unborn, ActorType
        <4>2. ASSUME NEW u \in ActorType
              PROVE  LET v == [u EXCEPT !.leases = 1, !.worker = "opening", !.handle = TRUE] IN
                     /\ v \in ActorType /\ v.state = u.state /\ v.worker = "opening"
                     /\ v.leases = 1 /\ v.handle = TRUE /\ v.accepting = u.accepting
          BY DEF ActorType
        <4>3. /\ new \in ActorType /\ new.state = Unborn.state /\ new.worker = "opening"
              /\ new.leases = 1 /\ new.handle = TRUE /\ new.accepting = Unborn.accepting
          BY <4>1, <4>2
        <4> HIDE DEF new
        <4> QED
          BY <4>1, <4>3
      <3>3. act' \in [Actor -> ActorType] /\ act'[a] = new
            /\ \A b \in Actor : b # a => act'[b] = act[b]
        BY <1>1, <2>2, <3>2 DEF TypeOK
      <3> HIDE DEF new
      <3>4. a \in 0 .. MaxActors /\ spawned <= a /\ a <= a /\ a > spawned
        BY <1>2, <2>2 DEF Actor
      <3> QED
        BY <2>2, <3>1, <3>2, <3>3, <3>4 DEF is_draining, RegistryInv, Current
    <2> QED
      BY <2>1, <2>2
  <1>6. TypeOK'
    BY <1>1, <1>3, <1>5 DEF TypeOK
  <1>7. Births'
    <2>1. \A b \in Actor : b > spawned' => act'[b] = Unborn
      BY <1>2, <1>5 DEF RegistryInv, Births
    <2>2. \A u \in Party : u # t => task'[u].on <= spawned'
      <3> SUFFICES ASSUME NEW u \in Party, u # t PROVE task[u].on <= spawned'
        BY <1>3
      <3>1. task[u].on <= spawned /\ task[u].on \in Nat
        BY <1>1, <1>2 DEF RegistryInv, Births, TypeOK, TaskType, NoActor
      <3> QED
        BY <3>1, <1>2, <1>5
    <2> QED
      BY <1>1, <1>2, <1>3, <1>5, <2>1, <2>2 DEF RegistryInv, Births, NoActor, Actor
  <1>8. Counted'
    <2>1. Cardinality(Holders(a) \cup {t}) = Cardinality(Holders(a)) + 1
      BY <1>4, HoldersFinite, FS_AddElement
    <2> QED
      BY <2>1, <1>4, <1>5 DEF RegistryInv, Counted
  <1>9. Opening'
    <2>1. t \in Holders(a)' /\ task'[t].pc = "wait_ready"
      BY <1>3, <1>4
    <2>2. ASSUME NEW b \in Actor, b # a, act'[b].worker = "opening"
          PROVE  act'[b].state = "opening" /\ \E u \in Holders(b)' : task'[u].pc = "wait_ready"
      <3>1. PICK u \in Holders(b) : task[u].pc = "wait_ready" /\ act[b].state = "opening"
        BY <1>5, <2>2 DEF RegistryInv, Opening
      <3>2. u # t /\ u \in Party
        BY <3>1 DEF Holders, Party
      <3> QED
        BY <3>1, <3>2, <1>3, <1>4, <1>5, <2>2
    <2> QED
      BY <1>5, <2>1, <2>2 DEF Opening
  <1>10. task'["main"] = task["main"] /\ task["main"].pc \notin {"drain", "send_draining"}
    BY <1>1, <1>3 DEF RegistryInv, Evicting
  <1>11. Evicting' /\ Visible'
    <2>1. Evicting'
      BY <1>10 DEF Evicting
    <2>2. Visible'
      BY <1>5, <1>10 DEF RegistryInv, Visible, is_draining, Over
    <2> QED
      BY <2>1, <2>2
  <1>12. Stoppers'
    <2> SUFFICES ASSUME NEW u \in Task, u # t, task[u].pc \in {"forget"} \cup Stopping
                 PROVE  Over(task[u].on)' /\ is_draining(task[u].on)'
      BY <1>3 DEF Stoppers, Party, Stopping
    <2>1. task[u].on \in Actor /\ Over(task[u].on) /\ is_draining(task[u].on)
      BY <1>1 DEF RegistryInv, Births, TypeOK, TaskType, Party, Stopping, Stoppers
    <2>3. task[u].on # a
      <3>1. CASE a = current /\ ~is_draining(a)
        BY <2>1, <3>1
      <3>2. CASE a = spawned + 1
        BY <3>2, <1>2, <2>1 DEF RegistryInv, Births, Unborn, is_draining
      <3> QED
        BY <3>1, <3>2
    <2> QED
      BY <2>1, <2>3, <1>5 DEF Over, is_draining
  <1>13. Leased'
    BY <1>4, <1>5 DEF RegistryInv, Leased, is_draining, Over
  <1>14. Current'
    BY <1>2, <1>5 DEF RegistryInv, Current, Serving, NoActor, Actor
  <1>15. Handles'
    <2>1. \A b \in Actor : Serving(b)' /\ ~act'[b].handle => Serving(b) /\ ~act[b].handle
      BY <1>5 DEF Serving
    <2>2. CASE task["main"].pc = "remove"
      <3>1. task["main"].on \in Actor /\ task["main"].on <= spawned
        BY <1>1, <2>2 DEF RegistryInv, TypeOK, TaskType, Births
      <3>2. ~Serving(task["main"].on)
        BY <2>2 DEF RegistryInv, Handles
      <3>3. ~Serving(task["main"].on)'
        BY <3>1, <3>2, <1>2, <1>5, <1>10 DEF Serving
      <3> QED
        BY <2>1, <2>2, <3>3, <1>10 DEF RegistryInv, Handles
    <2>3. CASE task["main"].pc # "remove"
      BY <2>1, <2>3, <1>10 DEF RegistryInv, Handles
    <2> QED
      BY <2>2, <2>3
  <1> QED
    BY <1>6, <1>7, <1>8, <1>9, <1>11, <1>12, <1>13, <1>14, <1>15 DEF RegistryInv

LEMMA LookupStep ==
    ASSUME RegistryInv, NEW t \in Task, Lookup(t)
    PROVE  RegistryInv'
  <1>1. TypeOK /\ t \in Party /\ spawned \in Nat /\ MaxActors \in Nat
    BY RegistryAssumption DEF RegistryInv, TypeOK, Party
  <1>2. task[t].pc = "lookup" /\ ~lock /\ UNCHANGED <<lock, panics>>
    BY DEF Lookup
  <1>3. CASE current = NoActor
    <2>1. spawned + 1 \in Actor
      BY <1>1, <1>3 DEF Lookup, Actor
    <2> QED
      BY <1>2, <1>3, <2>1, LeaseStep DEF Lookup
  <1>4. CASE current # NoActor /\ ~is_draining(current)
    <2>1. current \in Actor
      BY <1>1, <1>4 DEF TypeOK
    <2> QED
      BY <1>2, <1>4, <2>1, LeaseStep DEF Lookup
  <1>5. CASE current # NoActor /\ is_draining(current)
    <2>1. /\ task' = [task EXCEPT ![t] = [pc |-> "wait_closed", on |-> current]]
          /\ UNCHANGED <<current, act, spawned>>
      BY <1>5 DEF Lookup
    <2>2. /\ task' \in [Party -> TaskType] /\ task'[t] = [pc |-> "wait_closed", on |-> current]
          /\ \A u \in Party : u # t => task'[u] = task[u]
      BY <1>1, <2>1 DEF TypeOK, TaskType
    <2>3. current <= spawned
      BY DEF RegistryInv, Births
    <2> QED
      BY <1>2, <1>5, <2>1, <2>2, <2>3, PassiveStep
  <1> QED
    BY <1>3, <1>4, <1>5

\* A lease that was waited for is good.
LEMMA ReadyStep ==
    ASSUME RegistryInv, NEW t \in Task, task[t].pc = "wait_ready",
           act[task[t].on].state = "ready", Goto(t, "leased"),
           UNCHANGED <<act, current, lock, spawned, panics>>
    PROVE  RegistryInv'
  <1>1. TypeOK /\ t \in Party /\ "main" \in Party /\ t # "main"
    BY RegistryAssumption DEF RegistryInv, Party
  <1>2. [pc |-> "leased", on |-> task[t].on] \in TaskType
    BY <1>1 DEF TypeOK, TaskType
  <1>3. /\ task' \in [Party -> TaskType] /\ task'[t] = [pc |-> "leased", on |-> task[t].on]
        /\ \A u \in Party : u # t => task'[u] = task[u]
    BY <1>1, <1>2, GotoMoves
  <1>4. \A b : Holders(b)' = Holders(b)
    BY <1>1, <1>3 DEF Holders, Party
  <1>5. TypeOK' /\ Births'
    BY <1>1, <1>3 DEF RegistryInv, TypeOK, Births
  <1>6. Counted' /\ Evicting' /\ Visible' /\ Leased' /\ Current' /\ Handles'
    BY <1>1, <1>3, <1>4 DEF RegistryInv, Counted, Evicting, Visible, Leased, Current, Handles,
                            is_draining, Over, Serving
  <1>7. Opening'
    <2> SUFFICES ASSUME NEW b \in Actor, act[b].worker = "opening"
                 PROVE  act[b].state = "opening" /\ \E u \in Holders(b) : task'[u].pc = "wait_ready"
      BY <1>4 DEF Opening
    <2>1. PICK u \in Holders(b) : task[u].pc = "wait_ready" /\ act[b].state = "opening"
      BY DEF RegistryInv, Opening
    <2>2. u # t /\ u \in Party
      BY <2>1 DEF Holders, Party
    <2> QED
      BY <1>3, <2>1, <2>2
  <1>8. Stoppers'
    BY <1>1, <1>3 DEF RegistryInv, Stoppers, Stopping, Over, is_draining, Party
  <1> QED
    BY <1>5, <1>6, <1>7, <1>8 DEF RegistryInv

\* A lease that is given back, by a task that goes to a place where it is over.
LEMMA GiveBackStep ==
    ASSUME RegistryInv, NEW t \in Task, task[t].pc \in {"wait_ready", "leased"}, NEW next,
           NEW a \in Actor, task[t].on = a,
           act' = [act EXCEPT ![a].leases = @ - 1],
           task' = [task EXCEPT ![t] = next],
           (next = [pc |-> "drain", on |-> a] /\ is_draining(a)) \/ next = Idle,
           act[a].worker # "opening" \/ task[t].pc = "leased",
           UNCHANGED <<current, lock, spawned, panics>>
    PROVE  RegistryInv'
  <1>1. TypeOK /\ t \in Party /\ "main" \in Party /\ t # "main"
    BY RegistryAssumption DEF RegistryInv, Party
  <1>2. a \in Actor /\ a <= spawned /\ t \in Holders(a)
    BY <1>1 DEF RegistryInv, Births, TypeOK, TaskType, Holders
  <1>3. act[a].leases - 1 \in Nat
    BY <1>2, HolderCounts
  <1>4. act' = [act EXCEPT ![a] = [act[a] EXCEPT !.leases = act[a].leases - 1]]
    OBVIOUS
  <1>5. /\ act' \in [Actor -> ActorType] /\ act'[a].leases = act[a].leases - 1
        /\ \A b \in Actor : b # a => act'[b] = act[b]
        /\ \A b \in Actor : /\ act'[b].state = act[b].state /\ act'[b].worker = act[b].worker
                            /\ act'[b].handle = act[b].handle
                            /\ act'[b].accepting = act[b].accepting
    BY <1>1, <1>2, <1>3, <1>4 DEF TypeOK, ActorType
  <1>6. /\ task' \in [Party -> TaskType] /\ task'[t] = next
        /\ next.pc \in {"idle", "drain"} /\ next.on \in {NoActor, a}
        /\ \A u \in Party : u # t => task'[u] = task[u]
    BY <1>1 DEF TypeOK, TaskType, Idle
  <1>7. Holders(a)' = Holders(a) \ {t} /\ \A b : b # a => Holders(b)' = Holders(b)
    BY <1>1, <1>2, <1>6 DEF Holders, Party
  <1>8. TypeOK'
    BY <1>1, <1>5, <1>6 DEF TypeOK
  <1>9. spawned \in Nat /\ \A b \in Actor : b > spawned => b # a
    BY <1>1, <1>2 DEF TypeOK, Actor
  <1>10. Births'
    <2>1. next.on <= spawned /\ (next.pc \notin {"idle", "lookup"} => next.on # NoActor)
      BY <1>2, <1>6, <1>9 DEF Idle, NoActor, Actor
    <2> QED
      BY <1>1, <1>5, <1>6, <1>9, <2>1 DEF RegistryInv, Births
  <1>11. Counted'
    <2>1. Cardinality(Holders(a) \ {t}) = Cardinality(Holders(a)) - 1
      BY <1>2, HoldersFinite, FS_RemoveElement
    <2> QED
      <3> SUFFICES ASSUME NEW b \in Actor PROVE act'[b].leases = Cardinality(Holders(b)')
        BY DEF Counted
      <3>1. act[b].leases = Cardinality(Holders(b))
        BY DEF RegistryInv, Counted
      <3>2. CASE b = a
        <4>1. act'[b].leases = Cardinality(Holders(a)) - 1
          BY <3>1, <3>2, <1>5
        <4>2. Holders(b)' = Holders(a) \ {t}
          BY <3>2, <1>7
        <4> QED
          BY <4>1, <4>2, <2>1
      <3>3. CASE b # a
        BY <3>1, <3>3, <1>5, <1>7
      <3> QED
        BY <3>2, <3>3
  <1>12. Opening'
    <2> SUFFICES ASSUME NEW b \in Actor, act[b].worker = "opening"
                 PROVE  act[b].state = "opening"
                        /\ \E u \in Holders(b)' : task'[u].pc = "wait_ready"
      BY <1>5 DEF Opening
    <2>1. PICK u \in Holders(b) : task[u].pc = "wait_ready" /\ act[b].state = "opening"
      BY DEF RegistryInv, Opening
    <2>2. u \in Party /\ u # t
      BY <2>1 DEF Holders, Party
    <2> QED
      BY <1>6, <1>7, <2>1, <2>2
  <1>13. task'["main"] = task["main"]
    BY <1>1, <1>6
  <1>14. task["main"].pc # "idle" => task["main"].on \in Actor
    BY <1>1 DEF RegistryInv, Births, TypeOK, TaskType, Stopping
  <1>15. Evicting' /\ Visible' /\ Leased'
    BY <1>5, <1>7, <1>13, <1>14 DEF RegistryInv, Evicting, Visible, Leased, is_draining, Over
  <1>16. Stoppers'
    <2> SUFFICES ASSUME NEW u \in Task, task'[u].pc \in {"forget"} \cup Stopping
                 PROVE  Over(task[u].on)' /\ is_draining(task[u].on)'
      BY DEF Stoppers
    <2>1. CASE u = t
      <3>1. next = [pc |-> "drain", on |-> a] /\ is_draining(a)
        BY <1>6, <2>1 DEF Idle, Stopping
      <3>2. Over(a)
        BY <3>1, <1>2 DEF RegistryInv, Leased
      <3> QED
        BY <2>1, <3>1, <3>2, <1>2, <1>5, <1>6 DEF Over, is_draining
    <2>2. CASE u # t
      <3>1. task'[u] = task[u] /\ task[u].on \in Actor
        BY <1>1, <1>6, <2>2 DEF RegistryInv, Births, TypeOK, TaskType, Party, Stopping
      <3> QED
        BY <3>1, <1>5 DEF RegistryInv, Stoppers, Over, is_draining
    <2> QED
      BY <2>1, <2>2
  <1>17. Current' /\ Handles'
    BY <1>5, <1>13, <1>14 DEF RegistryInv, Current, Handles, Serving
  <1> QED
    BY <1>8, <1>10, <1>11, <1>12, <1>15, <1>16, <1>17 DEF RegistryInv

LEMMA WaitReadyStep ==
    ASSUME RegistryInv, NEW t \in Task, wait_ready(t)
    PROVE  RegistryInv'
  <1>1. TypeOK /\ t \in Party
    BY DEF RegistryInv, Party
  <1>2. PICK a \in Actor : task[t].on = a
    BY <1>1 DEF RegistryInv, TypeOK, TaskType, Births, wait_ready
  <1>3. /\ task[t].pc = "wait_ready" /\ act[a].state # "opening"
        /\ UNCHANGED <<current, lock, spawned, panics>>
    BY <1>2 DEF wait_ready
  <1>4. CASE act[a].state = "ready"
    <2>1. Goto(t, "leased") /\ UNCHANGED act
      BY <1>2, <1>4 DEF wait_ready
    <2> QED
      BY <1>2, <1>3, <1>4, <2>1, ReadyStep
  <1>5. CASE act[a].state # "ready"
    <2>1. act' = [act EXCEPT ![a].leases = @ - 1] /\ Goto(t, "drain")
      BY <1>2, <1>5 DEF wait_ready
    <2>2. is_draining(a)
      BY <1>1, <1>3, <1>5 DEF TypeOK, ActorType, is_draining
    <2>3. act[a].worker # "opening"
      BY <1>3 DEF RegistryInv, Opening
    <2>4. task' = [task EXCEPT ![t] = [pc |-> "drain", on |-> a]]
      <3>1. [pc |-> "drain", on |-> task[t].on] \in TaskType
        BY <1>2 DEF TaskType
      <3> QED
        BY <1>1, <1>2, <2>1, <3>1, GotoMoves
    <2> QED
      BY <1>2, <1>3, <2>1, <2>2, <2>3, <2>4, GiveBackStep
  <1> QED
    BY <1>4, <1>5

LEMMA ReleaseStep ==
    ASSUME RegistryInv, NEW t \in Task, release_lease(t)
    PROVE  RegistryInv'
  <1>1. PICK a \in Actor : task[t].on = a
    BY DEF RegistryInv, TypeOK, TaskType, Births, Party, release_lease
  <1> QED
    BY <1>1, GiveBackStep DEF release_lease

-----------------------------------------------------------------------------
(* Stopping an actor.                                                      *)

\* The main loop turns to an actor that nobody leases, and locks the registry.
LEMMA EvictStep ==
    ASSUME RegistryInv, evict_idle
    PROVE  RegistryInv'
  <1>1. /\ TypeOK /\ "main" \in Party /\ "main" \notin Task
        /\ task["main"].pc = "idle" /\ current \in Actor /\ act[current].leases = 0
    BY RegistryAssumption DEF RegistryInv, TypeOK, Party, evict_idle, is_idle_for
  <1>2. UNCHANGED <<current, act, spawned, panics>> /\ lock' = TRUE
    BY DEF evict_idle
  <1>3. /\ task' \in [Party -> TaskType] /\ task'["main"] = [pc |-> "drain", on |-> current]
        /\ \A u \in Party : u # "main" => task'[u] = task[u]
    BY <1>1 DEF evict_idle, TypeOK, TaskType
  <1>4. \A b : Holders(b)' = Holders(b)
    BY <1>1, <1>3 DEF Holders, Party
  <1>5. Holders(current) = {}
    BY <1>1, HolderCounts
  <1>6. TypeOK' /\ Births'
    <2>1. lock' \in BOOLEAN
      BY <1>2
    <2>2. TypeOK'
      BY <1>1, <1>2, <1>3, <2>1 DEF TypeOK
    <2>3. \A u \in Party : /\ task'[u].on <= spawned
                           /\ task'[u].pc \notin {"idle", "lookup"} => task'[u].on # NoActor
      BY <1>1, <1>3 DEF RegistryInv, Births, Actor, NoActor
    <2>4. task'["main"].pc \in {"idle"} \cup Stopping
      BY <1>3 DEF Stopping
    <2>5. current' <= spawned' /\ \A b \in Actor : b > spawned' => act'[b] = Unborn
      BY <1>2 DEF RegistryInv, Births
    <2>6. spawned' = spawned
      BY <1>2
    <2> QED
      BY <2>2, <2>3, <2>4, <2>5, <2>6 DEF Births
  <1>7. Counted' /\ Leased' /\ Current'
    BY <1>2, <1>4 DEF RegistryInv, Counted, Leased, Current, is_draining, Over, Serving
  <1>8. Opening'
    BY <1>1, <1>2, <1>3, <1>4 DEF RegistryInv, Opening, Holders, Party
  <1>9. Evicting'
    <2>1. act[current].worker # "opening"
      BY <1>1, <1>5 DEF RegistryInv, Opening
    <2> QED
      BY <1>2, <1>3, <1>4, <1>5, <2>1 DEF Evicting
  <1>10. Visible' /\ Stoppers' /\ Handles'
    BY <1>1, <1>2, <1>3 DEF RegistryInv, Visible, Stoppers, Handles, Party, is_draining, Over, Serving
  <1> QED
    BY <1>6, <1>7, <1>8, <1>9, <1>10 DEF RegistryInv

\* The steps of a stop, in the order they are made, with what each may change.
LEMMA StopMoves ==
    ASSUME RegistryInv, NEW t \in Party, NEW a \in Actor, NEW next \in TaskType,
           task[t].on = a, task[t].pc \in {"forget"} \cup Stopping,
           task' = [task EXCEPT ![t] = next],
           \/ next.pc \in Stopping /\ next.on = a
           \/ next.pc \in {"idle", "lookup"} /\ next.on <= spawned /\ task[t].pc \in {"forget", "remove"},
           t = "main" => next.pc # "lookup",
           next.pc # "drain",
           next.pc = "send_draining" => task[t].pc = "drain",
           task[t].pc = "drain" /\ next.pc # "send_draining" =>
               ~act[a].accepting \/ act[a].state \in {"failed", "closed"},
           next.pc = "remove" => \/ task[t].pc = "take" /\ ~act[a].handle
                                 \/ task[t].pc = "join" /\ act[a].worker = "gone",
           task[t].pc = "join" => act[a].worker = "gone",
           task[t].pc = "send_draining" => act'[a].state = "draining",
           act' = [act EXCEPT ![a] = act'[a]], act'[a] \in ActorType,
           act'[a].worker = act[a].worker, act'[a].leases = act[a].leases,
           \/ act'[a].state = act[a].state
           \/ act'[a].state = "draining" /\ task[t].pc = "send_draining",
           act'[a].accepting = act[a].accepting \/ task[t].pc = "drain",
           act'[a].handle = act[a].handle \/ (task[t].pc = "take" /\ next.pc = "join"),
           UNCHANGED lock \/ (t = "main" /\ next.pc = "send_stop" /\ lock' = FALSE),
           UNCHANGED current \/ (current = a /\ current' = NoActor /\ task[t].pc \in {"forget", "remove"}),
           UNCHANGED <<spawned, panics>>
    PROVE  RegistryInv'
  <1>1. TypeOK /\ "main" \in Party /\ "main" \notin Task /\ (t \in Task \/ t = "main")
    BY RegistryAssumption DEF RegistryInv, Party
  <1>2. /\ task' \in [Party -> TaskType] /\ task'[t] = next
        /\ \A u \in Party : u # t => task'[u] = task[u]
    BY <1>1 DEF TypeOK
  <1>3. /\ act' \in [Actor -> ActorType]
        /\ \A b \in Actor : b # a => act'[b] = act[b]
        /\ \A b \in Actor : act'[b].worker = act[b].worker /\ act'[b].leases = act[b].leases
    BY <1>1 DEF TypeOK
  <1>4. \A b : Holders(b)' = Holders(b)
    BY <1>1, <1>2, HoldersStay DEF Stopping
  <1>5. t \in Task => Over(a) /\ is_draining(a)
    BY DEF RegistryInv, Stoppers
  <1>6. t = "main" /\ task[t].pc \in {"drain", "send_draining"} =>
            lock /\ Holders(a) = {} /\ act[a].worker # "opening"
    BY DEF RegistryInv, Evicting
  <1>7. is_draining(a) => is_draining(a)'
    BY <1>3 DEF is_draining
  <1>8. \A b \in Actor : Over(b)' <=> Over(b)
    BY <1>3 DEF Over
  <1>9. \A b \in Actor : Serving(b)' <=> Serving(b)
    BY <1>3 DEF Serving
  <1>10. TypeOK'
    BY <1>1, <1>2, <1>3 DEF TypeOK
  <1>11. Births'
    <2>1. spawned \in Nat /\ a <= spawned /\ a \in Nat
      BY <1>1 DEF TypeOK, Actor, RegistryInv, Births
    <2>2. \A b \in Actor : b > spawned => act'[b] = Unborn
      BY <2>1, <1>3 DEF RegistryInv, Births
    <2>3. next.on <= spawned /\ (next.pc \notin {"idle", "lookup"} => next.on # NoActor)
      BY <2>1 DEF Stopping, Actor, NoActor
    <2>4. current' <= spawned
      BY <2>1 DEF RegistryInv, Births, NoActor
    <2>5. task'["main"].pc \in {"idle"} \cup Stopping
      BY <1>1, <1>2 DEF RegistryInv, Births
    <2> QED
      BY <1>2, <2>2, <2>3, <2>4, <2>5 DEF RegistryInv, Births
  <1>12. Counted'
    BY <1>3, <1>4 DEF RegistryInv, Counted
  <1>13. Opening'
    <2> SUFFICES ASSUME NEW b \in Actor, act[b].worker = "opening"
                 PROVE  act'[b].state = "opening" /\ \E u \in Holders(b) : task'[u].pc = "wait_ready"
      BY <1>3, <1>4 DEF Opening
    <2>1. PICK u \in Holders(b) : task[u].pc = "wait_ready" /\ act[b].state = "opening"
      BY DEF RegistryInv, Opening
    <2>2. u \in Party /\ u # t
      BY <2>1 DEF Holders, Party, Stopping
    <2>3. act'[b].state = act[b].state
      BY <1>1, <1>3, <1>5, <1>6 DEF Over
    <2> QED
      BY <1>2, <2>1, <2>2, <2>3
  <1>14. Evicting'
    <2>1. CASE t = "main"
      BY <1>2, <1>3, <1>4, <1>6, <2>1 DEF Evicting
    <2>2. CASE t # "main"
      <3>1. task["main"].pc \in {"drain", "send_draining"} => task["main"].on \in Actor
        BY <1>1 DEF RegistryInv, Births, TypeOK, TaskType
      <3> QED
        BY <1>1, <1>2, <1>3, <1>4, <2>2, <3>1 DEF RegistryInv, Evicting
    <2> QED
      BY <2>1, <2>2
  <1>15. Visible'
    <2> SUFFICES ASSUME NEW b \in Actor
                 PROVE  /\ ~act'[b].accepting =>
                              \/ is_draining(b)'
                              \/ task'["main"] = [pc |-> "send_draining", on |-> b]
                        /\ act'[b].state \in {"failed", "closed"} => Over(b)'
      BY DEF Visible
    <2>1. CASE b # a
      <3>1. task["main"] = [pc |-> "send_draining", on |-> b] => task'["main"] = task["main"]
        BY <1>1, <1>2, <2>1
      <3> QED
        BY <1>3, <1>8, <2>1, <3>1 DEF RegistryInv, Visible, is_draining
    <2>2. CASE b = a /\ t \in Task
      BY <1>3, <1>5, <1>7, <1>8, <2>2
    <2>3. CASE b = a /\ t = "main"
      <3>1. act'[a].state \in {"failed", "closed"} => Over(a)'
        BY <1>8 DEF RegistryInv, Visible
      <3>2. CASE task[t].pc = "drain"
        <4>1. CASE next.pc = "send_draining"
          BY <1>2, <2>3, <3>1, <4>1 DEF TaskType, Stopping
        <4>2. CASE next.pc # "send_draining"
          <5>1. is_draining(a)
            <6>1. ~act[a].accepting \/ act[a].state \in {"failed", "closed"}
              BY <3>2, <4>2
            <6>2. task["main"] # [pc |-> "send_draining", on |-> a]
              BY <2>3, <3>2
            <6> QED
              BY <6>1, <6>2 DEF RegistryInv, Visible, is_draining
          <5> QED
            BY <1>7, <2>3, <3>1, <5>1
        <4> QED
          BY <4>1, <4>2
      <3>3. CASE task[t].pc = "send_draining"
        BY <2>3, <3>1, <3>3 DEF is_draining
      <3>4. CASE task[t].pc \notin {"drain", "send_draining"}
        BY <1>7, <2>3, <3>1, <3>4 DEF RegistryInv, Visible
      <3> QED
        BY <3>2, <3>3, <3>4
    <2> QED
      BY <1>1, <2>1, <2>2, <2>3
  <1>16. Stoppers'
    <2> SUFFICES ASSUME NEW u \in Task, task'[u].pc \in {"forget"} \cup Stopping
                 PROVE  Over(task[u].on)' /\ is_draining(task[u].on)'
      BY DEF Stoppers
    <2>1. CASE u = t
      <3>1. task'[u].on = a
        BY <1>2, <2>1 DEF Stopping
      <3> QED
        BY <1>5, <1>7, <1>8, <2>1, <3>1 DEF Over, is_draining
    <2>2. CASE u # t
      <3>1. task'[u] = task[u] /\ task[u].on \in Actor
        BY <1>1, <1>2, <2>2 DEF RegistryInv, Births, TypeOK, TaskType, Party, Stopping
      <3>2. Over(task[u].on) /\ is_draining(task[u].on)
        BY <2>2, <3>1 DEF RegistryInv, Stoppers
      <3> QED
        BY <1>3, <1>7, <3>1, <3>2 DEF Over, is_draining
    <2> QED
      BY <2>1, <2>2
  <1>17. Leased'
    <2> SUFFICES ASSUME NEW b \in Actor, Holders(b) # {}
                 PROVE  /\ is_draining(b)' => Over(b)'
                        /\ act'[b].accepting \/ Over(b)'
      BY <1>4 DEF Leased
    <2>1. CASE b # a
      BY <1>3, <1>8, <2>1 DEF RegistryInv, Leased, is_draining
    <2>2. CASE b = a /\ t \in Task
      BY <1>5, <1>8, <2>2
    <2>3. CASE b = a /\ t = "main"
      <3>1. task[t].pc \notin {"drain", "send_draining"}
        BY <1>6, <2>3
      <3> QED
        BY <1>8, <2>3, <3>1 DEF RegistryInv, Leased, is_draining
    <2> QED
      BY <1>1, <2>1, <2>2, <2>3
  <1>18. Current'
    <2>1. task[t].pc = "remove" /\ t = "main" => ~Serving(a)
      BY DEF RegistryInv, Handles
    <2>2. Over(a) => ~Serving(a)
      BY DEF Over, Serving
    <2>3. task[t].pc = "forget" => t \in Task
      BY <1>1 DEF RegistryInv, Births, Stopping
    <2> QED
      BY <1>1, <1>5, <1>9, <2>1, <2>2, <2>3 DEF RegistryInv, Current
  <1>19. Handles'
    <2>1. ASSUME NEW b \in Actor, Serving(b), ~act'[b].handle
          PROVE  task'["main"] = [pc |-> "join", on |-> b]
      <3>1. CASE b # a
        <4>1. task["main"] = [pc |-> "join", on |-> b]
          BY <1>3, <2>1, <3>1 DEF RegistryInv, Handles
        <4> QED
          BY <1>1, <1>2, <3>1, <4>1
      <3>2. CASE b = a
        <4>1. t = "main"
          BY <1>1, <1>5, <2>1, <3>2 DEF Over, Serving
        <4>2. act'[a].handle # act[a].handle
          <5>1. SUFFICES ASSUME ~act[a].handle PROVE FALSE
            BY <2>1, <3>2
          <5>2. task["main"] = [pc |-> "join", on |-> a]
            BY <2>1, <3>2, <5>1 DEF RegistryInv, Handles
          <5>3. act[a].worker = "gone"
            BY <4>1, <5>2
          <5> QED
            BY <2>1, <3>2, <5>3 DEF Serving
        <4> QED
          BY <1>2, <3>2, <4>1, <4>2 DEF TaskType, Stopping
      <3> QED
        BY <3>1, <3>2
    <2>2. ASSUME task'["main"].pc = "remove" PROVE ~Serving(task'["main"].on)
      <3>1. CASE t = "main"
        <4>1. task'["main"].on = a
          BY <1>2, <2>2, <3>1
        <4>2. ~Serving(a)
          BY <1>2, <2>2, <3>1 DEF RegistryInv, Handles, Serving
        <4> QED
          BY <4>1, <4>2
      <3>2. CASE t # "main"
        BY <1>1, <1>2, <2>2, <3>2 DEF RegistryInv, Handles
      <3> QED
        BY <3>1, <3>2
    <2>3. task'["main"].pc = "remove" => task'["main"].on \in Actor
      BY <1>1, <1>10, <1>11 DEF TypeOK, Births, TaskType
    <2> QED
      BY <1>9, <2>1, <2>2, <2>3 DEF Handles, Serving
  <1> QED
    BY <1>10, <1>11, <1>12, <1>13, <1>14, <1>15, <1>16, <1>17, <1>18, <1>19 DEF RegistryInv

\* Where a party that stops an actor stands.
LEMMA Stops ==
    ASSUME RegistryInv, NEW t \in Party, task[t].pc \in {"forget"} \cup Stopping
    PROVE  /\ TypeOK /\ task[t].on \in Actor /\ act[task[t].on] \in ActorType
           /\ act = [act EXCEPT ![task[t].on] = act[task[t].on]]
           /\ \A pc \in Stopping : [pc |-> pc, on |-> task[t].on] \in TaskType
  <1>1. TypeOK
    BY DEF RegistryInv
  <1>2. task[t].on \in Actor
    BY <1>1 DEF RegistryInv, Births, TypeOK, TaskType, Stopping
  <1>3. act \in [Actor -> ActorType]
    BY <1>1 DEF TypeOK
  <1> QED
    BY <1>1, <1>2, <1>3 DEF TaskType, Stopping

LEMMA DrainStep ==
    ASSUME RegistryInv, NEW t \in Party, begin_draining(t)
    PROVE  RegistryInv'
  <1> DEFINE a == task[t].on
             announce == act[a].accepting /\ act[a].state \notin {"failed", "closed"}
             pc == IF announce THEN "send_draining" ELSE "send_stop"
             next == [pc |-> pc, on |-> a]
  <1>1. /\ task[t].pc = "drain" /\ Goto(t, pc)
        /\ act' = [act EXCEPT ![a].accepting = FALSE]
        /\ lock' = IF t = "main" /\ ~announce THEN FALSE ELSE lock
        /\ UNCHANGED <<current, spawned, panics>>
    BY DEF begin_draining
  <1>2. TypeOK /\ a \in Actor /\ act[a] \in ActorType /\ next \in TaskType
    BY <1>1, Stops DEF Stopping
  <1>3. task' = [task EXCEPT ![t] = next]
    BY <1>1, <1>2, GotoMoves
  <1>4. /\ act' = [act EXCEPT ![a] = act'[a]] /\ act'[a] \in ActorType
        /\ act'[a].worker = act[a].worker /\ act'[a].leases = act[a].leases
        /\ act'[a].state = act[a].state /\ act'[a].handle = act[a].handle
    BY <1>1, <1>2 DEF TypeOK, ActorType
  <1>5. next.pc \in {"send_draining", "send_stop"} /\ next.on = a
        /\ (next.pc = "send_draining" <=> announce)
    OBVIOUS
  <1> HIDE DEF next, pc
  <1>6. ~announce => ~act[a].accepting \/ act[a].state \in {"failed", "closed"}
    BY <1>2 DEF ActorType
  <1>7. UNCHANGED lock \/ (t = "main" /\ next.pc = "send_stop" /\ lock' = FALSE)
    BY <1>1, <1>5
  <1> HIDE DEF announce, a
  <1> QED
    BY <1>1, <1>2, <1>3, <1>4, <1>5, <1>6, <1>7, StopMoves DEF Stopping, a

LEMMA SendDrainingStep ==
    ASSUME RegistryInv, NEW t \in Party, SendDraining(t)
    PROVE  RegistryInv'
  <1> DEFINE a == task[t].on
             next == [pc |-> "send_stop", on |-> a]
  <1>1. /\ task[t].pc = "send_draining" /\ Goto(t, "send_stop")
        /\ act' = [act EXCEPT ![a].state = "draining"]
        /\ lock' = IF t = "main" THEN FALSE ELSE lock
        /\ UNCHANGED <<current, spawned, panics>>
    BY DEF SendDraining
  <1>2. TypeOK /\ a \in Actor /\ act[a] \in ActorType /\ next \in TaskType
    BY <1>1, Stops DEF Stopping
  <1>3. task' = [task EXCEPT ![t] = next]
    BY <1>1, <1>2, GotoMoves
  <1>4. /\ act' = [act EXCEPT ![a] = act'[a]] /\ act'[a] \in ActorType
        /\ act'[a].worker = act[a].worker /\ act'[a].leases = act[a].leases
        /\ act'[a].state = "draining" /\ act'[a].handle = act[a].handle
        /\ act'[a].accepting = act[a].accepting
    BY <1>1, <1>2 DEF TypeOK, ActorType
  <1>5. next.pc = "send_stop" /\ next.on = a
    OBVIOUS
  <1> HIDE DEF next
  <1>6. UNCHANGED lock \/ (t = "main" /\ next.pc = "send_stop" /\ lock' = FALSE)
    BY <1>1, <1>5
  <1> HIDE DEF a
  <1> QED
    BY <1>1, <1>2, <1>3, <1>4, <1>5, <1>6, StopMoves DEF Stopping, a

LEMMA SendStopStep ==
    ASSUME RegistryInv, NEW t \in Party, SendStop(t)
    PROVE  RegistryInv'
  <1> DEFINE a == task[t].on
             next == [pc |-> "take", on |-> a]
  <1>1. /\ task[t].pc = "send_stop" /\ Goto(t, "take")
        /\ act' = [act EXCEPT ![a].stop = @ \/ act[a].worker # "gone"]
        /\ UNCHANGED <<current, lock, spawned, panics>>
    BY DEF SendStop
  <1>2. TypeOK /\ a \in Actor /\ act[a] \in ActorType /\ next \in TaskType
    BY <1>1, Stops DEF Stopping
  <1>3. task' = [task EXCEPT ![t] = next]
    BY <1>1, <1>2, GotoMoves
  <1>4. /\ act' = [act EXCEPT ![a] = act'[a]] /\ act'[a] \in ActorType
        /\ act'[a].worker = act[a].worker /\ act'[a].leases = act[a].leases
        /\ act'[a].state = act[a].state /\ act'[a].handle = act[a].handle
        /\ act'[a].accepting = act[a].accepting
    BY <1>1, <1>2 DEF TypeOK, ActorType
  <1>5. next.pc = "take" /\ next.on = a
    OBVIOUS
  <1> HIDE DEF next, a
  <1> QED
    BY <1>1, <1>2, <1>3, <1>4, <1>5, StopMoves DEF Stopping, a

LEMMA TakeStep ==
    ASSUME RegistryInv, NEW t \in Party, Take(t)
    PROVE  RegistryInv'
  <1> DEFINE a == task[t].on
             pc == IF act[a].handle THEN "join" ELSE "remove"
             next == [pc |-> pc, on |-> a]
  <1>1. /\ task[t].pc = "take" /\ Goto(t, pc)
        /\ act' = [act EXCEPT ![a].handle = FALSE]
        /\ UNCHANGED <<current, lock, spawned, panics>>
    BY DEF Take
  <1>2. TypeOK /\ a \in Actor /\ act[a] \in ActorType /\ next \in TaskType
    BY <1>1, Stops DEF Stopping
  <1>3. task' = [task EXCEPT ![t] = next]
    BY <1>1, <1>2, GotoMoves
  <1>4. /\ act' = [act EXCEPT ![a] = act'[a]] /\ act'[a] \in ActorType
        /\ act'[a].worker = act[a].worker /\ act'[a].leases = act[a].leases
        /\ act'[a].state = act[a].state /\ act'[a].handle = FALSE
        /\ act'[a].accepting = act[a].accepting
    BY <1>1, <1>2 DEF TypeOK, ActorType
  <1>5. next.pc \in {"join", "remove"} /\ next.on = a
        /\ (next.pc = "join" <=> act[a].handle)
    OBVIOUS
  <1>6. act[a].handle \in BOOLEAN
    BY <1>2 DEF ActorType
  <1>7. act'[a].handle = act[a].handle \/ next.pc = "join"
    BY <1>4, <1>5, <1>6
  <1> HIDE DEF next, pc, a
  <1> QED
    BY <1>1, <1>2, <1>3, <1>4, <1>5, <1>7, StopMoves DEF Stopping, a

LEMMA JoinStep ==
    ASSUME RegistryInv, NEW t \in Party, Join(t)
    PROVE  RegistryInv'
  <1> DEFINE a == task[t].on
             next == [pc |-> "remove", on |-> a]
  <1>1. /\ task[t].pc = "join" /\ Goto(t, "remove") /\ act[a].worker = "gone"
        /\ UNCHANGED <<current, act, lock, spawned, panics>>
    BY DEF Join
  <1>2. TypeOK /\ a \in Actor /\ act[a] \in ActorType /\ next \in TaskType
        /\ act = [act EXCEPT ![a] = act[a]]
    BY <1>1, Stops DEF Stopping
  <1>3. task' = [task EXCEPT ![t] = next]
    BY <1>1, <1>2, GotoMoves
  <1>4. next.pc = "remove" /\ next.on = a
    OBVIOUS
  <1> HIDE DEF next, a
  <1> QED
    BY <1>1, <1>2, <1>3, <1>4, StopMoves DEF Stopping, a

LEMMA RemoveStep ==
    ASSUME RegistryInv, NEW t \in Party, remove_if_current(t)
    PROVE  RegistryInv'
  <1> DEFINE a == task[t].on
             next == IF task[t].pc = "remove" THEN Idle ELSE [pc |-> "lookup", on |-> NoActor]
  <1>1. /\ task[t].pc \in {"forget", "remove"}
        /\ current' = IF current = a THEN NoActor ELSE current
        /\ task' = [task EXCEPT ![t] = next]
        /\ UNCHANGED <<act, lock, spawned, panics>>
    BY DEF remove_if_current
  <1>2. TypeOK /\ a \in Actor /\ act[a] \in ActorType /\ act = [act EXCEPT ![a] = act[a]]
    BY <1>1, Stops DEF Stopping
  <1>3. next \in TaskType /\ next.pc \in {"idle", "lookup"} /\ next.on = NoActor
    BY DEF TaskType, Idle
  <1>4. next.on <= spawned
    BY <1>2, <1>3 DEF TypeOK, NoActor
  <1>5. t = "main" => next.pc # "lookup"
    BY <1>1 DEF RegistryInv, Births, Stopping, Idle
  <1> HIDE DEF next, a
  <1> QED
    BY <1>1, <1>2, <1>3, <1>4, <1>5, StopMoves DEF Stopping, a

-----------------------------------------------------------------------------
(* The theorems.                                                           *)

LEMMA UnchangedStep ==
    ASSUME RegistryInv, UNCHANGED vars
    PROVE  RegistryInv'
  <1>1. UNCHANGED <<current, act, task, lock, spawned, panics>>
    BY DEF vars
  <1>2. \A a : Holders(a)' = Holders(a)
    BY <1>1 DEF Holders
  <1> QED
    BY <1>1, <1>2
    DEF RegistryInv, TypeOK, Births, Counted, Opening, Evicting, Visible, Stoppers, Leased,
        Current, Handles, Serving, Over, is_draining

LEMMA StepRegistry == RegistryInv /\ [Next]_vars => RegistryInv'
  <1> SUFFICES ASSUME RegistryInv, [Next]_vars PROVE RegistryInv'
    OBVIOUS
  <1>1. CASE UNCHANGED vars
    BY <1>1, UnchangedStep
  <1>2. CASE evict_idle
    BY <1>2, EvictStep
  <1>3. CASE \E t \in Task : Ask(t) \/ Acquire(t) \/ release_lease(t) \/ SendCall(t)
    BY <1>3, AskStep, LookupStep, WaitClosedStep, WaitReadyStep, ReleaseStep, SendCallStep DEF Acquire
  <1>4. CASE \E t \in Party : Stop(t)
    BY <1>4, DrainStep, SendDrainingStep, SendStopStep, TakeStep, JoinStep, RemoveStep DEF Stop
  <1>5. CASE \E a \in Actor : Worker(a)
    BY <1>5, WorkerStep
  <1> QED
    BY <1>1, <1>2, <1>3, <1>4, <1>5 DEF Next

\* The registry's entry, the leases and the places of all parties agree with
\* the life of every worker, in every reachable state (registry.rs).
THEOREM RegistryFollows == Spec => []RegistryInv
  BY InitRegistry, StepRegistry, PTL DEF Spec

\* For any number of tasks, panics and replacements, at most one worker thread
\* takes the commands of a store (ProjectRegistry::acquire, evict_idle).
THEOREM WorkersAlternate == Spec => []OneServingWorker
  <1>1. RegistryInv => OneServingWorker
    BY DEF RegistryInv, Current, OneServingWorker, Serving
  <1> QED
    BY <1>1, RegistryFollows, PTL

\* For any number of tasks, no eviction stops an actor under a task that holds
\* a lease on it (evict_idle checks and drains under the registry's lock).
THEOREM LeasesHold == Spec => []LeasedIsKept
  <1>1. ASSUME RegistryInv PROVE LeasedIsKept
    <2> SUFFICES ASSUME NEW t \in Task, task[t].pc = "leased"
                 PROVE  act[task[t].on].accepting \/ act[task[t].on].worker \in {"exiting", "gone"}
      BY DEF LeasedIsKept
    <2>1. task[t].on \in Actor
      BY <1>1 DEF RegistryInv, Births, TypeOK, TaskType, Party
    <2>2. t \in Holders(task[t].on)
      BY DEF Holders
    <2> QED
      BY <1>1, <2>1, <2>2 DEF RegistryInv, Leased, Over
  <1> QED
    BY <1>1, RegistryFollows, PTL
=============================================================================

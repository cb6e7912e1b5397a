---------------------------- MODULE ActorRegistry ----------------------------
(***************************************************************************)
(* ProjectRegistry (src/src/daemon/registry.rs): which project actor       *)
(* serves a store.  Tasks acquire and release leases, the main loop evicts *)
(* an actor nobody uses, a worker thread may panic; a stopped or failed    *)
(* actor is replaced by a new one when somebody asks again.                *)
(*                                                                         *)
(* Abstraction.  One store: the others only share the limit on the number  *)
(* of actors.  Of a command it matters whether it is queued, running or    *)
(* panics; ProjectActor has its details.  An actor that was idle for the   *)
(* configured seconds is not in the few instructions between the end of a  *)
(* command that panicked and send(Failed) (ClockAllows).                   *)
(***************************************************************************)
EXTENDS Naturals, FiniteSets

CONSTANTS Task,        \* acquire_project requests under way
          MaxActors,   \* bound: actors ever spawned for the store
          MaxPanics    \* bound: panics of worker threads

ASSUME RegistryAssumption ==
    /\ MaxActors \in Nat \ {0}
    /\ MaxPanics \in Nat
    /\ "main" \notin Task /\ IsFiniteSet(Task)

Actor == 1 .. MaxActors
NoActor == 0
Party == Task \cup {"main"}     \* the main loop evicts

VARIABLES current,   \* the registry's entry for the store
          act,       \* the actors
          task,      \* where each party is, and on which actor
          lock,      \* is the registry's lock held by the main loop?
          spawned, panics

vars == <<current, act, task, lock, spawned, panics>>

Unborn == [state |-> "opening", accepting |-> TRUE, leases |-> 0, queued |-> 0,
           busy |-> FALSE, stop |-> FALSE, worker |-> "none", handle |-> FALSE]

ActorType ==
    [state : {"opening", "ready", "draining", "failed", "closed"},
     accepting : BOOLEAN, leases : Nat, queued : {0, 1}, busy : BOOLEAN,
     stop : BOOLEAN, handle : BOOLEAN,
     worker : {"none", "opening", "recv", "run", "failing", "exiting", "gone"}]

TaskType ==
    [pc : {"idle", "lookup", "wait_closed", "forget", "wait_ready", "leased",
           "drain", "send_draining", "send_stop", "take", "join", "remove"},
     on : Actor \cup {NoActor}]

TypeOK ==
    /\ current \in Actor \cup {NoActor}
    /\ act \in [Actor -> ActorType]
    /\ task \in [Party -> TaskType]
    /\ lock \in BOOLEAN
    /\ spawned \in 0 .. MaxActors
    /\ panics \in 0 .. MaxPanics

Idle == [pc |-> "idle", on |-> NoActor]

Init ==
    /\ current = NoActor
    /\ act = [a \in Actor |-> Unborn]
    /\ task = [t \in Party |-> Idle]
    /\ lock = FALSE
    /\ spawned = 0
    /\ panics = 0

is_draining(a) == act[a].state \in {"draining", "failed", "closed"}

Goto(t, pc) == task' = [task EXCEPT ![t].pc = pc]
-----------------------------------------------------------------------------
(***************************************************************************)
(* ProjectRegistry::acquire.                                               *)
(***************************************************************************)
Ask(t) ==
    /\ task[t].pc = "idle"
    /\ Goto(t, "lookup")
    /\ UNCHANGED <<current, act, lock, spawned, panics>>

\* A deliberately wrong variant: a lease on an actor that is there is not counted.
LookupUncounted(t) ==
    /\ task[t].pc = "lookup"
    /\ ~lock
    /\ \/ /\ current = NoActor
          /\ spawned < MaxActors
          /\ spawned' = spawned + 1
          /\ current' = spawned'
          /\ act' = [act EXCEPT ![spawned'] = [Unborn EXCEPT !.leases = 1,
                                                 !.worker = "opening", !.handle = TRUE]]
          /\ task' = [task EXCEPT ![t] = [pc |-> "wait_ready", on |-> spawned']]
       \/ /\ current # NoActor
          /\ task' = [task EXCEPT ![t] =
                        [pc |-> IF is_draining(current) THEN "wait_closed"
                                ELSE "wait_ready",
                         on |-> current]]
          /\ UNCHANGED <<current, act, spawned>>
    /\ UNCHANGED <<lock, panics>>

\* Under the lock: lease the store's actor, spawn one, or wait for the end of
\* the one that is going away.
Lookup(t) ==
    /\ task[t].pc = "lookup"
    /\ ~lock
    /\ \/ /\ current = NoActor
          /\ spawned < MaxActors
          /\ spawned' = spawned + 1
          /\ current' = spawned'
          /\ act' = [act EXCEPT ![spawned'] = [Unborn EXCEPT !.leases = 1,
                                                 !.worker = "opening", !.handle = TRUE]]
          /\ task' = [task EXCEPT ![t] = [pc |-> "wait_ready", on |-> spawned']]
       \/ /\ current # NoActor
          /\ ~is_draining(current)
          /\ act' = [act EXCEPT ![current].leases = @ + 1]
          /\ task' = [task EXCEPT ![t] = [pc |-> "wait_ready", on |-> current]]
          /\ UNCHANGED <<current, spawned>>
       \/ /\ current # NoActor
          /\ is_draining(current)
          /\ task' = [task EXCEPT ![t] = [pc |-> "wait_closed", on |-> current]]
          /\ UNCHANGED <<current, act, spawned>>
    /\ UNCHANGED <<lock, panics>>

wait_closed(t) ==
    /\ task[t].pc = "wait_closed"
    /\ act[task[t].on].state = "closed"
    /\ Goto(t, "forget")
    /\ UNCHANGED <<current, act, lock, spawned, panics>>

\* The lease is good, or it is given back and the actor stopped.
wait_ready(t) ==
    LET a == task[t].on
    IN /\ task[t].pc = "wait_ready"
       /\ act[a].state # "opening"
       /\ IF act[a].state = "ready"
          THEN Goto(t, "leased") /\ UNCHANGED act
          ELSE /\ act' = [act EXCEPT ![a].leases = @ - 1]
               /\ Goto(t, "drain")
       /\ UNCHANGED <<current, lock, spawned, panics>>

release_lease(t) ==
    /\ task[t].pc = "leased"
    /\ act' = [act EXCEPT ![task[t].on].leases = @ - 1]
    /\ task' = [task EXCEPT ![t] = Idle]
    /\ UNCHANGED <<current, lock, spawned, panics>>

\* A holder's call joins the queue; the actor may be gone by then.
SendCall(t) ==
    LET a == task[t].on
    IN /\ task[t].pc = "leased"
       /\ act[a].accepting
       /\ act[a].worker # "gone"
       /\ act[a].queued = 0
       /\ act' = [act EXCEPT ![a].queued = 1]
       /\ UNCHANGED <<current, task, lock, spawned, panics>>
-----------------------------------------------------------------------------
(***************************************************************************)
(* evict_idle, and ProjectActor::stop.                                     *)
(***************************************************************************)
ClockAllows(a) == act[a].worker # "failing"

\* A deliberately wrong variant: an actor without work is idle, leased or not.
IdleThoughLeased(a) == act[a].queued = 0 /\ ~act[a].busy /\ ClockAllows(a)

is_idle_for(a) ==
    /\ act[a].leases = 0
    /\ act[a].queued = 0
    /\ ~act[a].busy
    /\ ClockAllows(a)

evict_idle ==
    /\ task["main"].pc = "idle"
    /\ current # NoActor
    /\ is_idle_for(current)
    /\ lock' = TRUE
    /\ task' = [task EXCEPT !["main"] = [pc |-> "drain", on |-> current]]
    /\ UNCHANGED <<current, act, spawned, panics>>

\* begin_draining, first half: stop accepting and look at the state.
begin_draining(t) ==
    LET a == task[t].on
        announce == act[a].accepting /\ act[a].state \notin {"failed", "closed"}
    IN /\ task[t].pc = "drain"
       /\ act' = [act EXCEPT ![a].accepting = FALSE]
       /\ Goto(t, IF announce THEN "send_draining" ELSE "send_stop")
       /\ lock' = IF t = "main" /\ ~announce THEN FALSE ELSE lock
       /\ UNCHANGED <<current, spawned, panics>>

\* Second half: send(Draining), whatever the worker has sent in between.
SendDraining(t) ==
    /\ task[t].pc = "send_draining"
    /\ act' = [act EXCEPT ![task[t].on].state = "draining"]
    /\ Goto(t, "send_stop")
    /\ lock' = IF t = "main" THEN FALSE ELSE lock
    /\ UNCHANGED <<current, spawned, panics>>

SendStop(t) ==
    LET a == task[t].on
    IN /\ task[t].pc = "send_stop"
       /\ act' = [act EXCEPT ![a].stop = @ \/ act[a].worker # "gone"]
       /\ Goto(t, "take")
       /\ UNCHANGED <<current, lock, spawned, panics>>

\* The first to stop an actor joins its thread, the next one finds no handle.
Take(t) ==
    LET a == task[t].on
    IN /\ task[t].pc = "take"
       /\ act' = [act EXCEPT ![a].handle = FALSE]
       /\ Goto(t, IF act[a].handle THEN "join" ELSE "remove")
       /\ UNCHANGED <<current, lock, spawned, panics>>

Join(t) ==
    /\ task[t].pc = "join"
    /\ act[task[t].on].worker = "gone"
    /\ Goto(t, "remove")
    /\ UNCHANGED <<current, act, lock, spawned, panics>>

\* A deliberately wrong variant: whatever actor the store has is removed.
RemoveAny(t) ==
    /\ task[t].pc \in {"remove", "forget"}
    /\ ~lock
    /\ current' = NoActor
    /\ task' = [task EXCEPT ![t] = IF @.pc = "remove" THEN Idle
                                   ELSE [pc |-> "lookup", on |-> NoActor]]
    /\ UNCHANGED <<act, lock, spawned, panics>>

\* After a stop, or after waiting for the end, when the loop starts over.
remove_if_current(t) ==
    /\ task[t].pc \in {"remove", "forget"}
    /\ ~lock
    /\ current' = IF current = task[t].on THEN NoActor ELSE current
    /\ task' = [task EXCEPT ![t] = IF @.pc = "remove" THEN Idle
                                   ELSE [pc |-> "lookup", on |-> NoActor]]
    /\ UNCHANGED <<act, lock, spawned, panics>>
-----------------------------------------------------------------------------
(***************************************************************************)
(* The worker threads.                                                     *)
(***************************************************************************)
Work(a, from, new) ==
    /\ act[a].worker = from
    /\ act' = [act EXCEPT ![a] = new]
    /\ UNCHANGED <<current, task, lock, spawned>>

Open(a) ==
    /\ Work(a, "opening", [act[a] EXCEPT !.worker = "recv", !.state = "ready"])
    /\ UNCHANGED panics

Receive(a) ==
    /\ act[a].queued > 0
    /\ Work(a, "recv", [act[a] EXCEPT !.worker = "run", !.queued = @ - 1,
                                      !.busy = TRUE])
    /\ UNCHANGED panics

Finish(a) ==
    /\ Work(a, "run", [act[a] EXCEPT !.worker = "recv", !.busy = FALSE])
    /\ UNCHANGED panics

\* A panic in the command is caught, one in its preparation is not.
Panic(a) ==
    /\ panics < MaxPanics
    /\ panics' = panics + 1
    /\ \/ Work(a, "run", [act[a] EXCEPT !.worker = "failing", !.busy = FALSE])
       \/ Work(a, "run", [act[a] EXCEPT !.worker = "exiting"])

Fail(a) ==
    /\ Work(a, "failing", [act[a] EXCEPT !.worker = "exiting", !.state = "failed"])
    /\ UNCHANGED panics

ReceiveStop(a) ==
    /\ act[a].stop /\ act[a].queued = 0
    /\ Work(a, "recv", [act[a] EXCEPT !.worker = "exiting"])
    /\ UNCHANGED panics

\* A deliberately wrong variant: the end is only announced after a Stop.
ExitQuietly(a) ==
    /\ Work(a, "exiting", [act[a] EXCEPT !.worker = "gone", !.queued = 0,
                              !.state = IF act[a].stop THEN "closed" ELSE @])
    /\ UNCHANGED panics

\* The service is dropped, then ActorCloseGuard sends Closed.
Exit(a) ==
    /\ Work(a, "exiting", [act[a] EXCEPT !.worker = "gone", !.queued = 0,
                                         !.state = "closed"])
    /\ UNCHANGED panics
-----------------------------------------------------------------------------
Acquire(t) == Lookup(t) \/ wait_closed(t) \/ wait_ready(t)

Stop(t) ==
    \/ begin_draining(t) \/ SendDraining(t) \/ SendStop(t) \/ Take(t) \/ Join(t)
    \/ remove_if_current(t)

Worker(a) ==
    \/ Open(a) \/ Receive(a) \/ Finish(a) \/ Panic(a) \/ Fail(a) \/ ReceiveStop(a)
    \/ Exit(a)

Next ==
    \/ \E t \in Task : Ask(t) \/ Acquire(t) \/ release_lease(t) \/ SendCall(t)
    \/ evict_idle
    \/ \E t \in Party : Stop(t)
    \/ \E a \in Actor : Worker(a)

Spec == Init /\ [][Next]_vars

\* Tasks and threads run whenever they can; nobody has to ask, to release or to
\* be evicted.
FairSpec ==
    /\ Spec
    /\ \A t \in Task : WF_vars(Acquire(t))
    /\ \A t \in Party : WF_vars(Stop(t))
    /\ \A a \in Actor : WF_vars(Worker(a))
-----------------------------------------------------------------------------
\* No two worker threads ever serve the store at the same time: a successor is
\* spawned only when its predecessor has stopped taking commands.
OneServingWorker ==
    \A a, b \in Actor :
        /\ act[a].worker \in {"opening", "recv", "run"}
        /\ act[b].worker \in {"opening", "recv", "run"}
        => a = b

\* "One serialized project actor and MemoryEngine per canonical physical store"
\* (README.md): the thread of an actor has ended, and its engine is closed,
\* before the next actor of the store exists.
OneWorkerPerStore ==
    \A a, b \in Actor :
        /\ act[a].worker \notin {"none", "gone"}
        /\ act[b].worker \notin {"none", "gone"}
        => a = b

\* An eviction never takes the actor away from a task that holds a lease on it:
\* the check that nobody does and the lease of the next task exclude each other.
LeasedIsKept ==
    \A t \in Task :
        task[t].pc = "leased" =>
            \/ act[task[t].on].accepting
            \/ act[task[t].on].worker \in {"exiting", "gone"}

\* An acquire returns, with a lease or an error, however evictions and panics
\* fall; it ends early only when the bound on actors is used up.
AcquireEnds ==
    \A t \in Task :
        task[t].pc = "lookup" ~>
            task[t].pc \in {"idle", "leased"} \/ spawned = MaxActors
=============================================================================

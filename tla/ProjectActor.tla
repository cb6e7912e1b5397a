---------------------------- MODULE ProjectActor ----------------------------
(***************************************************************************)
(* One project actor of the daemon (src/src/daemon/actor.rs) with the      *)
(* sessions that use it (src/src/daemon/mod.rs): leases, the life of a     *)
(* project call from admission to answer, the worker thread that runs the  *)
(* commands of the queue one at a time, the main loop that schedules       *)
(* maintenance and model switch steps, evicts the actor and ends the       *)
(* daemon.                                                                 *)
(*                                                                         *)
(* A call is shared by four parties that hold no common lock: the task     *)
(* that awaits its answer, the worker, the control requests of its session *)
(* (cancel, release) and the end of its session.  They meet in the atomic  *)
(* call_state only.                                                        *)
(*                                                                         *)
(* Abstraction.  Requests are model values.  Byte budgets, heartbeats and  *)
(* fingerprints are left out; a deadline is a flag that is raised at any   *)
(* time (PassDeadline), and an interval that must have passed may have.    *)
(* There is one actor; ActorRegistry has its successors.                   *)
(***************************************************************************)
EXTENDS Naturals, Sequences, FiniteSets

CONSTANTS Session, Call,
          Capacity,      \* PROJECT_QUEUE_CAPACITY
          MaxLeases,     \* bound: leases issued
          MaxSwitches,   \* bound: model switches begun
          MaxPanics,     \* bound: panics of the worker thread
          MaxTrouble     \* bound: the two together

ASSUME ActorAssumption ==
    /\ Capacity \in Nat \ {0}
    /\ MaxLeases \in Nat \ {0} /\ MaxSwitches \in Nat /\ MaxPanics \in Nat
    /\ MaxTrouble \in Nat
    /\ Call \cap {"maintenance", "switch", "stop", "none"} = {}
    /\ "none" \notin Session
    /\ IsFiniteSet(Session) /\ IsFiniteSet(Call)

VARIABLES
    session,   \* state of each session
    held,      \* serial of the lease a session holds, 0 for none
    acquiring, \* the tasks that give a lease, or give it back, by its serial
    issued,    \* leases asked for so far
    call,      \* the calls
    actor,     \* the fields of ProjectActor
    queue,     \* the command channel
    worker,    \* the worker thread: where it is, and its command
    daemon,    \* "up", "draining" (drain_requested) or "down"
    started,   \* ghost: calls whose transaction began
    told,      \* ghost: calls reported CancelledBeforeStart to the client
    switches, panics

clients == <<session, held, acquiring, issued>>
bounds == <<switches, panics>>
vars == <<clients, call, actor, queue, worker, daemon, started, told, bounds>>

NoTask == [session |-> "none", at |-> "none"]
Releasing == [session |-> "none", at |-> "releasing"]

NoCall == [state |-> "none", stage |-> "none", session |-> "none",
           lease |-> 0, late |-> FALSE, answer |-> "none"]

CallStates == {"none", "queued", "running", "completed", "cancelled"}
Stages == {"none", "admitted", "ready", "waiting", "answered"}
Answers == {"none", "done", "refused", "cancelled", "deadline", "failed",
            "dropped"}
Commands == Call \cup {"maintenance", "switch", "stop"}
Places == {"opening", "recv", "permit", "check", "prepare", "recheck", "start",
           "run", "failing", "exiting", "gone"}

CallType ==
    [state : CallStates, stage : Stages, session : Session \cup {"none"},
     lease : 0 .. MaxLeases, late : BOOLEAN, answer : Answers]

ActorType ==
    [state : {"opening", "ready", "draining", "failed", "closed"},
     accepting : BOOLEAN, leases : Nat, active : 0 .. 1, pending : Nat,
     engine : BOOLEAN, switch : BOOLEAN, maintenance_queued : BOOLEAN,
     switch_queued : BOOLEAN, evicting : BOOLEAN, removed : BOOLEAN]

TypeOK ==
    /\ session \in [Session -> {"new", "open", "closed"}]
    /\ held \in [Session -> 0 .. MaxLeases]
    /\ acquiring \in [1 .. MaxLeases -> {NoTask, Releasing}
                          \cup [session : Session, at : {"checked", "leased"}]]
    /\ issued \in 0 .. MaxLeases
    /\ call \in [Call -> CallType]
    /\ actor \in ActorType
    /\ queue \in Seq(Commands) /\ Len(queue) <= Capacity
    /\ worker \in [at : Places, cmd : Commands \cup {"none"}]
    /\ daemon \in {"up", "draining", "down"}
    /\ started \subseteq Call
    /\ told \subseteq Call
    /\ switches \in 0 .. MaxSwitches
    /\ panics \in 0 .. MaxPanics

\* ProjectRegistry::acquire has just spawned the actor for a first session and
\* counted its lease; switch_active is read from the switch journal.
Init ==
    /\ \E s \in Session :
          /\ session = [x \in Session |-> IF x = s THEN "open" ELSE "new"]
          /\ acquiring = [k \in 1 .. MaxLeases |->
                            IF k = 1 THEN [session |-> s, at |-> "leased"] ELSE NoTask]
    /\ held = [s \in Session |-> 0]
    /\ issued = 1
    /\ call = [c \in Call |-> NoCall]
    /\ \E switch \in BOOLEAN :
          /\ actor = [state |-> "opening", accepting |-> TRUE, leases |-> 1,
                      active |-> 0, pending |-> 0, engine |-> FALSE,
                      switch |-> switch, maintenance_queued |-> FALSE,
                      switch_queued |-> FALSE, evicting |-> FALSE,
                      removed |-> FALSE]
          /\ switches = IF switch THEN 1 ELSE 0
          /\ switch => MaxSwitches > 0
    /\ queue = <<>>
    /\ worker = [at |-> "opening", cmd |-> "none"]
    /\ daemon = "up"
    /\ started = {} /\ told = {}
    /\ panics = 0

\* The worker may still panic, within the bounds.
MayPanic == panics < MaxPanics /\ panics + switches < MaxTrouble

is_draining == actor.state \in {"draining", "failed", "closed"}
has_queued_work == actor.pending > 0 \/ actor.active > 0
has_work == has_queued_work \/ actor.switch
\* The registry forgets an actor once it was stopped.
has_activity == ~actor.removed /\ (actor.leases > 0 \/ has_work)
is_busy == (\E s \in Session : session[s] = "open") \/ has_activity
-----------------------------------------------------------------------------
(***************************************************************************)
(* Sessions and leases.                                                    *)
(***************************************************************************)

\* compare_exchange(CALL_QUEUED, CALL_CANCELLED) on every call of C.
CancelQueued(C) ==
    call' = [c \in Call |-> IF c \in C /\ call[c].state = "queued"
                            THEN [call[c] EXCEPT !.state = "cancelled"]
                            ELSE call[c]]

\* A deliberately wrong variant: a draining daemon still opens sessions.
OpenWhileDraining(s) ==
    /\ session[s] = "new"
    /\ daemon # "down"
    /\ session' = [session EXCEPT ![s] = "open"]
    /\ UNCHANGED <<held, acquiring, issued, call, actor, queue, worker, daemon,
                   started, told, bounds>>

open_session(s) ==
    /\ session[s] = "new"
    /\ daemon = "up"
    /\ session' = [session EXCEPT ![s] = "open"]
    /\ UNCHANGED <<held, acquiring, issued, call, actor, queue, worker, daemon,
                   started, told, bounds>>

\* acquire_project: the checks, before the registry is asked.  Every request is a
\* task of its own, so that a session may have several on their way; one of a
\* session that holds its lease gets that one again, and changes nothing.
acquire_project(s) ==
    /\ session[s] = "open"
    /\ daemon = "up"
    /\ held[s] = 0
    /\ issued < MaxLeases
    /\ issued' = issued + 1
    /\ acquiring' = [acquiring EXCEPT ![issued'] = [session |-> s, at |-> "checked"]]
    /\ UNCHANGED <<session, held, call, actor, queue, worker, daemon, started,
                   told, bounds>>

\* ProjectRegistry::acquire: the lease is counted, whatever has become of the
\* session in the meantime.
RegistryAcquire(k) ==
    /\ acquiring[k].at = "checked"
    /\ ~actor.evicting
    /\ ~is_draining
    /\ acquiring' = [acquiring EXCEPT ![k].at = "leased"]
    /\ actor' = [actor EXCEPT !.leases = @ + 1]
    /\ UNCHANGED <<session, held, issued, call, queue, worker, daemon, started,
                   told, bounds>>

\* The same, when the actor is going away: once it has closed it is forgotten,
\* and the session gets its lease on a successor, which is not modelled here.
RegistryForget(k) ==
    /\ acquiring[k].at = "checked"
    /\ actor.state = "closed"
    /\ acquiring' = [acquiring EXCEPT ![k] = NoTask]
    /\ actor' = [actor EXCEPT !.removed = TRUE]
    /\ UNCHANGED <<session, held, issued, call, queue, worker, daemon, started,
                   told, bounds>>

\* begin_draining.
Drained ==
    [actor EXCEPT !.accepting = FALSE, !.evicting = FALSE,
                  !.state = IF @ \in {"failed", "closed"} THEN @ ELSE "draining"]

\* A deliberately wrong variant: the session is not looked at again for a lease
\* that another request has stored since.
AcquiredAgain(k) ==
    LET s == acquiring[k].session IN
    /\ acquiring[k].at = "leased"
    /\ actor.state # "opening"
    /\ acquiring' = [acquiring EXCEPT ![k] = NoTask]
    /\ IF actor.state = "ready" /\ session[s] = "open"
       THEN held' = [held EXCEPT ![s] = k] /\ UNCHANGED actor
       ELSE /\ actor' = [(IF actor.state = "ready" THEN actor ELSE Drained)
                           EXCEPT !.leases = @ - 1]
            /\ UNCHANGED held
    /\ UNCHANGED <<session, issued, call, queue, worker, daemon, started, told,
                   bounds>>

\* acquire_project after the registry: the lease is stored in the session, or
\* given back when the session is gone, or has been given one in the meantime;
\* an actor that did not become ready is stopped.
Acquired(k) ==
    LET s == acquiring[k].session IN
    /\ acquiring[k].at = "leased"
    /\ actor.state # "opening"
    /\ acquiring' = [acquiring EXCEPT ![k] = NoTask]
    /\ IF actor.state = "ready" /\ session[s] = "open" /\ held[s] = 0
       THEN held' = [held EXCEPT ![s] = k] /\ UNCHANGED actor
       ELSE /\ actor' = [(IF actor.state = "ready" THEN actor ELSE Drained)
                           EXCEPT !.leases = @ - 1]
            /\ UNCHANGED held
    /\ UNCHANGED <<session, issued, call, queue, worker, daemon, started, told,
                   bounds>>

CallsOf(s) == {c \in Call : call[c].session = s}

\* The lease leaves the session; the actor hears of it later (release_lease).
TakeLease(s) ==
    /\ held' = [held EXCEPT ![s] = 0]
    /\ acquiring' = IF held[s] = 0 THEN acquiring
                    ELSE [acquiring EXCEPT ![held[s]] = Releasing]

\* A deliberately wrong variant: the queued calls of the lease are left alone.
ReleaseOnly(s) ==
    /\ session[s] = "open"
    /\ held[s] # 0
    /\ TakeLease(s)
    /\ UNCHANGED <<session, issued, call, actor, queue, worker, daemon, started,
                   told, bounds>>

release_project(s) ==
    /\ session[s] = "open"
    /\ held[s] # 0
    /\ CancelQueued({c \in CallsOf(s) : call[c].lease = held[s]})
    /\ TakeLease(s)
    /\ UNCHANGED <<session, issued, actor, queue, worker, daemon, started, told,
                   bounds>>

\* close_connection, or expire_sessions.
CloseSession(s) ==
    /\ session[s] = "open"
    /\ daemon # "down"
    /\ session' = [session EXCEPT ![s] = "closed"]
    /\ CancelQueued(CallsOf(s))
    /\ TakeLease(s)
    /\ UNCHANGED <<issued, actor, queue, worker, daemon, started, told, bounds>>

\* ProjectActor::release_lease, outside the lock of the sessions.
release_lease(k) ==
    /\ acquiring[k].at = "releasing"
    /\ acquiring' = [acquiring EXCEPT ![k] = NoTask]
    /\ actor' = [actor EXCEPT !.leases = @ - 1]
    /\ UNCHANGED <<session, held, issued, call, queue, worker, daemon, started,
                   told, bounds>>

admit_project_call(c, s) ==
    /\ session[s] = "open"
    /\ held[s] # 0
    /\ call[c].stage = "none"
    /\ call' = [call EXCEPT ![c] = [NoCall EXCEPT !.state = "queued",
                                                  !.stage = "admitted",
                                                  !.session = s,
                                                  !.lease = held[s]]]
    /\ UNCHANGED <<clients, actor, queue, worker, daemon, started, told, bounds>>

\* CancelCall: a second request gets the same outcome.
cancel_call(c) ==
    /\ call[c].stage # "none"
    /\ session[call[c].session] = "open"
    /\ call[c].state \in {"queued", "cancelled"}
    /\ CancelQueued({c})
    /\ told' = told \cup {c}
    /\ UNCHANGED <<clients, actor, queue, worker, daemon, started, bounds>>
-----------------------------------------------------------------------------
(***************************************************************************)
(* ProjectActor::call, the task that awaits the answer.                    *)
(***************************************************************************)
PassDeadline(c) ==
    /\ call[c].stage \in {"admitted", "ready", "waiting"}
    /\ ~call[c].late
    /\ call' = [call EXCEPT ![c].late = TRUE]
    /\ UNCHANGED <<clients, actor, queue, worker, daemon, started, told, bounds>>

\* An early return: call_state.store(CALL_COMPLETED).
Refuse(c, answer) ==
    /\ call' = [call EXCEPT ![c].state = "completed", ![c].stage = "answered",
                            ![c].answer = answer]
    /\ UNCHANGED <<actor, queue>>

\* wait_ready and the deadline.
wait_ready(c) ==
    /\ call[c].stage = "admitted"
    /\ actor.state # "opening"
    /\ IF is_draining THEN Refuse(c, "refused")
       ELSE IF call[c].late THEN Refuse(c, "deadline")
       ELSE call' = [call EXCEPT ![c].stage = "ready"] /\ UNCHANGED <<actor, queue>>
    /\ UNCHANGED <<clients, worker, daemon, started, told, bounds>>

\* A deliberately wrong variant: a queue without a limit.
SendUnbounded == worker.at = "gone"

\* sender.try_send fails when the queue is full or the worker is gone.
try_send_fails == Len(queue) = Capacity \/ worker.at = "gone"

\* A deliberately wrong variant: the task does not look at "accepting".
EnqueueAnyway(c) ==
    /\ call[c].stage = "ready"
    /\ IF try_send_fails THEN Refuse(c, "refused")
       ELSE /\ queue' = Append(queue, c)
            /\ actor' = [actor EXCEPT !.pending = @ + 1]
            /\ call' = [call EXCEPT ![c].stage = "waiting"]
    /\ UNCHANGED <<clients, worker, daemon, started, told, bounds>>

\* Under the accepting lock: the call joins the queue.
Enqueue(c) ==
    /\ call[c].stage = "ready"
    /\ IF ~actor.accepting \/ try_send_fails THEN Refuse(c, "refused")
       ELSE /\ queue' = Append(queue, c)
            /\ actor' = [actor EXCEPT !.pending = @ + 1]
            /\ call' = [call EXCEPT ![c].stage = "waiting"]
    /\ UNCHANGED <<clients, worker, daemon, started, told, bounds>>

\* tokio::time::timeout on the answer.
TimeOut(c) ==
    /\ call[c].stage = "waiting"
    /\ call[c].late
    /\ call' = [call EXCEPT ![c].stage = "answered", ![c].answer = "deadline"]
    /\ UNCHANGED <<clients, actor, queue, worker, daemon, started, told, bounds>>
-----------------------------------------------------------------------------
(***************************************************************************)
(* The worker thread.                                                      *)
(***************************************************************************)
Goto(place) == worker' = [worker EXCEPT !.at = place]
NextCommand == worker' = [at |-> "recv", cmd |-> "none"]

\* reply.send: lost when the task has given up.
Replied(c, state, answer) ==
    [call EXCEPT ![c].state = state,
                 ![c].answer = IF call[c].stage = "waiting" THEN answer ELSE @,
                 ![c].stage = IF @ = "waiting" THEN "answered" ELSE @]

\* A deliberately wrong variant: the call that ended stays counted.
EndStillActive(c, state, answer) ==
    /\ call' = Replied(c, state, answer)
    /\ UNCHANGED actor
    /\ NextCommand

\* The call ends without a transaction.
EndCall(c, state, answer) ==
    /\ call' = Replied(c, state, answer)
    /\ actor' = [actor EXCEPT !.active = @ - 1]
    /\ NextCommand

Opened ==
    /\ worker.at = "opening"
    /\ actor' = [actor EXCEPT !.state = "ready"]
    /\ NextCommand
    /\ UNCHANGED <<clients, call, queue, daemon, started, told, bounds>>

\* blocking_recv; a call is active before its permit is dropped.
Receive ==
    /\ worker.at = "recv"
    /\ queue # <<>>
    /\ queue' = Tail(queue)
    /\ CASE Head(queue) \in Call ->
              /\ worker' = [at |-> "permit", cmd |-> Head(queue)]
              /\ actor' = [actor EXCEPT !.active = @ + 1]
         [] Head(queue) \in {"maintenance", "switch"} ->
              /\ worker' = [at |-> "run", cmd |-> Head(queue)]
              /\ actor' = [actor EXCEPT !.active = @ + 1]
         [] OTHER -> Goto("exiting") /\ UNCHANGED actor
    /\ UNCHANGED <<clients, call, daemon, started, told, bounds>>

DropPermit ==
    /\ worker.at = "permit"
    /\ actor' = [actor EXCEPT !.pending = @ - 1]
    /\ Goto("check")
    /\ UNCHANGED <<clients, call, queue, daemon, started, told, bounds>>

\* A deliberately wrong variant: a late call is answered and stays queued.
CheckUnsettled ==
    LET c == worker.cmd
    IN /\ worker.at \in {"check", "recheck"}
       /\ IF worker.at = "check" /\ call[c].state # "queued"
          THEN EndCall(c, call[c].state, "cancelled")
          ELSE IF call[c].late
          THEN EndCall(c, call[c].state, "deadline")
          ELSE /\ Goto(IF worker.at = "check" THEN "prepare" ELSE "start")
               /\ UNCHANGED <<call, actor>>
       /\ UNCHANGED <<clients, queue, daemon, started, told, bounds>>

\* A call that was cancelled, or whose deadline has passed, ends here: before
\* the engine is opened ("check") and again after it ("recheck").
CheckCall ==
    LET c == worker.cmd
    IN /\ worker.at \in {"check", "recheck"}
       /\ IF worker.at = "check" /\ call[c].state # "queued"
          THEN EndCall(c, call[c].state, "cancelled")
          ELSE IF call[c].late
          THEN EndCall(c, "cancelled", "deadline")
          ELSE /\ Goto(IF worker.at = "check" THEN "prepare" ELSE "start")
               /\ UNCHANGED <<call, actor>>
       /\ UNCHANGED <<clients, queue, daemon, started, told, bounds>>

\* prepare_project_request opens the engine.  An error is an answer; a panic
\* is not caught and unwinds the thread.
PrepareCall ==
    LET c == worker.cmd
    IN /\ worker.at = "prepare"
       /\ \/ Goto("recheck") /\ UNCHANGED <<call, actor, panics>>
          \/ /\ IF call[c].state = "queued" THEN EndCall(c, "completed", "done")
                ELSE EndCall(c, call[c].state, "cancelled")
             /\ UNCHANGED panics
          \/ /\ MayPanic
             /\ panics' = panics + 1
             /\ Goto("exiting")
             /\ UNCHANGED <<call, actor>>
       /\ UNCHANGED <<clients, queue, daemon, started, told, switches>>

\* A deliberately wrong variant: call_state is stored, not exchanged.
StartRegardless ==
    /\ worker.at = "start"
    /\ call' = [call EXCEPT ![worker.cmd].state = "running"]
    /\ started' = started \cup {worker.cmd}
    /\ Goto("run")
    /\ UNCHANGED <<clients, actor, queue, daemon, told, bounds>>

\* compare_exchange(CALL_QUEUED, CALL_RUNNING).
StartCall ==
    LET c == worker.cmd
    IN /\ worker.at = "start"
       /\ IF call[c].state = "queued"
          THEN /\ call' = [call EXCEPT ![c].state = "running"]
               /\ started' = started \cup {c}
               /\ Goto("run")
               /\ UNCHANGED actor
          ELSE EndCall(c, call[c].state, "cancelled") /\ UNCHANGED started
       /\ UNCHANGED <<clients, queue, daemon, told, bounds>>

\* What has_active_model_switch may say after a request: a switch may begin
\* or end.
SwitchAfter(on) ==
    /\ on /\ ~actor.switch => switches < MaxSwitches
    /\ switches' = IF on /\ ~actor.switch THEN switches + 1 ELSE switches

\* handle_project, or its panic, which catch_unwind turns into Failed.
RunCall ==
    LET c == worker.cmd
    IN /\ worker.at = "run" /\ c \in Call
       /\ \E engine \in {actor.engine, TRUE}, switch \in BOOLEAN :
             /\ ~engine => switch = actor.switch
             /\ SwitchAfter(switch)
             /\ actor' = [actor EXCEPT !.engine = engine, !.switch = switch,
                                       !.active = @ - 1]
       /\ \/ /\ call' = Replied(c, "completed", "done")
             /\ NextCommand
             /\ UNCHANGED panics
          \/ /\ MayPanic
             /\ panics' = panics + 1
             /\ call' = Replied(c, "completed", "failed")
             /\ Goto("failing")
       /\ UNCHANGED <<clients, queue, daemon, started, told>>

\* A deliberately wrong variant: the mark outlives the permit.
SwitchStillQueued == [actor EXCEPT !.active = @ - 1, !.pending = @ - 1]

\* The permits of the two background commands.
MaintenanceDone == [actor EXCEPT !.active = @ - 1, !.pending = @ - 1,
                                 !.maintenance_queued = FALSE]
SwitchDone == [actor EXCEPT !.active = @ - 1, !.pending = @ - 1,
                            !.switch_queued = FALSE]

RunMaintenance ==
    /\ worker.at = "run" /\ worker.cmd = "maintenance"
    /\ actor' = MaintenanceDone
    /\ \/ NextCommand /\ UNCHANGED panics
       \/ /\ actor.leases > 0 /\ actor.engine /\ ~actor.switch /\ ~is_draining
          /\ MayPanic
          /\ panics' = panics + 1
          /\ Goto("failing")
    /\ UNCHANGED <<clients, call, queue, daemon, started, told, switches>>

\* A step of the switch: it goes on, it has ended, the engine did not open, or
\* it panics.
RunSwitchStep ==
    /\ worker.at = "run" /\ worker.cmd = "switch"
    /\ \/ /\ \E on \in BOOLEAN :
               /\ SwitchAfter(on)
               /\ actor' = [SwitchDone EXCEPT !.engine = TRUE, !.switch = on]
          /\ NextCommand
          /\ UNCHANGED panics
       \/ ~actor.engine /\ actor' = SwitchDone /\ NextCommand /\ UNCHANGED bounds
       \/ /\ MayPanic
          /\ panics' = panics + 1
          /\ actor' = SwitchDone
          /\ Goto("failing")
          /\ UNCHANGED switches
    /\ UNCHANGED <<clients, call, queue, daemon, started, told>>

\* record_failure and send(Failed).
Fail ==
    /\ worker.at = "failing"
    /\ actor' = [actor EXCEPT !.state = "failed"]
    /\ Goto("exiting")
    /\ UNCHANGED <<clients, call, queue, daemon, started, told, bounds>>

InQueue(x) == \E k \in 1 .. Len(queue) : queue[k] = x

\* The thread ends: the service and then the channel are dropped, with the
\* permits and the reply handles of the commands still in it.  A call whose
\* preparation panicked loses its reply handle too.
Exit ==
    LET lost == {c \in Call : InQueue(c) \/ worker.cmd = c}
        permits == Cardinality({x \in Commands \ {"stop"} : InQueue(x)})
    IN /\ worker.at = "exiting"
       /\ worker' = [at |-> "gone", cmd |-> "none"]
       /\ queue' = <<>>
       /\ actor' = [actor EXCEPT !.state = "closed",
                                 !.pending = @ - permits,
                                 !.maintenance_queued = FALSE,
                                 !.switch_queued = FALSE]
       /\ call' = [c \in Call |-> IF c \in lost /\ call[c].stage = "waiting"
                                  THEN [call[c] EXCEPT !.stage = "answered",
                                                       !.answer = "dropped"]
                                  ELSE call[c]]
       /\ UNCHANGED <<clients, daemon, started, told, bounds>>
-----------------------------------------------------------------------------
(***************************************************************************)
(* The main loop of the daemon.                                            *)
(***************************************************************************)
enqueue_maintenance ==
    /\ daemon = "up"
    /\ ~actor.removed /\ ~actor.evicting
    /\ actor.leases > 0 /\ actor.engine /\ ~actor.switch
    /\ ~has_queued_work
    /\ actor.accepting
    /\ ~actor.maintenance_queued
    /\ ~try_send_fails
    /\ queue' = Append(queue, "maintenance")
    /\ actor' = [actor EXCEPT !.pending = @ + 1, !.maintenance_queued = TRUE]
    /\ UNCHANGED <<clients, call, worker, daemon, started, told, bounds>>

enqueue_switch_step ==
    /\ daemon # "down"
    /\ ~actor.removed /\ ~actor.evicting
    /\ actor.switch
    /\ ~has_queued_work
    /\ ~actor.switch_queued
    /\ ~try_send_fails
    /\ queue' = Append(queue, "switch")
    /\ actor' = [actor EXCEPT !.pending = @ + 1, !.switch_queued = TRUE]
    /\ UNCHANGED <<clients, call, worker, daemon, started, told, bounds>>

\* evict_idle looks at the actor (is_idle_for) and then drains it, all under
\* the lock of the registry; a call may join the queue in between.
is_idle_for ==
    /\ ~actor.removed
    /\ ~actor.evicting
    /\ actor.leases = 0
    /\ ~has_work
    /\ actor.accepting
    /\ actor' = [actor EXCEPT !.evicting = TRUE]
    /\ UNCHANGED <<clients, call, queue, worker, daemon, started, told, bounds>>

evict_idle ==
    /\ actor.evicting
    /\ actor' = Drained
    /\ UNCHANGED <<clients, call, queue, worker, daemon, started, told, bounds>>

\* stop: the Stop command waits for room; the actor leaves the registry once
\* the thread is joined.
stop ==
    /\ ~actor.accepting
    /\ ~actor.removed
    /\ \/ /\ worker.at # "gone"
          /\ ~InQueue("stop") /\ worker.cmd # "stop" /\ worker.at # "exiting"
          /\ Len(queue) < Capacity
          /\ queue' = Append(queue, "stop")
          /\ UNCHANGED actor
       \/ /\ worker.at = "gone"
          /\ actor' = [actor EXCEPT !.removed = TRUE]
          /\ UNCHANGED queue
    /\ UNCHANGED <<clients, call, worker, daemon, started, told, bounds>>

request_drain ==
    /\ daemon = "up"
    /\ ~actor.evicting
    /\ ~is_busy
    /\ daemon' = "draining"
    /\ UNCHANGED <<clients, call, actor, queue, worker, started, told, bounds>>

\* The loop ends, after a drain or by itself once it has been idle; close_all.
Quit ==
    /\ daemon # "down"
    /\ ~actor.evicting
    /\ ~is_busy
    /\ daemon' = "down"
    /\ actor' = Drained
    /\ UNCHANGED <<clients, call, queue, worker, started, told, bounds>>
-----------------------------------------------------------------------------
ClientStep ==
    \/ \E s \in Session :
          \/ open_session(s) \/ acquire_project(s)
          \/ release_project(s) \/ CloseSession(s)
          \/ \E c \in Call : admit_project_call(c, s)
    \/ \E c \in Call : cancel_call(c) \/ PassDeadline(c)

LeaseTask(k) == RegistryAcquire(k) \/ RegistryForget(k) \/ Acquired(k) \/ release_lease(k)

CallTask(c) == wait_ready(c) \/ Enqueue(c) \/ TimeOut(c)

WorkerStep ==
    \/ Opened \/ Receive \/ DropPermit \/ CheckCall \/ PrepareCall \/ StartCall
    \/ RunCall \/ RunMaintenance \/ RunSwitchStep \/ Fail \/ Exit

MainLoop ==
    \/ enqueue_maintenance \/ enqueue_switch_step \/ is_idle_for \/ evict_idle
    \/ stop \/ request_drain \/ Quit

Next ==
    \/ ClientStep \/ WorkerStep \/ MainLoop
    \/ \E k \in 1 .. MaxLeases : LeaseTask(k)
    \/ \E c \in Call : CallTask(c)

Spec == Init /\ [][Next]_vars

\* The runtime runs every task and the worker thread; the main loop ticks every
\* second, and a registry acquire returns.
FairSpec ==
    /\ Spec
    /\ WF_vars(WorkerStep)
    /\ \A c \in Call : WF_vars(CallTask(c))
    /\ \A k \in 1 .. MaxLeases : WF_vars(LeaseTask(k))
    /\ WF_vars(evict_idle)
    /\ WF_vars(enqueue_switch_step)
    /\ WF_vars(stop)
    /\ WF_vars(Quit)
-----------------------------------------------------------------------------
\* A client that was told its call was cancelled before it started, or that got
\* a refusal or "cancelled before transaction start" as the answer, can rely on
\* it: the transaction of that call never begins.
CancelledNeverStarts ==
    \A c \in Call :
        c \in told \/ call[c].answer \in {"refused", "cancelled"} =>
            c \notin started

\* While a call may still start, the session that made it is open and holds the
\* lease under which it was admitted: no transaction begins for a client that
\* has released the project, disconnected or expired.
QueuedIsLeased ==
    \A c \in Call :
        call[c].state = "queued" =>
            /\ session[call[c].session] = "open"
            /\ held[call[c].session] = call[c].lease

\* An eviction or an orderly stop loses no call that was accepted: a reply
\* handle is dropped only by a panic.
StopLosesNothing ==
    panics = 0 => \A c \in Call : call[c].answer # "dropped"

\* The counters that eviction and idle exit decide by are true.  The lease count
\* is that of the leases that are stored in a session, that a task has been given
\* and not stored yet, or that have left their session and are being given back,
\* however many requests of a session cross.  A permit is
\* given back exactly once, whether its command runs, is skipped, panics or is
\* dropped with the channel: the pending count is the number of commands whose
\* permit is alive, and a background command is marked queued exactly while it is.
CountersAgree ==
    LET alive == {x \in Commands \ {"stop"} : InQueue(x)}
                   \cup {x \in {worker.cmd} \cap Call : worker.at = "permit"}
                   \cup {x \in {worker.cmd} \ Call : worker.at = "run"}
    IN /\ actor.leases = Cardinality({s \in Session : held[s] # 0})
                          + Cardinality({k \in 1 .. MaxLeases :
                                            acquiring[k].at \in {"leased", "releasing"}})
       /\ actor.pending = Cardinality(alive)
       /\ actor.maintenance_queued <=> "maintenance" \in alive
       /\ actor.switch_queued <=> "switch" \in alive

\* Once a drain was accepted no session is open and none holds a project.
DrainIsQuiet ==
    daemon # "up" => \A s \in Session : session[s] # "open" /\ held[s] = 0

\* Every admitted call comes to an end, in call_state and for its client,
\* unless the worker thread panicked.
CallsSettle ==
    \A c \in Call :
        call[c].stage = "admitted" ~>
            \/ panics > 0
            \/ call[c].stage = "answered"
                 /\ call[c].state \in {"completed", "cancelled"}

\* Once no session is open, no lease is out and the worker has nothing to do,
\* for good, the daemon exits.
DaemonIdlesOut ==
    <>[](/\ \A s \in Session : session[s] # "open"
         /\ actor.leases = 0
         /\ queue = <<>>
         /\ worker.at \in {"recv", "gone"})
      => <>(daemon = "down")
=============================================================================

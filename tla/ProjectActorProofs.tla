-------------------------- MODULE ProjectActorProofs --------------------------
(***************************************************************************)
(* What holds of a project actor for any number of sessions, calls,        *)
(* leases, switches and panics, and any capacity of its queue:             *)
(*                                                                         *)
(*   ActorFollows    Spec => []ActorInv, which contains TypeOK             *)
(*   CancelIsFinal   Spec => []CancelledNeverStarts                        *)
(*   CallsAreLeased  Spec => []QueuedIsLeased                              *)
(*   CountersAreTrue Spec => []CountersAgree                               *)
(*   StopIsOrderly   Spec => []StopLosesNothing                            *)
(*   DrainHolds      Spec => []DrainIsQuiet                                *)
(*                                                                         *)
(* The argument.  A command is in one place at a time (Once, Placed), so   *)
(* that its permit is counted once and a call that the worker looks at has *)
(* not begun.  A call is never queued again (Settled), and a session loses *)
(* its lease together with the calls that were admitted under it (Leased). *)
(* Nothing but a switch step joins the queue behind a Stop (StopLast), so  *)
(* the thread finds no call when it ends.                                  *)
(***************************************************************************)
EXTENDS ProjectActor, SequenceTheorems, FiniteSetTheorems, TLAPS

-----------------------------------------------------------------------------
(* The invariant.                                                          *)

In(q, x) == \E k \in 1 .. Len(q) : q[k] = x
Distinct(q) == \A j, k \in 1 .. Len(q) : q[j] = q[k] => j = k
StopLast(q) == \A j, k \in 1 .. Len(q) : j < k /\ q[j] = "stop" => q[k] \notin Call

Holders == {s \in Session : held[s] # 0}
Lent == {k \in 1 .. MaxLeases : acquiring[k].at \in {"leased", "releasing"}}
Alive == {x \in Commands \ {"stop"} : InQueue(x)}
           \cup {x \in {worker.cmd} \cap Call : worker.at = "permit"}
           \cup {x \in {worker.cmd} \ Call : worker.at = "run"}
Early == {"permit", "check", "prepare", "recheck", "start"}

Task == {NoTask, Releasing} \cup [session : Session, at : {"checked", "leased"}]

\* Leases: each is in the hands of one task or of one session, which is open.
Clients ==
    /\ issued >= 1
    /\ \A k \in 1 .. MaxLeases : k > issued => acquiring[k] = NoTask
    /\ \A s \in Session :
          /\ held[s] # 0 =>
               session[s] = "open" /\ held[s] <= issued /\ acquiring[held[s]] = NoTask
          /\ session[s] = "open" => daemon = "up"
    /\ \A s, t \in Session : held[s] # 0 /\ held[s] = held[t] => s = t
    /\ actor.leases = Cardinality(Holders) + Cardinality(Lent)

\* A call is queued under the lease of its session, until it is settled or starts.
Leased(c) ==
    /\ call[c].stage = "none" => call[c] = NoCall
    /\ call[c].stage # "none" =>
         call[c].state # "none" /\ call[c].session \in Session /\ call[c].lease # 0
    /\ call[c].state = "queued" =>
         session[call[c].session] = "open" /\ held[call[c].session] = call[c].lease

Settled(c) ==
    /\ c \in told \/ call[c].answer \in {"refused", "cancelled"} =>
         call[c].state \in {"cancelled", "completed"} /\ c \notin started
    /\ call[c].state = "running" => c \in started
    /\ c \in started => call[c].state \in {"running", "completed"}

\* A call that has joined the queue is in it, with the worker, or over.
Joined(c) ==
    /\ InQueue(c) \/ worker.cmd = c \/ c \in started => call[c].stage \in {"waiting", "answered"}
    /\ c \in started => ~InQueue(c) /\ (worker.cmd = c => worker.at \notin Early)

Calls == \A c \in Call : Leased(c) /\ Settled(c) /\ Joined(c)

\* Where the worker is, and what it has in its hands.
Placed ==
    /\ worker.at \in Early => worker.cmd \in Call /\ actor.active = 1
    /\ worker.at = "run" => worker.cmd \in Commands \ {"stop"} /\ actor.active = 1
    /\ worker.at \in {"opening", "recv", "failing"} => actor.active = 0
    /\ worker.at \in {"opening", "recv", "gone"} => worker.cmd = "none"
    /\ worker.at = "gone" => queue = <<>>
    /\ worker.cmd # "stop"
    /\ worker.at \in Early \cup {"run"} => ~InQueue(worker.cmd)

\* A command is in the queue once, and its permit is counted while it is alive.
Once ==
    /\ Distinct(queue)
    /\ actor.pending = Cardinality(Alive)
    /\ actor.maintenance_queued <=> "maintenance" \in Alive
    /\ actor.switch_queued <=> "switch" \in Alive

\* An orderly end finds no call.
Ends ==
    /\ StopLast(queue)
    /\ InQueue("stop") => ~actor.accepting
    /\ worker.at = "failing" => panics > 0
    /\ panics = 0 =>
         /\ worker.at = "exiting" =>
              ~actor.accepting /\ worker.cmd = "none" /\ \A c \in Call : ~InQueue(c)
         /\ \A c \in Call : call[c].answer # "dropped"

ActorInv == TypeOK /\ Clients /\ Calls /\ Placed /\ Once /\ Ends

-----------------------------------------------------------------------------
(* Lemmas.                                                                 *)

\* Sessions, leases and commands can be counted.
LEMMA Countable ==
    /\ \A S \in SUBSET Session : IsFiniteSet(S) /\ Cardinality(S) \in Nat
    /\ \A S \in SUBSET (1 .. MaxLeases) : IsFiniteSet(S) /\ Cardinality(S) \in Nat
    /\ \A S \in SUBSET (Commands \cup {"none"}) : IsFiniteSet(S) /\ Cardinality(S) \in Nat
  <1>1. IsFiniteSet(Session)
    BY ActorAssumption
  <1>2. IsFiniteSet(Commands \cup {"none"})
    <2>1. /\ IsFiniteSet({"maintenance"}) /\ IsFiniteSet({"switch"}) /\ IsFiniteSet({"stop"})
          /\ IsFiniteSet({"none"})
      BY FS_Singleton
    <2>2. IsFiniteSet({"maintenance"} \cup {"switch"})
      BY <2>1, FS_Union
    <2>3. IsFiniteSet({"maintenance"} \cup {"switch"} \cup {"stop"})
      BY <2>1, <2>2, FS_Union
    <2>4. Commands = Call \cup ({"maintenance"} \cup {"switch"} \cup {"stop"})
      BY DEF Commands
    <2>5. IsFiniteSet(Commands)
      BY <2>3, <2>4, ActorAssumption, FS_Union
    <2> QED
      BY <2>1, <2>5, FS_Union
  <1>3. IsFiniteSet(1 .. MaxLeases)
    BY ActorAssumption, FS_Interval
  <1> QED
    BY <1>1, <1>2, <1>3, FS_Subset, FS_CardinalityType

\* One more, one less.
LEMMA CountMoves ==
    ASSUME NEW S, IsFiniteSet(S), NEW x
    PROVE  /\ x \notin S => Cardinality(S \cup {x}) = Cardinality(S) + 1
           /\ x \in S => Cardinality(S \ {x}) = Cardinality(S) - 1 /\ Cardinality(S) >= 1
  <1>1. Cardinality(S) \in Nat /\ (x \in S => Cardinality(S) # 0)
    BY FS_CardinalityType, FS_EmptySet
  <1> QED
    BY <1>1, FS_AddElement, FS_RemoveElement

\* A command joins the queue.
LEMMA AppendIn ==
    ASSUME NEW q \in Seq(Commands), NEW x \in Commands
    PROVE  /\ Append(q, x) \in Seq(Commands) /\ Len(Append(q, x)) = Len(q) + 1
           /\ \A y : In(Append(q, x), y) <=> In(q, y) \/ y = x
           /\ Distinct(q) /\ ~In(q, x) => Distinct(Append(q, x))
           /\ StopLast(q) /\ (x \in Call => ~In(q, "stop")) => StopLast(Append(q, x))
  <1> DEFINE r == Append(q, x)
  <1>1. /\ r \in Seq(Commands) /\ Len(r) = Len(q) + 1 /\ Len(q) \in Nat
        /\ \A k \in 1 .. Len(q) : r[k] = q[k]
        /\ r[Len(q) + 1] = x
    BY AppendProperties, LenProperties
  <1>2. \A k : k \in 1 .. Len(r) <=> k \in 1 .. Len(q) \/ k = Len(q) + 1
    BY <1>1
  <1> HIDE DEF r
  <1>3. \A y : In(r, y) <=> In(q, y) \/ y = x
    BY <1>1, <1>2 DEF In
  <1>4. ASSUME Distinct(q), ~In(q, x) PROVE Distinct(r)
    BY <1>1, <1>2, <1>4 DEF In, Distinct
  <1>5. ASSUME StopLast(q), x \in Call => ~In(q, "stop") PROVE StopLast(r)
    <2> SUFFICES ASSUME NEW j \in 1 .. Len(r), NEW k \in 1 .. Len(r), j < k, r[j] = "stop"
                 PROVE  r[k] \notin Call
      BY DEF StopLast
    <2>1. j \in 1 .. Len(q) /\ q[j] = "stop"
      BY <1>1, <1>2
    <2>2. CASE k \in 1 .. Len(q)
      BY <1>1, <1>5, <2>1, <2>2 DEF StopLast
    <2>3. CASE k = Len(q) + 1
      BY <1>1, <1>5, <2>1, <2>3 DEF In
    <2> QED
      BY <1>2, <2>2, <2>3
  <1> QED
    BY <1>1, <1>3, <1>4, <1>5 DEF r

\* The first command leaves it.
LEMMA TailIn ==
    ASSUME NEW q \in Seq(Commands), q # <<>>, Distinct(q)
    PROVE  /\ Head(q) \in Commands /\ In(q, Head(q))
           /\ Tail(q) \in Seq(Commands) /\ Len(Tail(q)) = Len(q) - 1
           /\ \A y : In(Tail(q), y) <=> In(q, y) /\ y # Head(q)
           /\ Distinct(Tail(q))
           /\ StopLast(q) => StopLast(Tail(q))
           /\ StopLast(q) /\ Head(q) = "stop" => \A c \in Call : ~In(Tail(q), c)
  <1> DEFINE r == Tail(q)
  <1>1. /\ Len(q) \in Nat \ {0} /\ Head(q) = q[1] /\ q[1] \in Commands
        /\ r \in Seq(Commands) /\ Len(r) = Len(q) - 1
        /\ \A k \in 1 .. Len(r) : r[k] = q[k + 1]
    BY HeadTailProperties, LenProperties, EmptySeq, ElementOfSeq
  <1> HIDE DEF r
  <1>2. \A y : In(r, y) <=> In(q, y) /\ y # q[1]
    <2>1. ASSUME NEW y, In(r, y) PROVE In(q, y) /\ y # q[1]
      <3>1. PICK k \in 1 .. Len(r) : r[k] = y
        BY <2>1 DEF In
      <3>2. k + 1 \in 1 .. Len(q) /\ q[k + 1] = y /\ 1 \in 1 .. Len(q) /\ k + 1 # 1
        BY <1>1, <3>1
      <3> QED
        BY <3>2 DEF In, Distinct
    <2>2. ASSUME NEW y, In(q, y), y # q[1] PROVE In(r, y)
      <3>1. PICK k \in 1 .. Len(q) : q[k] = y
        BY <2>2 DEF In
      <3>2. k - 1 \in 1 .. Len(r) /\ r[k - 1] = q[(k - 1) + 1] /\ (k - 1) + 1 = k
        BY <1>1, <2>2, <3>1
      <3> QED
        BY <3>1, <3>2 DEF In
    <2> QED
      BY <2>1, <2>2
  <1>3. Distinct(r)
    <2> SUFFICES ASSUME NEW j \in 1 .. Len(r), NEW k \in 1 .. Len(r), r[j] = r[k] PROVE j = k
      BY DEF Distinct
    <2>1. j + 1 \in 1 .. Len(q) /\ k + 1 \in 1 .. Len(q) /\ q[j + 1] = q[k + 1]
      BY <1>1
    <2> QED
      BY <2>1 DEF Distinct
  <1>4. ASSUME StopLast(q) PROVE StopLast(r)
    <2> SUFFICES ASSUME NEW j \in 1 .. Len(r), NEW k \in 1 .. Len(r), j < k, r[j] = "stop"
                 PROVE  r[k] \notin Call
      BY DEF StopLast
    <2>1. /\ j + 1 \in 1 .. Len(q) /\ k + 1 \in 1 .. Len(q) /\ j + 1 < k + 1
          /\ q[j + 1] = "stop" /\ r[k] = q[k + 1]
      BY <1>1
    <2> QED
      BY <1>4, <2>1 DEF StopLast
  <1>5. ASSUME StopLast(q), q[1] = "stop", NEW c \in Call PROVE ~In(r, c)
    <2> SUFFICES ASSUME NEW k \in 1 .. Len(r), r[k] = c PROVE FALSE
      BY DEF In
    <2>1. k + 1 \in 1 .. Len(q) /\ 1 \in 1 .. Len(q) /\ 1 < k + 1 /\ q[k + 1] = c
      BY <1>1
    <2> QED
      BY <1>5, <2>1 DEF StopLast
  <1>6. In(q, q[1])
    BY <1>1 DEF In
  <1> QED
    BY <1>1, <1>2, <1>3, <1>4, <1>5, <1>6 DEF r

\* InQueue is about the elements of the queue.
LEMMA QueueIn == \A x : (InQueue(x) <=> In(queue, x)) /\ (InQueue(x)' <=> In(queue', x))
  BY DEF InQueue, In

\* What is counted is a number.
LEMMA LeasesNat == Clients' => actor'.leases \in Nat
  <1> SUFFICES ASSUME Clients' PROVE actor'.leases \in Nat
    OBVIOUS
  <1>1. actor'.leases = Cardinality(Holders') + Cardinality(Lent')
    BY DEF Clients
  <1>2. Holders' \in SUBSET Session /\ Lent' \in SUBSET (1 .. MaxLeases)
    BY DEF Holders, Lent
  <1> QED
    BY <1>1, <1>2, Countable

LEMMA PendingNat == Once' /\ worker'.cmd \in Commands \cup {"none"} => actor'.pending \in Nat
  <1> SUFFICES ASSUME Once', worker'.cmd \in Commands \cup {"none"} PROVE actor'.pending \in Nat
    OBVIOUS
  <1>1. actor'.pending = Cardinality(Alive')
    BY DEF Once
  <1>2. Alive' \in SUBSET (Commands \cup {"none"})
    BY DEF Alive, Commands
  <1> QED
    BY <1>1, <1>2, Countable

-----------------------------------------------------------------------------
(* What the steps leave alone.                                             *)

LEMMA ClientsAside ==
    ASSUME Clients, UNCHANGED <<session, held, acquiring, issued, daemon>>,
           actor'.leases = actor.leases
    PROVE  Clients'
  BY DEF Clients, Holders, Lent

\* What a task is, and what it says of its lease.
LEMMA TaskIs ==
    ASSUME TypeOK, NEW k \in 1 .. MaxLeases
    PROVE  /\ acquiring \in [1 .. MaxLeases -> Task] /\ acquiring[k] \in Task
           /\ NoTask \in Task /\ Releasing \in Task /\ NoTask # Releasing
           /\ k \in Lent <=> acquiring[k].at \in {"leased", "releasing"}
           /\ NoTask.at = "none" /\ Releasing.at = "releasing"
           /\ acquiring[k].at \in {"checked", "leased"} =>
                acquiring[k] # NoTask /\ acquiring[k].session \in Session
           /\ acquiring[k].at = "checked" =>
                [acquiring[k] EXCEPT !.at = "leased"]
                  = [session |-> acquiring[k].session, at |-> "leased"]
  BY DEF TypeOK, Task, NoTask, Releasing, Lent

\* A call that a step does not touch, and that does not come into the queue.
LEMMA CallKept ==
    ASSUME NEW d \in Call, Leased(d), Settled(d), Joined(d), call'[d] = call[d],
           call[d].state = "queued" =>
               /\ session'[call[d].session] = session[call[d].session]
               /\ held'[call[d].session] = held[call[d].session],
           d \in started' <=> d \in started, d \in told' <=> d \in told,
           InQueue(d)' => InQueue(d),
           worker'.cmd = d =>
               \/ InQueue(d)
               \/ worker.cmd = d /\ (worker'.at \in Early => worker.at \in Early)
    PROVE  Leased(d)' /\ Settled(d)' /\ Joined(d)'
  <1>1. Leased(d)'
    BY DEF Leased
  <1>2. Settled(d)'
    BY DEF Settled
  <1>3. Joined(d)'
    BY DEF Joined
  <1> QED
    BY <1>1, <1>2, <1>3

LEMMA CallsAside ==
    ASSUME Calls, UNCHANGED <<call, started, told, session, held, queue>>,
           worker'.cmd \in {worker.cmd, "none"}, worker'.at \in Early => worker.at \in Early
    PROVE  Calls'
  <1> SUFFICES ASSUME NEW d \in Call PROVE Leased(d)' /\ Settled(d)' /\ Joined(d)'
    BY DEF Calls
  <1> d # "none"
    BY ActorAssumption
  <1>1. Leased(d) /\ Settled(d) /\ Joined(d)
    BY DEF Calls
  <1>2. InQueue(d)' <=> InQueue(d)
    BY DEF InQueue
  <1> QED
    BY <1>1, <1>2, CallKept

\* A queued call that is cancelled.
LEMMA CallCancelled ==
    ASSUME TypeOK, NEW d \in Call, Leased(d), Settled(d), Joined(d), call[d].state = "queued",
           call'[d] = [call[d] EXCEPT !.state = "cancelled"],
           UNCHANGED <<queue, worker, started>>
    PROVE  Leased(d)' /\ Settled(d)' /\ Joined(d)'
  <1>1. call[d] \in CallType
    BY DEF TypeOK
  <1>2. /\ call'[d].state = "cancelled" /\ call'[d].stage = call[d].stage
        /\ call'[d].session = call[d].session /\ call'[d].lease = call[d].lease
        /\ call'[d].answer = call[d].answer
    BY <1>1 DEF CallType
  <1>3. call[d].stage # "none" /\ d \notin started
    BY DEF Leased, Settled, NoCall
  <1>4. InQueue(d)' <=> InQueue(d)
    BY DEF InQueue
  <1> QED
    BY <1>2, <1>3, <1>4 DEF Leased, Settled, Joined

LEMMA Cancelled ==
    ASSUME TypeOK, NEW C, CancelQueued(C)
    PROVE  /\ call' \in [Call -> CallType]
           /\ \A d \in Call : call'[d].answer = call[d].answer
           /\ \A d \in Call :
                IF d \in C /\ call[d].state = "queued"
                THEN call'[d] = [call[d] EXCEPT !.state = "cancelled"]
                ELSE call'[d] = call[d]
  <1>1. ASSUME NEW d \in Call
        PROVE  /\ call[d] \in CallType /\ [call[d] EXCEPT !.state = "cancelled"] \in CallType
               /\ [call[d] EXCEPT !.state = "cancelled"].answer = call[d].answer
    <2>1. call[d] \in CallType
      BY DEF TypeOK
    <2> QED
      BY <2>1 DEF CallType, CallStates
  <1> QED
    BY <1>1 DEF CancelQueued

\* A step that leaves the queue and the thread alone may stop the accepting.
LEMMA QueueAside ==
    ASSUME Placed, Once, Ends, UNCHANGED <<queue, worker, panics>>,
           actor'.active = actor.active, actor'.pending = actor.pending,
           actor'.maintenance_queued = actor.maintenance_queued,
           actor'.switch_queued = actor.switch_queued,
           actor'.accepting => actor.accepting,
           \A c \in Call : call'[c].answer = "dropped" => call[c].answer = "dropped"
    PROVE  Placed' /\ Once' /\ Ends'
  <1>1. \A x : InQueue(x)' <=> InQueue(x)
    BY DEF InQueue
  <1>2. Alive' = Alive
    BY <1>1 DEF Alive
  <1>3. Placed'
    BY <1>1 DEF Placed
  <1>4. Once'
    BY <1>2 DEF Once
  <1>5. Ends'
    BY <1>1 DEF Ends
  <1> QED
    BY <1>3, <1>4, <1>5

\* begin_draining changes nothing that is counted.
LEMMA DrainedIs ==
    ASSUME TypeOK
    PROVE  /\ Drained \in ActorType /\ ~Drained.accepting
           /\ Drained.leases = actor.leases /\ Drained.active = actor.active
           /\ Drained.pending = actor.pending
           /\ Drained.maintenance_queued = actor.maintenance_queued
           /\ Drained.switch_queued = actor.switch_queued
  BY DEF TypeOK, ActorType, Drained

LEMMA InitActor == Init => ActorInv
  <1> SUFFICES ASSUME Init PROVE ActorInv
    OBVIOUS
  <1>1. PICK s \in Session :
          /\ session = [x \in Session |-> IF x = s THEN "open" ELSE "new"]
          /\ acquiring = [k \in 1 .. MaxLeases |->
                            IF k = 1 THEN [session |-> s, at |-> "leased"] ELSE NoTask]
    BY DEF Init
  <1>2. PICK switch \in BOOLEAN :
          /\ actor = [state |-> "opening", accepting |-> TRUE, leases |-> 1,
                      active |-> 0, pending |-> 0, engine |-> FALSE,
                      switch |-> switch, maintenance_queued |-> FALSE,
                      switch_queued |-> FALSE, evicting |-> FALSE,
                      removed |-> FALSE]
          /\ switches = IF switch THEN 1 ELSE 0
          /\ switch => MaxSwitches > 0
    BY DEF Init
  <1>3. /\ held = [x \in Session |-> 0] /\ issued = 1 /\ call = [c \in Call |-> NoCall]
        /\ queue = <<>> /\ worker = [at |-> "opening", cmd |-> "none"] /\ daemon = "up"
        /\ started = {} /\ told = {} /\ panics = 0
    BY DEF Init
  <1>4. \A x : ~InQueue(x)
    BY <1>3 DEF InQueue
  <1>5. "none" \notin Call
    BY ActorAssumption
  <1>6. TypeOK
    <2>1. NoCall \in CallType
      BY ActorAssumption DEF NoCall, CallType, CallStates, Stages, Answers
    <2>2. actor \in ActorType
      BY <1>2 DEF ActorType
    <2>3. switches \in 0 .. MaxSwitches /\ panics \in 0 .. MaxPanics /\ issued \in 0 .. MaxLeases
          /\ 0 \in 0 .. MaxLeases /\ 1 \in 1 .. MaxLeases
      BY <1>2, <1>3, ActorAssumption
    <2>4. queue \in Seq(Commands) /\ Len(queue) <= Capacity
      BY <1>3, EmptySeq, ActorAssumption
    <2> QED
      BY <1>1, <1>3, <2>1, <2>2, <2>3, <2>4 DEF TypeOK, Places
  <1>7. Clients
    <2>1. Holders = {} /\ Lent = {1}
      BY <1>1, <1>3, ActorAssumption DEF Holders, Lent, NoTask
    <2>2. Cardinality(Holders) = 0 /\ Cardinality(Lent) = 1
      BY <2>1, FS_EmptySet, FS_Singleton
    <2> QED
      BY <1>1, <1>2, <1>3, <2>2 DEF Clients
  <1>8. Calls
    BY <1>3, <1>4, <1>5 DEF Calls, Leased, Settled, Joined, NoCall
  <1>9. Placed
    BY <1>2, <1>3, <1>4 DEF Placed, Early
  <1>10. Once
    <2>1. Alive = {}
      BY <1>3, <1>4 DEF Alive
    <2>2. Distinct(queue)
      BY <1>3 DEF Distinct
    <2> QED
      BY <1>2, <2>1, <2>2, FS_EmptySet DEF Once
  <1>11. Ends
    BY <1>3, <1>4 DEF Ends, StopLast, NoCall
  <1> QED
    BY <1>6, <1>7, <1>8, <1>9, <1>10, <1>11 DEF ActorInv
-----------------------------------------------------------------------------
(* Sessions and leases.                                                    *)

\* The parts of the invariant.
LEMMA Parts ==
    ASSUME ActorInv
    PROVE  /\ TypeOK /\ Clients /\ Calls /\ Placed /\ Once /\ Ends
           /\ \A d \in Call : Leased(d) /\ Settled(d) /\ Joined(d) /\ call[d] \in CallType
           /\ \A d \in Call : call[d].state = "queued" => call[d].session \in Session
           /\ actor \in ActorType
  <1>1. TypeOK /\ Clients /\ Calls /\ Placed /\ Once /\ Ends
    BY DEF ActorInv
  <1>2. \A d \in Call : Leased(d) /\ Settled(d) /\ Joined(d) /\ call[d] \in CallType
    BY <1>1 DEF Calls, TypeOK
  <1>3. \A d \in Call : call[d].state = "queued" => call[d].session \in Session
    BY <1>2 DEF Leased, NoCall
  <1> QED
    BY <1>1, <1>2, <1>3 DEF TypeOK

LEMMA OpenStep ==
    ASSUME ActorInv, NEW s \in Session, open_session(s)
    PROVE  ActorInv'
  <1>1. /\ session[s] = "new" /\ daemon = "up" /\ session' = [session EXCEPT ![s] = "open"]
        /\ UNCHANGED <<held, acquiring, issued, call, actor, queue, worker, daemon,
                       started, told, switches, panics>>
    BY DEF open_session, bounds
  <1>2. TypeOK'
    BY <1>1, Parts DEF TypeOK
  <1>3. Clients'
    BY <1>1, Parts DEF TypeOK, Clients, Holders, Lent
  <1>4. ASSUME NEW d \in Call PROVE Leased(d)' /\ Settled(d)' /\ Joined(d)'
    <2>1. call[d].state = "queued" => session'[call[d].session] = session[call[d].session]
      BY <1>1, Parts DEF Leased, TypeOK
    <2>2. InQueue(d)' <=> InQueue(d)
      BY <1>1 DEF InQueue
    <2> QED
      BY <1>1, <2>1, <2>2, Parts, CallKept
  <1>5. Placed' /\ Once' /\ Ends'
    BY <1>1, Parts, QueueAside
  <1> QED
    BY <1>2, <1>3, <1>4, <1>5 DEF ActorInv, Calls

LEMMA AskStep ==
    ASSUME ActorInv, NEW s \in Session, acquire_project(s)
    PROVE  ActorInv'
  <1> DEFINE k == issued + 1
             new == [session |-> s, at |-> "checked"]
  <1>1. /\ issued < MaxLeases /\ issued' = k /\ acquiring' = [acquiring EXCEPT ![k] = new]
        /\ UNCHANGED <<session, held, call, actor, queue, worker, daemon, started, told,
                       switches, panics>>
    BY DEF acquire_project, bounds
  <1>2. /\ issued \in Nat /\ k \in 1 .. MaxLeases /\ issued >= 1
        /\ held \in [Session -> 0 .. MaxLeases]
    BY <1>1, Parts, ActorAssumption DEF TypeOK, Clients
  <1>3. /\ acquiring' \in [1 .. MaxLeases -> Task] /\ acquiring'[k] = new
        /\ \A j \in 1 .. MaxLeases : j # k => acquiring'[j] = acquiring[j]
    <2>1. new \in Task
      BY DEF Task
    <2> HIDE DEF new
    <2>2. acquiring \in [1 .. MaxLeases -> Task]
      BY <1>2, Parts, TaskIs
    <2> QED
      BY <1>1, <1>2, <2>1, <2>2
  <1>4. TypeOK'
    BY <1>1, <1>2, <1>3, Parts, ActorAssumption DEF TypeOK, Task
  <1>5. Clients'
    <2>1. acquiring[k] = NoTask
      BY <1>2, Parts DEF Clients
    <2>2. Lent' = Lent
      BY <1>3, <2>1 DEF Lent, NoTask
    <2>3. Holders' = Holders
      BY <1>1 DEF Holders
    <2>4. \A j \in 1 .. MaxLeases : j > k => acquiring'[j] = NoTask
      BY <1>2, <1>3, Parts DEF Clients
    <2>5. ASSUME NEW x \in Session, held[x] # 0
          PROVE  session[x] = "open" /\ held[x] <= k /\ acquiring'[held[x]] = NoTask
      <3>1. held[x] \in 1 .. MaxLeases /\ held[x] <= issued
        BY <1>2, <2>5, Parts DEF Clients
      <3> QED
        BY <1>2, <1>3, <2>5, <3>1, Parts DEF Clients
    <2> QED
      BY <1>1, <1>2, <2>2, <2>3, <2>4, <2>5, Parts DEF Clients
  <1>6. Calls'
    BY <1>1, Parts, CallsAside
  <1>7. Placed' /\ Once' /\ Ends'
    BY <1>1, Parts, QueueAside
  <1> QED
    BY <1>4, <1>5, <1>6, <1>7 DEF ActorInv

LEMMA RegistryAcquireStep ==
    ASSUME ActorInv, NEW k \in 1 .. MaxLeases, RegistryAcquire(k)
    PROVE  ActorInv'
  <1> DEFINE new == [acquiring[k] EXCEPT !.at = "leased"]
  <1>1. /\ acquiring[k].at = "checked" /\ acquiring' = [acquiring EXCEPT ![k] = new]
        /\ actor' = [actor EXCEPT !.leases = @ + 1]
        /\ UNCHANGED <<session, held, issued, call, queue, worker, daemon, started, told,
                       switches, panics>>
    BY Parts, TaskIs DEF RegistryAcquire, bounds
  <1>2. /\ new \in Task /\ new.at = "leased" /\ acquiring[k] # NoTask
        /\ acquiring \in [1 .. MaxLeases -> Task]
    BY <1>1, Parts, TaskIs DEF Task
  <1> HIDE DEF new
  <1>3. /\ acquiring' \in [1 .. MaxLeases -> Task] /\ acquiring'[k] = new
        /\ \A j \in 1 .. MaxLeases : j # k => acquiring'[j] = acquiring[j]
    BY <1>1, <1>2
  <1>4. TypeOK'
    <2>1. actor' \in ActorType
      BY <1>1, Parts DEF ActorType
    <2> QED
      BY <1>1, <1>3, <2>1, Parts DEF TypeOK, Task
  <1>5. Clients'
    <2>1. Lent' = Lent \cup {k} /\ k \notin Lent /\ Holders' = Holders
      BY <1>1, <1>2, <1>3 DEF Lent, Holders
    <2>2. /\ Holders \in SUBSET Session /\ Lent \in SUBSET (1 .. MaxLeases)
          /\ Cardinality(Holders) \in Nat /\ Cardinality(Lent) \in Nat
      BY Countable DEF Holders, Lent
    <2>3. Cardinality(Lent') = Cardinality(Lent) + 1
      BY <2>1, <2>2, Countable, CountMoves
    <2>4. actor'.leases = Cardinality(Holders') + Cardinality(Lent')
      BY <1>1, <2>1, <2>2, <2>3, Parts DEF Clients, ActorType
    <2>5. \A j \in 1 .. MaxLeases : acquiring[j] = NoTask => acquiring'[j] = NoTask
      BY <1>2, <1>3
    <2>6. held \in [Session -> 0 .. MaxLeases]
      BY Parts DEF TypeOK
    <2> QED
      BY <1>1, <2>4, <2>5, <2>6, Parts DEF Clients
  <1>6. Calls'
    BY <1>1, Parts, CallsAside
  <1>7. Placed' /\ Once' /\ Ends'
    <2>1. /\ actor'.active = actor.active /\ actor'.pending = actor.pending
          /\ actor'.maintenance_queued = actor.maintenance_queued
          /\ actor'.switch_queued = actor.switch_queued /\ actor'.accepting = actor.accepting
      BY <1>1, Parts DEF ActorType
    <2> QED
      BY <1>1, <2>1, Parts, QueueAside
  <1> QED
    BY <1>4, <1>5, <1>6, <1>7 DEF ActorInv

\* A step that only turns the actor to another state, or the daemon.
LEMMA TurnStep ==
    ASSUME ActorInv, actor' \in ActorType, actor'.leases = actor.leases,
           actor'.active = actor.active, actor'.pending = actor.pending,
           actor'.maintenance_queued = actor.maintenance_queued,
           actor'.switch_queued = actor.switch_queued, actor'.accepting => actor.accepting,
           daemon' \in {"up", "draining", "down"},
           daemon' # daemon => \A s \in Session : session[s] # "open",
           acquiring' \in [1 .. MaxLeases -> Task], Lent' = Lent,
           \A k \in 1 .. MaxLeases : acquiring[k] = NoTask => acquiring'[k] = NoTask,
           UNCHANGED <<session, held, issued, call, queue, worker, started, told, switches, panics>>
    PROVE  ActorInv'
  <1>1. TypeOK'
    BY Parts DEF TypeOK, Task
  <1>2. Clients'
    <2>1. Holders' = Holders
      BY DEF Holders
    <2>2. held \in [Session -> 0 .. MaxLeases]
      BY Parts DEF TypeOK
    <2> QED
      BY <2>1, <2>2, Parts DEF Clients
  <1>3. Calls'
    BY Parts, CallsAside
  <1>4. Placed' /\ Once' /\ Ends'
    BY Parts, QueueAside
  <1> QED
    BY <1>1, <1>2, <1>3, <1>4 DEF ActorInv

LEMMA ForgetStep ==
    ASSUME ActorInv, NEW k \in 1 .. MaxLeases, RegistryForget(k)
    PROVE  ActorInv'
  <1>1. /\ acquiring[k].at = "checked" /\ acquiring' = [acquiring EXCEPT ![k] = NoTask]
        /\ actor' = [actor EXCEPT !.removed = TRUE]
        /\ UNCHANGED <<session, held, issued, call, queue, worker, daemon, started, told,
                       switches, panics>>
    BY DEF RegistryForget, bounds
  <1>2. /\ actor' \in ActorType /\ actor'.leases = actor.leases
        /\ actor'.active = actor.active /\ actor'.pending = actor.pending
        /\ actor'.maintenance_queued = actor.maintenance_queued
        /\ actor'.switch_queued = actor.switch_queued /\ actor'.accepting = actor.accepting
    BY <1>1, Parts DEF ActorType
  <1>3. /\ acquiring' \in [1 .. MaxLeases -> Task] /\ acquiring'[k] = NoTask
        /\ \A j \in 1 .. MaxLeases : j # k => acquiring'[j] = acquiring[j]
    BY <1>1, Parts, TaskIs
  <1>4. Lent' = Lent
    BY <1>1, <1>3 DEF Lent, NoTask
  <1>5. daemon' \in {"up", "draining", "down"}
    BY <1>1, Parts DEF TypeOK
  <1> QED
    BY <1>1, <1>2, <1>3, <1>4, <1>5, TurnStep

\* A task that gives its lease away: it is in one place less.
LEMMA LentLess ==
    ASSUME ActorInv, NEW k \in 1 .. MaxLeases, acquiring[k].at \in {"leased", "releasing"},
           acquiring' = [acquiring EXCEPT ![k] = NoTask]
    PROVE  /\ acquiring' \in [1 .. MaxLeases -> Task] /\ acquiring'[k] = NoTask
           /\ \A j \in 1 .. MaxLeases : j # k => acquiring'[j] = acquiring[j]
           /\ k <= issued /\ acquiring[k] # NoTask
           /\ \A x \in Session : held[x] # k
           /\ Cardinality(Lent') = Cardinality(Lent) - 1
           /\ Cardinality(Lent) \in Nat \ {0} /\ Cardinality(Holders) \in Nat
           /\ actor.leases - 1 \in Nat
  <1>1. /\ acquiring' \in [1 .. MaxLeases -> Task] /\ acquiring'[k] = NoTask
        /\ \A j \in 1 .. MaxLeases : j # k => acquiring'[j] = acquiring[j]
        /\ acquiring[k] # NoTask /\ NoTask.at = "none" /\ k \in Lent
    BY Parts, TaskIs
  <1>2. k <= issued /\ \A x \in Session : held[x] # k
    BY <1>1, Parts DEF Clients, TypeOK
  <1>3. Lent' = Lent \ {k}
    BY <1>1 DEF Lent
  <1>4. /\ Lent \in SUBSET (1 .. MaxLeases) /\ IsFiniteSet(Lent) /\ Cardinality(Lent) \in Nat
        /\ Cardinality(Holders) \in Nat
    <2>1. Lent \in SUBSET (1 .. MaxLeases) /\ Holders \in SUBSET Session
      BY DEF Lent, Holders
    <2> QED
      BY <2>1, Countable
  <1>5. Cardinality(Lent') = Cardinality(Lent) - 1 /\ Cardinality(Lent) >= 1
    BY <1>1, <1>3, <1>4, CountMoves
  <1>6. actor.leases - 1 \in Nat
    BY <1>4, <1>5, Parts DEF Clients
  <1> QED
    BY <1>1, <1>2, <1>4, <1>5, <1>6

\* A lease that goes back to the actor, which may stop on the occasion.
LEMMA LeaseBack ==
    ASSUME ActorInv, NEW k \in 1 .. MaxLeases, acquiring[k].at \in {"leased", "releasing"},
           acquiring' = [acquiring EXCEPT ![k] = NoTask],
           \/ actor' = [actor EXCEPT !.leases = @ - 1]
           \/ actor' = [Drained EXCEPT !.leases = @ - 1],
           UNCHANGED <<session, held, issued, call, queue, worker, daemon, started, told,
                       switches, panics>>
    PROVE  ActorInv'
  <1>1. /\ acquiring' \in [1 .. MaxLeases -> Task]
        /\ \A j \in 1 .. MaxLeases : acquiring[j] = NoTask => acquiring'[j] = NoTask
        /\ Cardinality(Lent') = Cardinality(Lent) - 1
        /\ Cardinality(Lent) \in Nat \ {0} /\ Cardinality(Holders) \in Nat
        /\ actor.leases - 1 \in Nat
    BY LentLess
  <1>2. /\ actor'.active = actor.active /\ actor'.pending = actor.pending
        /\ actor'.maintenance_queued = actor.maintenance_queued
        /\ actor'.switch_queued = actor.switch_queued /\ (actor'.accepting => actor.accepting)
        /\ actor'.leases = actor.leases - 1 /\ actor' \in ActorType
    <2>1. CASE actor' = [actor EXCEPT !.leases = @ - 1]
      BY <1>1, <2>1, Parts DEF ActorType
    <2>2. CASE actor' = [Drained EXCEPT !.leases = @ - 1]
      <3>1. Drained \in ActorType /\ Drained.leases - 1 \in Nat
        BY <1>1, Parts, DrainedIs
      <3>2. /\ actor'.active = Drained.active /\ actor'.pending = Drained.pending
            /\ actor'.maintenance_queued = Drained.maintenance_queued
            /\ actor'.switch_queued = Drained.switch_queued
            /\ actor'.accepting = Drained.accepting
            /\ actor'.leases = Drained.leases - 1 /\ actor' \in ActorType
        BY <2>2, <3>1 DEF ActorType
      <3> QED
        BY <3>2, Parts, DrainedIs
    <2> QED
      BY <2>1, <2>2
  <1>3. TypeOK'
    BY <1>1, <1>2, Parts DEF TypeOK, Task
  <1>4. Clients'
    <2>1. Holders' = Holders
      BY DEF Holders
    <2>2. held \in [Session -> 0 .. MaxLeases]
      BY Parts DEF TypeOK
    <2>3. actor'.leases = Cardinality(Holders') + Cardinality(Lent')
      BY <1>1, <1>2, <2>1, Parts DEF Clients
    <2> QED
      BY <1>1, <2>2, <2>3, Parts DEF Clients
  <1>5. Calls'
    BY Parts, CallsAside
  <1>6. Placed' /\ Once' /\ Ends'
    BY <1>2, Parts, QueueAside
  <1> QED
    BY <1>3, <1>4, <1>5, <1>6 DEF ActorInv

LEMMA ReleaseLeaseStep ==
    ASSUME ActorInv, NEW k \in 1 .. MaxLeases, release_lease(k)
    PROVE  ActorInv'
  <1>1. /\ acquiring[k].at = "releasing" /\ acquiring' = [acquiring EXCEPT ![k] = NoTask]
        /\ actor' = [actor EXCEPT !.leases = @ - 1]
        /\ UNCHANGED <<session, held, issued, call, queue, worker, daemon, started, told,
                       switches, panics>>
    BY DEF release_lease, bounds
  <1> QED
    BY <1>1, LeaseBack

LEMMA AcquiredStep ==
    ASSUME ActorInv, NEW k \in 1 .. MaxLeases, Acquired(k)
    PROVE  ActorInv'
  <1> DEFINE s == acquiring[k].session
             stays == actor.state = "ready" /\ session[s] = "open" /\ held[s] = 0
  <1>1. /\ acquiring[k].at = "leased" /\ acquiring' = [acquiring EXCEPT ![k] = NoTask]
        /\ UNCHANGED <<session, issued, call, queue, worker, daemon, started, told,
                       switches, panics>>
        /\ stays => held' = [held EXCEPT ![s] = k] /\ UNCHANGED actor
        /\ ~stays => /\ UNCHANGED held
                     /\ \/ actor' = [actor EXCEPT !.leases = @ - 1]
                        \/ actor' = [Drained EXCEPT !.leases = @ - 1]
    BY DEF Acquired, bounds
  <1>2. CASE ~stays
    BY <1>1, <1>2, LeaseBack
  <1>3. CASE stays
    <2>1. /\ held' = [held EXCEPT ![s] = k] /\ UNCHANGED actor
          /\ session[s] = "open" /\ held[s] = 0 /\ s \in Session
          /\ held \in [Session -> 0 .. MaxLeases] /\ k # 0
      <3>1. s \in Session
        BY <1>1, Parts, TaskIs
      <3>2. held \in [Session -> 0 .. MaxLeases] /\ k # 0
        BY Parts DEF TypeOK
      <3> QED
        BY <1>1, <1>3, <3>1, <3>2
    <2> HIDE DEF s, stays
    <2>2. /\ acquiring' \in [1 .. MaxLeases -> Task] /\ acquiring'[k] = NoTask
          /\ \A j \in 1 .. MaxLeases : acquiring[j] = NoTask => acquiring'[j] = NoTask
          /\ k <= issued /\ \A x \in Session : held[x] # k
          /\ Cardinality(Lent') = Cardinality(Lent) - 1
          /\ Cardinality(Lent) \in Nat \ {0} /\ Cardinality(Holders) \in Nat
      BY <1>1, LentLess
    <2>3. /\ held' \in [Session -> 0 .. MaxLeases] /\ held'[s] = k
          /\ \A x \in Session : x # s => held'[x] = held[x]
      BY <2>1
    <2>4. TypeOK'
      BY <1>1, <2>1, <2>2, <2>3, Parts DEF TypeOK, Task
    <2>5. Clients'
      <3>1. actor'.leases = Cardinality(Holders') + Cardinality(Lent')
        <4>1. Holders' = Holders \cup {s} /\ s \notin Holders
          BY <2>1, <2>3 DEF Holders
        <4>2. IsFiniteSet(Holders)
          BY Countable DEF Holders
        <4>3. Cardinality(Holders') = Cardinality(Holders) + 1
          BY <4>1, <4>2, CountMoves
        <4> QED
          BY <2>1, <2>2, <4>3, Parts DEF Clients
      <3>2. ASSUME NEW x \in Session
            PROVE  /\ held'[x] # 0 => session'[x] = "open" /\ held'[x] <= issued'
                                      /\ acquiring'[held'[x]] = NoTask
                   /\ session'[x] = "open" => daemon' = "up"
        <4>1. CASE x = s
          BY <1>1, <2>1, <2>2, <2>3, <4>1, Parts DEF Clients
        <4>2. CASE x # s
          BY <1>1, <2>1, <2>2, <2>3, <4>2, Parts DEF Clients
        <4> QED
          BY <4>1, <4>2
      <3>3. ASSUME NEW x \in Session, NEW y \in Session, held'[x] # 0, held'[x] = held'[y]
            PROVE  x = y
        BY <2>1, <2>2, <2>3, <3>3, Parts DEF Clients
      <3>4. \A j \in 1 .. MaxLeases : j > issued' => acquiring'[j] = NoTask
        BY <1>1, <2>2, Parts DEF Clients
      <3> QED
        BY <1>1, <3>1, <3>2, <3>3, <3>4, Parts DEF Clients
    <2>6. ASSUME NEW d \in Call PROVE Leased(d)' /\ Settled(d)' /\ Joined(d)'
      <3>1. call[d].state = "queued" =>
              call[d].session # s /\ held'[call[d].session] = held[call[d].session]
        BY <2>1, <2>3, Parts DEF Leased, NoCall
      <3>2. InQueue(d)' <=> InQueue(d)
        BY <1>1 DEF InQueue
      <3> QED
        BY <1>1, <3>1, <3>2, Parts, CallKept
    <2>7. Placed' /\ Once' /\ Ends'
      BY <1>1, <2>1, Parts, QueueAside
    <2> QED
      BY <2>4, <2>5, <2>6, <2>7 DEF ActorInv, Calls
  <1> QED
    BY <1>2, <1>3

\* A session gives its lease back, with the calls that were admitted under it.
LEMMA LeaseEnds ==
    ASSUME ActorInv, NEW s \in Session, session[s] = "open",
           NEW C, CancelQueued(C),
           \A d \in Call : call[d].state = "queued" /\ call[d].session = s => d \in C,
           session' \in [Session -> {"new", "open", "closed"}],
           \A x \in Session : x # s => session'[x] = session[x],
           session'[s] = "open" => daemon = "up",
           TakeLease(s),
           UNCHANGED <<actor, issued, queue, worker, daemon, started, told, switches, panics>>
    PROVE  ActorInv'
  <1>1. /\ held \in [Session -> 0 .. MaxLeases] /\ acquiring \in [1 .. MaxLeases -> Task]
        /\ Holders \in SUBSET Session /\ Lent \in SUBSET (1 .. MaxLeases)
        /\ Cardinality(Holders) \in Nat /\ Cardinality(Lent) \in Nat
        /\ IsFiniteSet(Holders) /\ IsFiniteSet(Lent)
        /\ actor.leases = Cardinality(Holders) + Cardinality(Lent)
    <2>1. Holders \in SUBSET Session /\ Lent \in SUBSET (1 .. MaxLeases)
      BY DEF Holders, Lent
    <2> QED
      BY <2>1, Parts, Countable DEF TypeOK, Clients, Task
  <1>2. held' \in [Session -> 0 .. MaxLeases] /\ held'[s] = 0
        /\ \A x \in Session : x # s => held'[x] = held[x]
    BY <1>1, ActorAssumption DEF TakeLease
  <1>3. Holders' = Holders \ {s} /\ (s \in Holders <=> held[s] # 0)
    BY <1>1, <1>2 DEF Holders
  <1>4. /\ acquiring' \in [1 .. MaxLeases -> Task]
        /\ \A j \in 1 .. MaxLeases : j # held[s] => acquiring'[j] = acquiring[j]
        /\ actor.leases = Cardinality(Holders') + Cardinality(Lent')
    <2>1. CASE held[s] = 0
      <3>1. acquiring' = acquiring
        BY <2>1 DEF TakeLease
      <3>2. Holders' = Holders /\ Lent' = Lent
        BY <1>3, <2>1, <3>1 DEF Lent
      <3> QED
        BY <1>1, <3>1, <3>2
    <2>2. CASE held[s] # 0
      <3>1. held[s] \in 1 .. MaxLeases /\ acquiring[held[s]] = NoTask
        BY <1>1, <2>2, Parts DEF Clients
      <3>2. acquiring' = [acquiring EXCEPT ![held[s]] = Releasing] /\ Releasing \in Task
        BY <2>2 DEF TakeLease, Task
      <3>3. /\ acquiring' \in [1 .. MaxLeases -> Task] /\ acquiring'[held[s]] = Releasing
            /\ \A j \in 1 .. MaxLeases : j # held[s] => acquiring'[j] = acquiring[j]
        BY <1>1, <3>1, <3>2
      <3>4. Lent' = Lent \cup {held[s]} /\ held[s] \notin Lent
        BY <3>1, <3>3 DEF Lent, NoTask, Releasing
      <3>5. Cardinality(Lent') = Cardinality(Lent) + 1
        BY <1>1, <3>4, CountMoves
      <3>6. Cardinality(Holders') = Cardinality(Holders) - 1
        BY <1>1, <1>3, <2>2, CountMoves
      <3>7. actor.leases = Cardinality(Holders') + Cardinality(Lent')
        BY <1>1, <3>5, <3>6
      <3> QED
        BY <3>3, <3>7
    <2> QED
      BY <2>1, <2>2
  <1>5. TypeOK'
    BY <1>2, <1>4, Parts, Cancelled DEF TypeOK, Task
  <1>6. Clients'
    <2>1. ASSUME NEW x \in Session
          PROVE  /\ held'[x] # 0 => session'[x] = "open" /\ held'[x] <= issued'
                                    /\ acquiring'[held'[x]] = NoTask
                 /\ session'[x] = "open" => daemon' = "up"
      <3>1. CASE x = s
        BY <1>2, <3>1
      <3>2. CASE x # s
        <4>1. held'[x] = held[x] /\ session'[x] = session[x]
          BY <1>2, <3>2
        <4>2. held[x] # 0 => /\ held[x] \in 1 .. MaxLeases /\ held[x] # held[s]
                             /\ session[x] = "open" /\ held[x] <= issued
                             /\ acquiring[held[x]] = NoTask
          BY <1>1, <3>2, Parts DEF Clients
        <4> QED
          BY <1>4, <4>1, <4>2, Parts DEF Clients
      <3> QED
        BY <3>1, <3>2
    <2>2. ASSUME NEW x \in Session, NEW y \in Session, held'[x] # 0, held'[x] = held'[y]
          PROVE  x = y
      BY <1>2, <2>2, Parts DEF Clients
    <2>3. ASSUME NEW j \in 1 .. MaxLeases, j > issued' PROVE acquiring'[j] = NoTask
      <3>1. held[s] # 0 => held[s] <= issued
        BY Parts DEF Clients
      <3>2. issued \in Nat /\ held[s] \in Nat
        BY <1>1, Parts, ActorAssumption DEF TypeOK
      <3>3. j # held[s]
        BY <2>3, <3>1, <3>2
      <3> QED
        BY <1>4, <2>3, <3>3, Parts DEF Clients
    <2> QED
      BY <1>4, <2>1, <2>2, <2>3, Parts DEF Clients
  <1>7. ASSUME NEW d \in Call PROVE Leased(d)' /\ Settled(d)' /\ Joined(d)'
    <2>1. CASE d \in C /\ call[d].state = "queued"
      BY <2>1, Parts, Cancelled, CallCancelled
         DEF Leased, Settled, Joined
    <2>2. CASE ~(d \in C /\ call[d].state = "queued")
      <3>1. call'[d] = call[d]
        BY <2>2, Parts, Cancelled
      <3>2. call[d].state = "queued" => call[d].session \in Session \ {s}
        BY <2>2, Parts
      <3>3. InQueue(d)' <=> InQueue(d)
        BY DEF InQueue
      <3> QED
        BY <1>2, <3>1, <3>2, <3>3, Parts, CallKept
    <2> QED
      BY <2>1, <2>2
  <1>8. Placed' /\ Once' /\ Ends'
    BY Parts, Cancelled, QueueAside
  <1> QED
    BY <1>5, <1>6, <1>7, <1>8 DEF ActorInv, Calls

LEMMA ReleaseStep ==
    ASSUME ActorInv, NEW s \in Session, release_project(s)
    PROVE  ActorInv'
  <1> DEFINE C == {c \in CallsOf(s) : call[c].lease = held[s]}
  <1>1. /\ session[s] = "open" /\ held[s] # 0 /\ CancelQueued(C) /\ TakeLease(s)
        /\ UNCHANGED <<session, actor, issued, queue, worker, daemon, started, told,
                       switches, panics>>
    BY DEF release_project, bounds
  <1>2. \A d \in Call : call[d].state = "queued" /\ call[d].session = s => d \in C
    BY Parts DEF Leased, CallsOf
  <1>3. session' \in [Session -> {"new", "open", "closed"}] /\ (session'[s] = "open" => daemon = "up")
    BY <1>1, Parts DEF TypeOK, Clients
  <1> HIDE DEF C
  <1> QED
    BY <1>1, <1>2, <1>3, LeaseEnds

LEMMA CloseStep ==
    ASSUME ActorInv, NEW s \in Session, CloseSession(s)
    PROVE  ActorInv'
  <1> DEFINE C == CallsOf(s)
  <1>1. /\ session[s] = "open" /\ session' = [session EXCEPT ![s] = "closed"] /\ CancelQueued(C)
        /\ TakeLease(s)
        /\ UNCHANGED <<actor, issued, queue, worker, daemon, started, told, switches, panics>>
    BY DEF CloseSession, bounds
  <1>2. \A d \in Call : call[d].state = "queued" /\ call[d].session = s => d \in C
    BY DEF CallsOf
  <1>3. /\ session' \in [Session -> {"new", "open", "closed"}] /\ session'[s] = "closed"
        /\ \A x \in Session : x # s => session'[x] = session[x]
    BY <1>1, Parts DEF TypeOK
  <1> HIDE DEF C
  <1> QED
    BY <1>1, <1>2, <1>3, LeaseEnds

\* A step that changes one call only, and neither the queue nor the worker.
LEMMA OneCallStep ==
    ASSUME ActorInv, NEW c \in Call, call' \in [Call -> CallType],
           \A d \in Call : d # c => call'[d] = call[d],
           call'[c].answer = "dropped" => call[c].answer = "dropped",
           Leased(c)', Settled(c)', Joined(c)',
           told' \subseteq Call, \A d \in Call : d # c => (d \in told' <=> d \in told),
           UNCHANGED <<clients, actor, queue, worker, daemon, started, bounds>>
    PROVE  ActorInv'
  <1>1. UNCHANGED <<session, held, acquiring, issued, actor, queue, worker, daemon, started,
                    switches, panics>>
    BY DEF clients, bounds
  <1>2. TypeOK'
    BY <1>1, Parts DEF TypeOK
  <1>3. Clients'
    BY <1>1, Parts, ClientsAside
  <1>4. ASSUME NEW d \in Call PROVE Leased(d)' /\ Settled(d)' /\ Joined(d)'
    <2>1. CASE d # c
      <3>1. InQueue(d)' <=> InQueue(d)
        BY <1>1 DEF InQueue
      <3> QED
        BY <1>1, <2>1, <3>1, Parts, CallKept
    <2> QED
      BY <2>1
  <1>5. Placed' /\ Once' /\ Ends'
    BY <1>1, Parts, QueueAside
  <1> QED
    BY <1>2, <1>3, <1>4, <1>5 DEF ActorInv, Calls

LEMMA AdmitStep ==
    ASSUME ActorInv, NEW c \in Call, NEW s \in Session, admit_project_call(c, s)
    PROVE  ActorInv'
  <1> DEFINE new == [NoCall EXCEPT !.state = "queued", !.stage = "admitted", !.session = s,
                                   !.lease = held[s]]
  <1>1. /\ session[s] = "open" /\ held[s] # 0 /\ call[c].stage = "none"
        /\ call' = [call EXCEPT ![c] = new]
        /\ UNCHANGED <<clients, actor, queue, worker, daemon, started, told, bounds>>
    BY DEF admit_project_call
  <1>2. UNCHANGED <<session, held>>
    BY <1>1 DEF clients
  <1>3. /\ new.state = "queued" /\ new.stage = "admitted" /\ new.session = s
        /\ new.lease = held[s] /\ new.answer = "none" /\ new \in CallType
    BY Parts DEF NoCall, CallType, CallStates, Stages, Answers, TypeOK
  <1> HIDE DEF new
  <1>4. call' \in [Call -> CallType] /\ call'[c] = new /\ \A d \in Call : d # c => call'[d] = call[d]
    BY <1>1, <1>3, Parts DEF TypeOK
  <1>5. call[c] = NoCall /\ c \notin told /\ c \notin started /\ ~InQueue(c) /\ worker.cmd # c
    BY <1>1, Parts DEF Leased, Settled, Joined, NoCall
  <1>6. Leased(c)'
    BY <1>1, <1>2, <1>3, <1>4 DEF Leased
  <1>7. Settled(c)'
    BY <1>1, <1>3, <1>4, <1>5 DEF Settled
  <1>8. Joined(c)'
    BY <1>1, <1>5 DEF Joined, InQueue
  <1>9. told' \subseteq Call
    BY <1>1, Parts DEF TypeOK
  <1> QED
    BY <1>1, <1>3, <1>4, <1>6, <1>7, <1>8, <1>9, OneCallStep

LEMMA CancelStep ==
    ASSUME ActorInv, NEW c \in Call, cancel_call(c)
    PROVE  ActorInv'
  <1>1. /\ call[c].stage # "none" /\ call[c].state \in {"queued", "cancelled"}
        /\ CancelQueued({c}) /\ told' = told \cup {c}
        /\ UNCHANGED <<clients, actor, queue, worker, daemon, started, bounds>>
    BY DEF cancel_call
  <1>2. /\ call' \in [Call -> CallType] /\ \A d \in Call : d # c => call'[d] = call[d]
        /\ call'[c].answer = call[c].answer
        /\ IF call[c].state = "queued" THEN call'[c] = [call[c] EXCEPT !.state = "cancelled"]
           ELSE call'[c] = call[c]
    <2> DEFINE C == {c}
    <2>1. /\ call' \in [Call -> CallType] /\ \A d \in Call : call'[d].answer = call[d].answer
          /\ \A d \in Call : IF d \in C /\ call[d].state = "queued"
                             THEN call'[d] = [call[d] EXCEPT !.state = "cancelled"]
                             ELSE call'[d] = call[d]
      <3>1. CancelQueued(C)
        BY <1>1
      <3> HIDE DEF C
      <3> QED
        BY <3>1, Parts, Cancelled
    <2>2. \A d \in Call : d \in C <=> d = c
      OBVIOUS
    <2> HIDE DEF C
    <2> QED
      BY <2>1, <2>2
  <1>3. /\ call'[c].state = "cancelled" /\ call'[c].stage = call[c].stage
        /\ call'[c].session = call[c].session /\ call'[c].lease = call[c].lease
    BY <1>1, <1>2, Parts DEF CallType
  <1>4. c \notin started
    BY <1>1, Parts DEF Settled
  <1>5. Leased(c)'
    BY <1>1, <1>3, Parts DEF Leased
  <1>6. Settled(c)'
    BY <1>1, <1>3, <1>4 DEF Settled
  <1>7. Joined(c)'
    BY <1>1, <1>3, <1>4, Parts DEF Joined, InQueue
  <1>8. told' \subseteq Call
    BY <1>1, Parts DEF TypeOK
  <1> QED
    BY <1>1, <1>2, <1>5, <1>6, <1>7, <1>8, OneCallStep
-----------------------------------------------------------------------------
(* The task that awaits the answer.                                        *)

\* A call goes on: it is late, ready, answered early, or has timed out.
LEMMA CallGoesOn ==
    ASSUME ActorInv, NEW c \in Call, NEW new \in CallType, call' = [call EXCEPT ![c] = new],
           call[c].stage # "none", new.stage # "none",
           new.session = call[c].session, new.lease = call[c].lease,
           \/ new.state = call[c].state /\ new.answer \in {call[c].answer, "deadline"}
           \/ new.state = "completed" /\ call[c].stage \in {"admitted", "ready"}
              /\ new.answer \in {"refused", "deadline"},
           call[c].stage \in {"waiting", "answered"} => new.stage \in {"waiting", "answered"},
           UNCHANGED <<clients, actor, queue, worker, daemon, started, told, bounds>>
    PROVE  ActorInv'
  <1>1. call' \in [Call -> CallType] /\ call'[c] = new /\ \A d \in Call : d # c => call'[d] = call[d]
    BY Parts DEF TypeOK
  <1>2. UNCHANGED <<session, held>>
    BY DEF clients
  <1>3. Leased(c)'
    BY <1>1, <1>2, Parts DEF Leased
  <1>4. Settled(c)'
    <2>1. CASE new.state = call[c].state /\ new.answer \in {call[c].answer, "deadline"}
      BY <1>1, <2>1, Parts DEF Settled
    <2>2. CASE new.state = "completed" /\ call[c].stage \in {"admitted", "ready"}
      <3>1. c \notin started
        BY <2>2, Parts DEF Joined
      <3> QED
        BY <1>1, <2>2, <3>1 DEF Settled
    <2> QED
      BY <2>1, <2>2
  <1>5. Joined(c)'
    BY <1>1, Parts DEF Joined, InQueue
  <1>6. told' \subseteq Call
    BY Parts DEF TypeOK
  <1>7. call'[c].answer = "dropped" => call[c].answer = "dropped"
    BY <1>1
  <1> QED
    BY <1>1, <1>3, <1>4, <1>5, <1>6, <1>7, OneCallStep

LEMMA DeadlineStep ==
    ASSUME ActorInv, NEW c \in Call, PassDeadline(c)
    PROVE  ActorInv'
  <1> DEFINE new == [call[c] EXCEPT !.late = TRUE]
  <1>1. /\ call[c].stage \in {"admitted", "ready", "waiting"} /\ call' = [call EXCEPT ![c] = new]
        /\ UNCHANGED <<clients, actor, queue, worker, daemon, started, told, bounds>>
    BY DEF PassDeadline
  <1>2. /\ new \in CallType /\ new.session = call[c].session /\ new.lease = call[c].lease
        /\ new.state = call[c].state /\ new.answer = call[c].answer /\ new.stage = call[c].stage
    BY Parts DEF CallType
  <1> HIDE DEF new
  <1> QED
    BY <1>1, <1>2, CallGoesOn

LEMMA RefusedStep ==
    ASSUME ActorInv, NEW c \in Call, NEW answer \in {"refused", "deadline"}, Refuse(c, answer),
           call[c].stage \in {"admitted", "ready"},
           UNCHANGED <<clients, worker, daemon, started, told, bounds>>
    PROVE  ActorInv'
  <1> DEFINE new == [call[c] EXCEPT !.state = "completed", !.stage = "answered",
                                    !.answer = answer]
  <1>1. call' = [call EXCEPT ![c] = new] /\ UNCHANGED <<actor, queue>>
    BY Parts DEF Refuse, TypeOK
  <1>2. /\ new \in CallType /\ new.session = call[c].session /\ new.lease = call[c].lease
        /\ new.state = "completed" /\ new.answer = answer /\ new.stage = "answered"
    BY Parts DEF CallType, CallStates, Stages, Answers
  <1> HIDE DEF new
  <1> QED
    BY <1>1, <1>2, CallGoesOn

LEMMA WaitStep ==
    ASSUME ActorInv, NEW c \in Call, wait_ready(c)
    PROVE  ActorInv'
  <1>1. /\ call[c].stage = "admitted"
        /\ UNCHANGED <<clients, worker, daemon, started, told, bounds>>
        /\ \/ \E answer \in {"refused", "deadline"} : Refuse(c, answer)
           \/ call' = [call EXCEPT ![c].stage = "ready"] /\ UNCHANGED <<actor, queue>>
    BY DEF wait_ready
  <1>2. CASE \E answer \in {"refused", "deadline"} : Refuse(c, answer)
    BY <1>1, <1>2, RefusedStep
  <1>3. CASE call' = [call EXCEPT ![c].stage = "ready"] /\ UNCHANGED <<actor, queue>>
    <2> DEFINE new == [call[c] EXCEPT !.stage = "ready"]
    <2>1. call' = [call EXCEPT ![c] = new]
      BY <1>3
    <2>2. /\ new \in CallType /\ new.session = call[c].session /\ new.lease = call[c].lease
          /\ new.state = call[c].state /\ new.answer = call[c].answer /\ new.stage = "ready"
      BY Parts DEF CallType, Stages
    <2> HIDE DEF new
    <2> QED
      BY <1>1, <1>3, <2>1, <2>2, CallGoesOn
  <1> QED
    BY <1>1, <1>2, <1>3

LEMMA TimeOutStep ==
    ASSUME ActorInv, NEW c \in Call, TimeOut(c)
    PROVE  ActorInv'
  <1> DEFINE new == [call[c] EXCEPT !.stage = "answered", !.answer = "deadline"]
  <1>1. /\ call[c].stage = "waiting" /\ call' = [call EXCEPT ![c] = new]
        /\ UNCHANGED <<clients, actor, queue, worker, daemon, started, told, bounds>>
    BY Parts DEF TimeOut, TypeOK
  <1>2. /\ new \in CallType /\ new.session = call[c].session /\ new.lease = call[c].lease
        /\ new.state = call[c].state /\ new.answer = "deadline" /\ new.stage = "answered"
    BY Parts DEF CallType, Stages, Answers
  <1> HIDE DEF new
  <1> QED
    BY <1>1, <1>2, CallGoesOn
\* A command joins the queue: it was not alive, and now it is.
LEMMA Joins ==
    ASSUME ActorInv, NEW x \in Commands, ~InQueue(x), worker.at # "gone",
           worker.at \in Early \cup {"run"} => worker.cmd # x,
           Len(queue) < Capacity, queue' = Append(queue, x), worker' = worker,
           actor'.active = actor.active
    PROVE  /\ queue' \in Seq(Commands) /\ Len(queue') <= Capacity
           /\ \A y : InQueue(y)' <=> InQueue(y) \/ y = x
           /\ Placed' /\ Distinct(queue')
           /\ (x \in Call => ~InQueue("stop")) => StopLast(queue')
           /\ x = "stop" => Alive' = Alive
           /\ x # "stop" => Alive' = Alive \cup {x} /\ x \notin Alive
                            /\ Cardinality(Alive') = Cardinality(Alive) + 1
  <1>1. queue \in Seq(Commands) /\ Len(queue) \in Nat /\ Capacity \in Nat
    BY Parts, LenProperties, ActorAssumption DEF TypeOK
  <1>2. /\ queue' \in Seq(Commands) /\ Len(queue') = Len(queue) + 1
        /\ \A y : In(queue', y) <=> In(queue, y) \/ y = x
        /\ Distinct(queue) /\ ~In(queue, x) => Distinct(queue')
        /\ StopLast(queue) /\ (x \in Call => ~In(queue, "stop")) => StopLast(queue')
    BY <1>1, AppendIn
  <1>3. \A y : InQueue(y)' <=> InQueue(y) \/ y = x
    BY <1>2, QueueIn
  <1>4. Distinct(queue') /\ ((x \in Call => ~InQueue("stop")) => StopLast(queue'))
    BY <1>2, Parts, QueueIn DEF Once, Ends
  <1>5. Placed'
    BY <1>3, Parts DEF Placed
  <1>6. ASSUME x = "stop" PROVE Alive' = Alive
    BY <1>3, <1>6 DEF Alive
  <1>7. ASSUME x # "stop"
        PROVE  Alive' = Alive \cup {x} /\ x \notin Alive
               /\ Cardinality(Alive') = Cardinality(Alive) + 1
    <2>1. Alive' = Alive \cup {x}
      BY <1>3, <1>7 DEF Alive
    <2>2. x \notin Alive
      BY DEF Alive, Early
    <2>3. Alive \in SUBSET (Commands \cup {"none"})
      BY Parts DEF Alive, TypeOK
    <2> QED
      BY <2>1, <2>2, <2>3, Countable, CountMoves
  <1> QED
    BY <1>1, <1>2, <1>3, <1>4, <1>5, <1>6, <1>7

LEMMA EnqueueStep ==
    ASSUME ActorInv, NEW c \in Call, Enqueue(c)
    PROVE  ActorInv'
  <1>1. call[c].stage = "ready" /\ UNCHANGED <<clients, worker, daemon, started, told, bounds>>
    BY DEF Enqueue
  <1>2. CASE ~actor.accepting \/ try_send_fails
    <2>1. Refuse(c, "refused")
      BY <1>2 DEF Enqueue
    <2> QED
      BY <1>1, <2>1, RefusedStep
  <1>3. CASE actor.accepting /\ ~try_send_fails
    <2> DEFINE new == [call[c] EXCEPT !.stage = "waiting"]
    <2>1. /\ queue' = Append(queue, c) /\ actor' = [actor EXCEPT !.pending = @ + 1]
          /\ call' = [call EXCEPT ![c] = new]
      BY <1>3 DEF Enqueue
    <2>2. /\ Len(queue) # Capacity /\ worker.at # "gone" /\ c \in Commands /\ c # "stop"
          /\ c \notin {"maintenance", "switch"}
      BY <1>3, ActorAssumption DEF try_send_fails, Commands
    <2>3. Len(queue) < Capacity
      <3>1. queue \in Seq(Commands) /\ Len(queue) <= Capacity
        BY Parts DEF TypeOK
      <3>2. Len(queue) \in Nat /\ Capacity \in Nat
        BY <3>1, LenProperties, ActorAssumption
      <3> QED
        BY <2>2, <3>1, <3>2
    <2>4. /\ call' \in [Call -> CallType] /\ call'[c] = new
          /\ \A d \in Call : d # c => call'[d] = call[d]
          /\ new.state = call[c].state /\ new.stage = "waiting" /\ new.session = call[c].session
          /\ new.lease = call[c].lease /\ new.answer = call[c].answer
      <3>1. new \in CallType
        BY Parts DEF CallType, Stages
      <3>2. /\ new.state = call[c].state /\ new.stage = "waiting" /\ new.session = call[c].session
            /\ new.lease = call[c].lease /\ new.answer = call[c].answer
        BY Parts DEF CallType
      <3> HIDE DEF new
      <3> QED
        BY <2>1, <3>1, <3>2, Parts DEF TypeOK
    <2>5. ~InQueue(c) /\ worker.cmd # c /\ c \notin started /\ ~InQueue("stop")
      BY <1>1, <1>3, Parts DEF Joined, Ends
    <2> HIDE DEF new
    <2>6. /\ actor' = [actor EXCEPT !.pending = actor.pending + 1] /\ actor'.active = actor.active
          /\ actor'.leases = actor.leases /\ actor'.pending = actor.pending + 1
          /\ actor'.maintenance_queued = actor.maintenance_queued
          /\ actor'.switch_queued = actor.switch_queued /\ actor'.accepting = actor.accepting
          /\ actor' \in ActorType
      <3>1. actor.pending \in Nat
        BY Parts DEF ActorType
      <3> QED
        BY <2>1, <3>1, Parts DEF ActorType
    <2>7. UNCHANGED <<session, held, acquiring, issued, worker, daemon, started, told, switches, panics>>
      BY <1>1 DEF clients, bounds
    <2>8. /\ queue' \in Seq(Commands) /\ Len(queue') <= Capacity
          /\ \A y : InQueue(y)' <=> InQueue(y) \/ y = c
          /\ Placed' /\ Distinct(queue') /\ StopLast(queue')
          /\ Alive' = Alive \cup {c} /\ c \notin Alive
          /\ Cardinality(Alive') = Cardinality(Alive) + 1
      BY <2>1, <2>2, <2>3, <2>5, <2>6, <2>7, Joins
    <2>9. TypeOK'
      BY <2>4, <2>6, <2>7, <2>8, Parts DEF TypeOK
    <2>10. Clients'
      BY <2>6, <2>7, Parts, ClientsAside
    <2>11. ASSUME NEW d \in Call PROVE Leased(d)' /\ Settled(d)' /\ Joined(d)'
      <3>1. CASE d # c
        BY <2>4, <2>7, <2>8, <3>1, Parts, CallKept
      <3>2. CASE d = c
        <4>1. Leased(c)'
          BY <1>1, <2>4, <2>7, Parts DEF Leased
        <4>2. Settled(c)'
          BY <2>4, <2>7, Parts DEF Settled
        <4>3. Joined(c)'
          BY <2>4, <2>5, <2>7 DEF Joined
        <4> QED
          BY <3>2, <4>1, <4>2, <4>3
      <3> QED
        BY <3>1, <3>2
    <2>12. Once'
      BY <2>2, <2>6, <2>8, Parts DEF Once
    <2>13. Ends'
      <3>1. \A d \in Call : call'[d].answer = call[d].answer
        BY <2>4
      <3> QED
        BY <1>3, <2>2, <2>5, <2>6, <2>7, <2>8, <3>1, Parts DEF Ends
    <2> QED
      BY <2>8, <2>9, <2>10, <2>11, <2>12, <2>13 DEF ActorInv, Calls
  <1> QED
    BY <1>2, <1>3
-----------------------------------------------------------------------------
(* The worker thread.                                                      *)

\* The worker has the permit of its command in its hands.
Holding == \/ worker.at = "permit"
           \/ worker.at = "run" /\ worker.cmd \notin Call

\* A step of the worker that leaves the queue alone gives that permit back, or
\* had none.
LEMMA PermitBack ==
    ASSUME ActorInv, queue' = queue, ~Holding',
           actor'.pending = IF Holding THEN actor.pending - 1 ELSE actor.pending,
           actor'.maintenance_queued <=>
               actor.maintenance_queued /\ ~(Holding /\ worker.cmd = "maintenance"),
           actor'.switch_queued <=>
               actor.switch_queued /\ ~(Holding /\ worker.cmd = "switch")
    PROVE  Once'
  <1>1. \A x : InQueue(x)' <=> InQueue(x)
    BY DEF InQueue
  <1>2. Alive' = {x \in Commands \ {"stop"} : InQueue(x)}
    BY <1>1 DEF Alive, Holding
  <1>3. Alive \in SUBSET (Commands \cup {"none"}) /\ IsFiniteSet(Alive)
    <2>1. Alive \in SUBSET (Commands \cup {"none"})
      BY Parts DEF Alive, TypeOK
    <2> QED
      BY <2>1, Countable
  <1>4. CASE Holding
    <2>1. Alive' = Alive \ {worker.cmd} /\ worker.cmd \in Alive
      <3>1. ~InQueue(worker.cmd)
        BY <1>4, Parts DEF Holding, Placed, Early
      <3>2. worker.cmd \in Alive
        BY <1>4, Parts DEF Holding, Placed, Early, Alive
      <3>3. \A x : x \in Alive => (InQueue(x) /\ x \in Commands \ {"stop"}) \/ x = worker.cmd
        BY DEF Alive
      <3>4. \A x \in Commands \ {"stop"} : InQueue(x) => x \in Alive
        BY DEF Alive
      <3> QED
        BY <1>2, <3>1, <3>2, <3>3, <3>4
    <2>2. Cardinality(Alive') = Cardinality(Alive) - 1
      BY <1>3, <2>1, CountMoves
    <2>3. actor'.pending = Cardinality(Alive')
      BY <1>4, <2>2, Parts DEF Once
    <2>4. /\ actor'.maintenance_queued <=> "maintenance" \in Alive'
          /\ actor'.switch_queued <=> "switch" \in Alive'
      BY <1>4, <2>1, Parts DEF Once
    <2> QED
      BY <2>3, <2>4, Parts DEF Once
  <1>5. CASE ~Holding
    <2>1. Alive' = Alive
      BY <1>2, <1>5 DEF Alive, Holding
    <2> QED
      BY <1>5, <2>1, Parts DEF Once
  <1> QED
    BY <1>4, <1>5

\* A step of the worker that leaves the queue alone.
LEMMA WorkerTurns ==
    ASSUME ActorInv, actor' \in ActorType, actor'.leases = actor.leases,
           UNCHANGED <<clients, queue, daemon, told>>,
           call' \in [Call -> CallType], started' \subseteq Call, Calls',
           worker' \in [at : Places, cmd : Commands \cup {"none"}],
           worker'.cmd \in {worker.cmd, "none"}, Placed',
           switches' \in 0 .. MaxSwitches, panics' \in 0 .. MaxPanics, panics' >= panics,
           actor'.accepting = actor.accepting,
           ~Holding',
           actor'.pending = IF Holding THEN actor.pending - 1 ELSE actor.pending,
           actor'.maintenance_queued <=>
               actor.maintenance_queued /\ ~(Holding /\ worker.cmd = "maintenance"),
           actor'.switch_queued <=>
               actor.switch_queued /\ ~(Holding /\ worker.cmd = "switch"),
           worker'.at \in {"failing", "exiting"} => panics' > 0,
           \A d \in Call : call'[d].answer = "dropped" => call[d].answer = "dropped"
    PROVE  ActorInv'
  <1>1. UNCHANGED <<session, held, acquiring, issued>>
    BY DEF clients
  <1>2. TypeOK'
    BY <1>1, Parts DEF TypeOK
  <1>3. Clients'
    BY <1>1, Parts, ClientsAside
  <1>4. Once'
    BY PermitBack
  <1>5. panics' = 0 => panics = 0
    BY Parts, ActorAssumption DEF TypeOK
  <1>6. panics' > 0 => panics' # 0
    OBVIOUS
  <1>7. \A x : InQueue(x)' <=> InQueue(x)
    BY DEF InQueue
  <1>8. Ends'
    BY <1>5, <1>6, <1>7, Parts DEF Ends
  <1> QED
    BY <1>2, <1>3, <1>4, <1>8 DEF ActorInv
\* What the steps of the worker write.
LEMMA WorkerIs ==
    ASSUME ActorInv
    PROVE  /\ worker \in [at : Places, cmd : Commands \cup {"none"}]
           /\ actor \in ActorType /\ actor.active \in 0 .. 1
           /\ \A p \in Places : Goto(p) => /\ worker' \in [at : Places, cmd : Commands \cup {"none"}]
                                           /\ worker'.at = p /\ worker'.cmd = worker.cmd
           /\ NextCommand => /\ worker' \in [at : Places, cmd : Commands \cup {"none"}]
                             /\ worker'.at = "recv" /\ worker'.cmd = "none"
           /\ switches \in 0 .. MaxSwitches /\ panics \in 0 .. MaxPanics
           /\ MayPanic /\ panics' = panics + 1 =>
                panics' \in 0 .. MaxPanics /\ panics' > 0 /\ panics' >= panics
  <1>1. worker \in [at : Places, cmd : Commands \cup {"none"}] /\ panics \in 0 .. MaxPanics
    BY Parts DEF TypeOK
  <1>2. /\ switches \in 0 .. MaxSwitches
        /\ actor \in ActorType /\ actor.active \in 0 .. 1
    BY Parts DEF TypeOK, ActorType
  <1>3. NextCommand => /\ worker' \in [at : Places, cmd : Commands \cup {"none"}]
                       /\ worker'.at = "recv" /\ worker'.cmd = "none"
    BY DEF NextCommand, Places
  <1>4. ASSUME NEW p \in Places, Goto(p)
        PROVE  /\ worker' \in [at : Places, cmd : Commands \cup {"none"}]
               /\ worker'.at = p /\ worker'.cmd = worker.cmd
    BY <1>1, <1>4 DEF Goto
  <1>5. MayPanic /\ panics' = panics + 1 =>
          panics' \in 0 .. MaxPanics /\ panics' > 0 /\ panics' >= panics
    BY <1>1, ActorAssumption DEF MayPanic
  <1> QED
    BY <1>1, <1>2, <1>3, <1>4, <1>5

LEMMA OpenedStep == ASSUME ActorInv, Opened PROVE ActorInv'
  <1>1. /\ worker.at = "opening" /\ actor' = [actor EXCEPT !.state = "ready"] /\ NextCommand
        /\ UNCHANGED <<clients, call, queue, daemon, started, told, switches, panics>>
    BY DEF Opened, bounds
  <1>2. /\ actor' \in ActorType /\ actor'.leases = actor.leases /\ actor'.active = 0
        /\ actor'.pending = actor.pending /\ actor'.maintenance_queued = actor.maintenance_queued
        /\ actor'.switch_queued = actor.switch_queued /\ actor'.accepting = actor.accepting
    BY <1>1, Parts DEF ActorType, Placed
  <1>3. /\ worker' \in [at : Places, cmd : Commands \cup {"none"}]
        /\ worker'.at = "recv" /\ worker'.cmd = "none"
    BY <1>1, WorkerIs
  <1>4. ~Holding /\ ~Holding'
    BY <1>1, <1>3 DEF Holding
  <1>5. Placed'
    BY <1>2, <1>3 DEF Placed, Early
  <1>6. Calls'
    BY <1>1, <1>3, Parts, CallsAside DEF Early, clients
  <1>7. call' \in [Call -> CallType] /\ started' \subseteq Call /\ panics' >= panics
    BY <1>1, Parts, WorkerIs, ActorAssumption DEF TypeOK
  <1>8. \A d \in Call : call'[d].answer = call[d].answer
    BY <1>1
  <1> QED
    BY <1>1, <1>2, <1>3, <1>4, <1>5, <1>6, <1>7, <1>8, WorkerIs, WorkerTurns

LEMMA DropPermitStep == ASSUME ActorInv, DropPermit PROVE ActorInv'
  <1>1. /\ worker.at = "permit" /\ actor' = [actor EXCEPT !.pending = @ - 1] /\ Goto("check")
        /\ UNCHANGED <<clients, call, queue, daemon, started, told, switches, panics>>
    BY DEF DropPermit, bounds
  <1>2. /\ worker.cmd \in Call /\ actor.active = 1 /\ ~InQueue(worker.cmd) /\ worker.cmd # "stop"
        /\ worker.cmd \notin {"maintenance", "switch"}
    BY <1>1, Parts, ActorAssumption DEF Placed, Early
  <1>3. /\ worker' \in [at : Places, cmd : Commands \cup {"none"}]
        /\ worker'.at = "check" /\ worker'.cmd = worker.cmd
    BY <1>1, WorkerIs DEF Places
  <1>4. Holding /\ ~Holding'
    BY <1>1, <1>3 DEF Holding
  <1>5. /\ actor'.leases = actor.leases /\ actor'.active = actor.active
        /\ actor'.pending = actor.pending - 1
        /\ actor'.maintenance_queued = actor.maintenance_queued
        /\ actor'.switch_queued = actor.switch_queued /\ actor'.accepting = actor.accepting
    BY <1>1, Parts DEF ActorType
  <1>6. Once'
    BY <1>1, <1>2, <1>4, <1>5, PermitBack
  <1>7. actor' \in ActorType
    <2>1. actor'.pending \in Nat
      BY <1>3, <1>6, PendingNat
    <2> QED
      BY <1>1, <1>5, <2>1, Parts DEF ActorType
  <1>8. Placed'
    BY <1>1, <1>2, <1>3, <1>5 DEF Placed, Early, InQueue
  <1>9. Calls'
    BY <1>1, <1>3, Parts, CallsAside DEF Early, clients
  <1>10. call' \in [Call -> CallType] /\ started' \subseteq Call /\ panics' >= panics
    BY <1>1, Parts, WorkerIs, ActorAssumption DEF TypeOK
  <1>11. \A d \in Call : call'[d].answer = call[d].answer
    BY <1>1
  <1> QED
    BY <1>1, <1>2, <1>3, <1>4, <1>5, <1>7, <1>8, <1>9, <1>10, <1>11, WorkerIs, WorkerTurns

LEMMA FailStep == ASSUME ActorInv, Fail PROVE ActorInv'
  <1>1. /\ worker.at = "failing" /\ actor' = [actor EXCEPT !.state = "failed"] /\ Goto("exiting")
        /\ UNCHANGED <<clients, call, queue, daemon, started, told, switches, panics>>
    BY DEF Fail, bounds
  <1>2. /\ actor' \in ActorType /\ actor'.leases = actor.leases /\ actor'.active = actor.active
        /\ actor'.pending = actor.pending /\ actor'.maintenance_queued = actor.maintenance_queued
        /\ actor'.switch_queued = actor.switch_queued /\ actor'.accepting = actor.accepting
    BY <1>1, Parts DEF ActorType
  <1>3. /\ worker' \in [at : Places, cmd : Commands \cup {"none"}]
        /\ worker'.at = "exiting" /\ worker'.cmd = worker.cmd
    BY <1>1, WorkerIs DEF Places
  <1>4. ~Holding /\ ~Holding' /\ panics' > 0
    BY <1>1, <1>3, Parts DEF Holding, Ends
  <1>5. Placed'
    BY <1>1, <1>3, Parts DEF Placed, Early
  <1>6. Calls'
    BY <1>1, <1>3, Parts, CallsAside DEF Early, clients
  <1>7. call' \in [Call -> CallType] /\ started' \subseteq Call /\ panics' >= panics
    BY <1>1, Parts, WorkerIs, ActorAssumption DEF TypeOK
  <1>8. \A d \in Call : call'[d].answer = call[d].answer
    BY <1>1
  <1> QED
    BY <1>1, <1>2, <1>3, <1>4, <1>5, <1>6, <1>7, <1>8, WorkerIs, WorkerTurns
\* A background command ends: its permit is given back and its mark cleared.
LEMMA BackgroundEnds ==
    ASSUME ActorInv, worker.at = "run", worker.cmd \in {"maintenance", "switch"},
           actor'.leases = actor.leases, actor'.active = actor.active - 1,
           actor'.pending = actor.pending - 1, actor'.accepting = actor.accepting,
           actor'.maintenance_queued <=> actor.maintenance_queued /\ worker.cmd # "maintenance",
           actor'.switch_queued <=> actor.switch_queued /\ worker.cmd # "switch",
           actor'.pending \in Nat => actor' \in ActorType,
           switches' \in 0 .. MaxSwitches, panics' \in 0 .. MaxPanics, panics' >= panics,
           NextCommand \/ (Goto("failing") /\ panics' > 0),
           UNCHANGED <<clients, call, queue, daemon, started, told>>
    PROVE  ActorInv'
  <1>1. worker.cmd \notin Call /\ actor.active = 1 /\ actor'.active = 0
    BY Parts, ActorAssumption DEF Placed
  <1>2. /\ worker' \in [at : Places, cmd : Commands \cup {"none"}]
        /\ \/ worker'.at = "recv" /\ worker'.cmd = "none"
           \/ worker'.at = "failing" /\ worker'.cmd = worker.cmd /\ panics' > 0
    BY WorkerIs DEF Places
  <1>3. Holding /\ ~Holding'
    BY <1>1, <1>2 DEF Holding
  <1>4. Once'
    BY <1>3, PermitBack
  <1>5. actor' \in ActorType
    BY <1>2, <1>4, PendingNat
  <1>6. Placed'
    BY <1>1, <1>2 DEF Placed, Early
  <1>7. Calls'
    BY <1>2, Parts, CallsAside DEF Early, clients
  <1>8. call' \in [Call -> CallType] /\ started' \subseteq Call
    BY Parts DEF TypeOK
  <1>9. \A d \in Call : call'[d].answer = call[d].answer
    OBVIOUS
  <1>10. worker'.at \in {"failing", "exiting"} => panics' > 0
    BY <1>2
  <1> QED
    BY <1>2, <1>3, <1>5, <1>6, <1>7, <1>8, <1>9, <1>10, WorkerTurns

LEMMA RunMaintenanceStep == ASSUME ActorInv, RunMaintenance PROVE ActorInv'
  <1>1. /\ worker.at = "run" /\ worker.cmd = "maintenance" /\ actor' = MaintenanceDone
        /\ \/ NextCommand /\ UNCHANGED panics
           \/ MayPanic /\ panics' = panics + 1 /\ Goto("failing")
        /\ UNCHANGED <<clients, call, queue, daemon, started, told, switches>>
    BY DEF RunMaintenance
  <1>2. /\ actor'.leases = actor.leases /\ actor'.active = actor.active - 1
        /\ actor'.pending = actor.pending - 1 /\ actor'.accepting = actor.accepting
        /\ ~actor'.maintenance_queued /\ actor'.switch_queued = actor.switch_queued
    BY <1>1, Parts DEF MaintenanceDone, ActorType
  <1>3. actor'.pending \in Nat => actor' \in ActorType
    <2>1. actor.active - 1 \in 0 .. 1
      BY <1>1, Parts DEF Placed
    <2> QED
      BY <1>1, <1>2, <2>1, Parts DEF MaintenanceDone, ActorType
  <1>4. /\ panics' \in 0 .. MaxPanics /\ panics' >= panics
        /\ NextCommand \/ (Goto("failing") /\ panics' > 0)
    BY <1>1, WorkerIs, ActorAssumption
  <1>5. switches' \in 0 .. MaxSwitches
    BY <1>1, WorkerIs
  <1> QED
    BY <1>1, <1>2, <1>3, <1>4, <1>5, BackgroundEnds

LEMMA SwitchIs ==
    ASSUME ActorInv, NEW on \in BOOLEAN, SwitchAfter(on)
    PROVE  switches' \in 0 .. MaxSwitches
  BY Parts, ActorAssumption DEF SwitchAfter, TypeOK

LEMMA RunSwitchStepStep == ASSUME ActorInv, RunSwitchStep PROVE ActorInv'
  <1>1. /\ worker.at = "run" /\ worker.cmd = "switch"
        /\ UNCHANGED <<clients, call, queue, daemon, started, told>>
    BY DEF RunSwitchStep
  <1>2. /\ \/ \E on \in BOOLEAN : actor' = [SwitchDone EXCEPT !.engine = TRUE, !.switch = on]
           \/ actor' = SwitchDone
        /\ switches' \in 0 .. MaxSwitches
        /\ \/ NextCommand /\ UNCHANGED panics
           \/ MayPanic /\ panics' = panics + 1 /\ Goto("failing")
    <2>1. CASE \E on \in BOOLEAN :
                  /\ SwitchAfter(on)
                  /\ actor' = [SwitchDone EXCEPT !.engine = TRUE, !.switch = on]
                  /\ NextCommand /\ UNCHANGED panics
      BY <2>1, SwitchIs
    <2>2. CASE actor' = SwitchDone /\ NextCommand /\ UNCHANGED bounds
      BY <2>2, WorkerIs DEF bounds
    <2>3. CASE /\ MayPanic /\ panics' = panics + 1 /\ actor' = SwitchDone
               /\ Goto("failing") /\ UNCHANGED switches
      BY <2>3, WorkerIs
    <2> QED
      BY <2>1, <2>2, <2>3 DEF RunSwitchStep
  <1>3. /\ actor'.leases = actor.leases /\ actor'.active = actor.active - 1
        /\ actor'.pending = actor.pending - 1 /\ actor'.accepting = actor.accepting
        /\ actor'.maintenance_queued = actor.maintenance_queued /\ ~actor'.switch_queued
    BY <1>2, Parts DEF SwitchDone, ActorType
  <1>4. actor'.pending \in Nat => actor' \in ActorType
    <2>1. actor.active - 1 \in 0 .. 1
      BY <1>1, Parts DEF Placed
    <2> QED
      BY <1>2, <1>3, <2>1, Parts DEF SwitchDone, ActorType
  <1>5. /\ panics' \in 0 .. MaxPanics /\ panics' >= panics
        /\ NextCommand \/ (Goto("failing") /\ panics' > 0)
    <2>1. CASE NextCommand /\ UNCHANGED panics
      BY <2>1, WorkerIs, ActorAssumption
    <2>2. CASE MayPanic /\ panics' = panics + 1 /\ Goto("failing")
      BY <2>2, WorkerIs
    <2> QED
      BY <1>2, <2>1, <2>2
  <1> QED
    BY <1>1, <1>2, <1>3, <1>4, <1>5, BackgroundEnds

\* The worker is done with a call.
LEMMA CallEnds ==
    ASSUME ActorInv, NEW c \in Call, c = worker.cmd, worker.at \in (Early \ {"permit"}) \cup {"run"},
           NEW st \in {"cancelled", "completed"}, NEW an \in {"done", "cancelled", "deadline", "failed"},
           call' = Replied(c, st, an), c \in started => st = "completed" /\ an # "cancelled",
           actor'.leases = actor.leases, actor'.active = actor.active - 1,
           actor'.pending = actor.pending, actor'.accepting = actor.accepting,
           actor'.maintenance_queued = actor.maintenance_queued,
           actor'.switch_queued = actor.switch_queued, actor' \in ActorType,
           switches' \in 0 .. MaxSwitches, panics' \in 0 .. MaxPanics, panics' >= panics,
           NextCommand \/ (Goto("failing") /\ panics' > 0),
           UNCHANGED <<clients, queue, daemon, started, told>>
    PROVE  ActorInv'
  <1>1. actor.active = 1 /\ actor'.active = 0
    BY Parts DEF Placed
  <1>2. /\ worker' \in [at : Places, cmd : Commands \cup {"none"}]
        /\ \/ worker'.at = "recv" /\ worker'.cmd = "none"
           \/ worker'.at = "failing" /\ worker'.cmd = worker.cmd /\ panics' > 0
    BY WorkerIs DEF Places
  <1>3. ~Holding /\ ~Holding' /\ worker'.at \notin Early
    BY <1>2 DEF Holding, Early
  <1>4. Placed'
    BY <1>1, <1>2, Parts DEF Placed, Early
  <1>5. /\ call[c] \in CallType /\ Leased(c) /\ Settled(c) /\ Joined(c)
        /\ call[c].stage \in {"waiting", "answered"}
    BY Parts DEF Joined
  <1> DEFINE new == [call[c] EXCEPT !.state = st,
                        !.answer = IF call[c].stage = "waiting" THEN an ELSE @,
                        !.stage = IF @ = "waiting" THEN "answered" ELSE @]
  <1>6. call' = [call EXCEPT ![c] = new]
    BY Parts DEF Replied, TypeOK
  <1>7. /\ new \in CallType /\ new.state = st /\ new.stage = "answered"
        /\ new.session = call[c].session /\ new.lease = call[c].lease
        /\ new.answer \in {call[c].answer, an}
    <2>1. CASE call[c].stage = "waiting"
      <3>1. new = [call[c] EXCEPT !.state = st, !.answer = an, !.stage = "answered"]
        BY <2>1, <1>5 DEF CallType
      <3> HIDE DEF new
      <3>2. /\ new.state = st /\ new.answer = an /\ new.stage = "answered"
            /\ new.session = call[c].session /\ new.lease = call[c].lease
        BY <3>1, <1>5 DEF CallType
      <3>3. st \in CallStates /\ an \in Answers /\ "answered" \in Stages
        BY DEF CallStates, Answers, Stages
      <3>4. new \in CallType
        BY <3>1, <3>3, <1>5 DEF CallType
      <3> QED
        BY <3>2, <3>4
    <2>2. CASE call[c].stage = "answered"
      <3>1. new = [call[c] EXCEPT !.state = st]
        BY <2>2, <1>5 DEF CallType
      <3> HIDE DEF new
      <3> QED
        BY <2>2, <3>1, <1>5 DEF CallType, CallStates
    <2> QED
      BY <1>5, <2>1, <2>2
  <1> HIDE DEF new
  <1>8. call' \in [Call -> CallType] /\ call'[c] = new /\ \A d \in Call : d # c => call'[d] = call[d]
    BY <1>6, <1>7, Parts DEF TypeOK
  <1>9. Calls'
    <2> SUFFICES ASSUME NEW d \in Call PROVE Leased(d)' /\ Settled(d)' /\ Joined(d)'
      BY DEF Calls
    <2>1. UNCHANGED <<session, held>>
      BY DEF clients
    <2>2. \A x : InQueue(x)' <=> InQueue(x)
      BY DEF InQueue
    <2>3. CASE d # c
      <3>1. d # "none" /\ worker'.cmd # d
        BY <1>2, <2>3, ActorAssumption
      <3> QED
        BY <1>8, <2>1, <2>2, <2>3, <3>1, Parts, CallKept
    <2>4. CASE d = c
      <3>1. Leased(c)'
        BY <1>5, <1>7, <1>8, <2>1 DEF Leased
      <3>2. Settled(c)'
        BY <1>5, <1>7, <1>8 DEF Settled
      <3>3. Joined(c)'
        BY <1>3, <1>5, <1>7, <1>8, <2>2 DEF Joined
      <3> QED
        BY <2>4, <3>1, <3>2, <3>3
    <2> QED
      BY <2>3, <2>4
  <1>10. \A d \in Call : call'[d].answer = "dropped" => call[d].answer = "dropped"
    BY <1>7, <1>8
  <1>11. started' \subseteq Call
    BY Parts DEF TypeOK
  <1>12. worker'.at \in {"failing", "exiting"} => panics' > 0
    BY <1>2
  <1> QED
    BY <1>2, <1>3, <1>4, <1>8, <1>9, <1>10, <1>11, <1>12, WorkerTurns
\* The call in the hands of the worker has not begun.
LEMMA AtWorker ==
    ASSUME ActorInv, worker.at \in Early
    PROVE  /\ worker.cmd \in Call /\ worker.cmd \notin started /\ ~InQueue(worker.cmd)
           /\ call[worker.cmd].stage \in {"waiting", "answered"}
           /\ call[worker.cmd].state \in {"queued", "cancelled", "completed"}
           /\ worker.cmd # "stop" /\ actor.active = 1
  <1>1. worker.cmd \in Call /\ ~InQueue(worker.cmd) /\ worker.cmd # "stop" /\ actor.active = 1
    BY Parts DEF Placed
  <1>2. /\ Leased(worker.cmd) /\ Settled(worker.cmd) /\ Joined(worker.cmd)
        /\ call[worker.cmd] \in CallType
    BY <1>1, Parts
  <1>3. worker.cmd \notin started /\ call[worker.cmd].stage \in {"waiting", "answered"}
    BY <1>2 DEF Joined
  <1> QED
    BY <1>1, <1>2, <1>3 DEF Leased, Settled, CallType, CallStates

\* The worker goes on to another place with its call, or panics.
LEMMA EarlyGoes ==
    ASSUME ActorInv, worker.at \in Early \ {"permit"}, NEW p \in (Early \ {"permit"}) \cup {"exiting"},
           Goto(p), panics' \in 0 .. MaxPanics, panics' >= panics, p = "exiting" => panics' > 0,
           UNCHANGED <<clients, call, actor, queue, daemon, started, told, switches>>
    PROVE  ActorInv'
  <1>1. /\ worker' \in [at : Places, cmd : Commands \cup {"none"}]
        /\ worker'.at = p /\ worker'.cmd = worker.cmd
    BY WorkerIs DEF Places, Early
  <1>2. ~Holding /\ ~Holding'
    BY <1>1 DEF Holding, Early
  <1>3. Placed'
    BY <1>1, AtWorker DEF Placed, Early, InQueue
  <1>4. Calls'
    BY <1>1, Parts, CallsAside DEF Early, clients
  <1>5. call' \in [Call -> CallType] /\ started' \subseteq Call /\ actor' \in ActorType
    BY Parts DEF TypeOK
  <1>6. \A d \in Call : call'[d].answer = call[d].answer
    OBVIOUS
  <1>7. worker'.at \in {"failing", "exiting"} => panics' > 0
    BY <1>1 DEF Early
  <1>8. switches' \in 0 .. MaxSwitches
    BY WorkerIs
  <1> QED
    BY <1>1, <1>2, <1>3, <1>4, <1>5, <1>6, <1>7, <1>8, WorkerTurns

LEMMA EndedStep ==
    ASSUME ActorInv, worker.at \in Early \ {"permit"}, NEW st \in {"cancelled", "completed"},
           NEW an \in {"done", "cancelled", "deadline", "failed"}, EndCall(worker.cmd, st, an),
           UNCHANGED <<clients, queue, daemon, started, told, bounds>>
    PROVE  ActorInv'
  <1>1. /\ call' = Replied(worker.cmd, st, an) /\ NextCommand
        /\ actor' = [actor EXCEPT !.active = @ - 1]
    BY DEF EndCall
  <1>2. /\ actor'.leases = actor.leases /\ actor'.active = actor.active - 1
        /\ actor'.pending = actor.pending /\ actor'.accepting = actor.accepting
        /\ actor'.maintenance_queued = actor.maintenance_queued
        /\ actor'.switch_queued = actor.switch_queued
    BY <1>1, Parts DEF ActorType
  <1>3. actor' \in ActorType
    <2>1. actor.active - 1 \in 0 .. 1
      BY AtWorker
    <2> QED
      BY <1>1, <2>1, Parts DEF ActorType
  <1>4. switches' \in 0 .. MaxSwitches /\ panics' \in 0 .. MaxPanics /\ panics' >= panics
    BY WorkerIs, ActorAssumption DEF bounds
  <1>5. worker.cmd \in Call /\ worker.cmd \notin started
    BY AtWorker
  <1> QED
    BY <1>1, <1>2, <1>3, <1>4, <1>5, CallEnds

LEMMA CheckCallStep == ASSUME ActorInv, CheckCall PROVE ActorInv'
  <1>1. /\ worker.at \in {"check", "recheck"}
        /\ UNCHANGED <<clients, queue, daemon, started, told, switches, panics>>
    BY DEF CheckCall, bounds
  <1>2. CASE worker.at = "check" /\ call[worker.cmd].state # "queued"
    <2>1. EndCall(worker.cmd, call[worker.cmd].state, "cancelled")
      BY <1>2 DEF CheckCall
    <2>2. call[worker.cmd].state \in {"cancelled", "completed"}
      BY <1>2, AtWorker DEF Early
    <2> QED
      BY <1>1, <2>1, <2>2, EndedStep DEF Early, bounds
  <1>3. CASE ~(worker.at = "check" /\ call[worker.cmd].state # "queued") /\ call[worker.cmd].late
    <2>1. EndCall(worker.cmd, "cancelled", "deadline")
      BY <1>3 DEF CheckCall
    <2> QED
      BY <1>1, <2>1, EndedStep DEF Early, bounds
  <1>4. CASE ~(worker.at = "check" /\ call[worker.cmd].state # "queued") /\ ~call[worker.cmd].late
    <2>1. \E p \in {"prepare", "start"} : Goto(p)
      BY <1>4 DEF CheckCall
    <2>2. UNCHANGED <<call, actor>>
      BY <1>4 DEF CheckCall
    <2>3. panics' \in 0 .. MaxPanics /\ panics' >= panics
      BY <1>1, WorkerIs, ActorAssumption
    <2> QED
      BY <1>1, <2>1, <2>2, <2>3, EarlyGoes DEF Early
  <1> QED
    BY <1>2, <1>3, <1>4

LEMMA PrepareCallStep == ASSUME ActorInv, PrepareCall PROVE ActorInv'
  <1>1. /\ worker.at = "prepare" /\ worker.at \in Early \ {"permit"}
        /\ UNCHANGED <<clients, queue, daemon, started, told, switches>>
    BY DEF PrepareCall, Early
  <1>2. CASE Goto("recheck") /\ UNCHANGED <<call, actor, panics>>
    <2>1. panics' \in 0 .. MaxPanics /\ panics' >= panics
      BY <1>2, WorkerIs, ActorAssumption
    <2> QED
      BY <1>1, <1>2, <2>1, EarlyGoes DEF Early
  <1>3. CASE /\ IF call[worker.cmd].state = "queued" THEN EndCall(worker.cmd, "completed", "done")
                ELSE EndCall(worker.cmd, call[worker.cmd].state, "cancelled")
             /\ UNCHANGED panics
    <2>1. UNCHANGED bounds
      BY <1>1, <1>3 DEF bounds
    <2>2. CASE call[worker.cmd].state = "queued"
      BY <1>1, <1>3, <2>1, <2>2, EndedStep
    <2>3. CASE call[worker.cmd].state # "queued"
      <3>1. call[worker.cmd].state \in {"cancelled", "completed"}
        BY <1>1, <2>3, AtWorker
      <3> QED
        BY <1>1, <1>3, <2>1, <2>3, <3>1, EndedStep
    <2> QED
      BY <2>2, <2>3
  <1>4. CASE MayPanic /\ panics' = panics + 1 /\ Goto("exiting") /\ UNCHANGED <<call, actor>>
    BY <1>1, <1>4, WorkerIs, EarlyGoes
  <1> QED
    BY <1>2, <1>3, <1>4 DEF PrepareCall

LEMMA StartCallStep == ASSUME ActorInv, StartCall PROVE ActorInv'
  <1> DEFINE c == worker.cmd
  <1>1. /\ worker.at = "start" /\ worker.at \in Early \ {"permit"}
        /\ UNCHANGED <<clients, queue, daemon, told, switches, panics>>
    BY DEF StartCall, Early, bounds
  <1>2. CASE call[c].state # "queued"
    <2>1. call[c].state \in {"cancelled", "completed"}
      BY <1>1, <1>2, AtWorker
    <2>2. EndCall(c, call[c].state, "cancelled") /\ UNCHANGED started
      BY <1>2 DEF StartCall
    <2> QED
      BY <1>1, <2>1, <2>2, EndedStep DEF bounds
  <1>3. CASE call[c].state = "queued"
    <2> DEFINE new == [call[c] EXCEPT !.state = "running"]
    <2>1. /\ call' = [call EXCEPT ![c] = new] /\ started' = started \cup {c}
          /\ Goto("run") /\ UNCHANGED actor
      BY <1>3 DEF StartCall
    <2>2. /\ c \in Call /\ c \notin started /\ ~InQueue(c) /\ c # "stop" /\ actor.active = 1
          /\ call[c].stage \in {"waiting", "answered"}
      BY <1>1, AtWorker
    <2>3. /\ call[c] \in CallType /\ Leased(c) /\ Settled(c) /\ Joined(c)
      BY <2>2, Parts
    <2>4. /\ new \in CallType /\ new.state = "running" /\ new.stage = call[c].stage
          /\ new.session = call[c].session /\ new.lease = call[c].lease
          /\ new.answer = call[c].answer
      BY <2>3 DEF CallType, CallStates
    <2> HIDE DEF new
    <2>5. call' \in [Call -> CallType] /\ call'[c] = new /\ \A d \in Call : d # c => call'[d] = call[d]
      BY <2>1, <2>2, <2>4, Parts DEF TypeOK
    <2>6. /\ worker' \in [at : Places, cmd : Commands \cup {"none"}]
          /\ worker'.at = "run" /\ worker'.cmd = worker.cmd
      BY <2>1, WorkerIs DEF Places
    <2>7. ~Holding /\ ~Holding'
      BY <1>1, <2>2, <2>6 DEF Holding
    <2>8. \A x : InQueue(x)' <=> InQueue(x)
      BY <1>1 DEF InQueue
    <2>9. Placed'
      <3>1. worker'.cmd \in Commands \ {"stop"}
        BY <2>2, <2>6 DEF Commands
      <3> QED
        BY <2>1, <2>2, <2>6, <2>8, <3>1 DEF Placed, Early
    <2>10. Calls'
      <3> SUFFICES ASSUME NEW d \in Call PROVE Leased(d)' /\ Settled(d)' /\ Joined(d)'
        BY DEF Calls
      <3>1. UNCHANGED <<session, held>>
        BY <1>1 DEF clients
      <3>2. CASE d # c
        BY <1>1, <2>1, <2>5, <2>6, <2>8, <3>1, <3>2, Parts, CallKept
      <3>3. CASE d = c
        <4>1. Leased(d)'
          BY <3>3, <2>2, <2>3, <2>4, <2>5, <3>1 DEF Leased
        <4>2. Settled(d)'
          BY <3>3, <1>1, <1>3, <2>1, <2>3, <2>4, <2>5 DEF Settled
        <4>3. Joined(d)'
          BY <3>3, <2>2, <2>4, <2>5, <2>6, <2>8 DEF Joined, Early
        <4> QED
          BY <4>1, <4>2, <4>3
      <3> QED
        BY <3>2, <3>3
    <2>11. started' \subseteq Call /\ actor' \in ActorType
      BY <2>1, <2>2, Parts DEF TypeOK
    <2>12. \A d \in Call : call'[d].answer = call[d].answer
      BY <2>4, <2>5
    <2>13. switches' \in 0 .. MaxSwitches /\ panics' \in 0 .. MaxPanics /\ panics' >= panics
      BY <1>1, WorkerIs, ActorAssumption
    <2> QED
      BY <1>1, <2>1, <2>5, <2>6, <2>7, <2>9, <2>10, <2>11, <2>12, <2>13, WorkerTurns
  <1> QED
    BY <1>2, <1>3

LEMMA RunCallStep == ASSUME ActorInv, RunCall PROVE ActorInv'
  <1> DEFINE c == worker.cmd
  <1>1. /\ worker.at = "run" /\ c \in Call
        /\ UNCHANGED <<clients, queue, daemon, started, told>>
    BY DEF RunCall
  <1>2. PICK engine \in {actor.engine, TRUE}, switch \in BOOLEAN :
             /\ SwitchAfter(switch)
             /\ actor' = [actor EXCEPT !.engine = engine, !.switch = switch,
                                       !.active = @ - 1]
    BY DEF RunCall
  <1>3. PICK an \in {"done", "failed"} :
             /\ call' = Replied(c, "completed", an)
             /\ \/ NextCommand /\ UNCHANGED panics
                \/ MayPanic /\ panics' = panics + 1 /\ Goto("failing")
    BY DEF RunCall
  <1>4. switches' \in 0 .. MaxSwitches
    BY <1>2, SwitchIs
  <1>5. /\ panics' \in 0 .. MaxPanics /\ panics' >= panics
        /\ NextCommand \/ (Goto("failing") /\ panics' > 0)
    <2>1. CASE NextCommand /\ UNCHANGED panics
      BY <2>1, WorkerIs, ActorAssumption
    <2>2. CASE MayPanic /\ panics' = panics + 1 /\ Goto("failing")
      BY <2>2, WorkerIs
    <2> QED
      BY <1>3, <2>1, <2>2
  <1>6. /\ actor'.leases = actor.leases /\ actor'.active = actor.active - 1
        /\ actor'.pending = actor.pending /\ actor'.accepting = actor.accepting
        /\ actor'.maintenance_queued = actor.maintenance_queued
        /\ actor'.switch_queued = actor.switch_queued
    BY <1>2, Parts DEF ActorType
  <1>7. actor' \in ActorType
    <2>1. actor.active - 1 \in 0 .. 1
      BY <1>1, Parts DEF Placed
    <2>2. engine \in BOOLEAN
      BY Parts DEF ActorType
    <2> QED
      BY <1>2, <2>1, <2>2, Parts DEF ActorType
  <1> QED
    BY <1>1, <1>3, <1>4, <1>5, <1>6, <1>7, CallEnds
LEMMA ReceiveStep == ASSUME ActorInv, Receive PROVE ActorInv'
  <1> DEFINE h == Head(queue)
  <1>1. /\ worker.at = "recv" /\ queue # <<>> /\ queue' = Tail(queue)
        /\ UNCHANGED <<clients, call, daemon, started, told, switches, panics>>
    BY DEF Receive, bounds
  <1>2. /\ h \in Commands /\ InQueue(h) /\ queue' \in Seq(Commands) /\ Len(queue') <= Capacity
        /\ \A y : InQueue(y)' <=> InQueue(y) /\ y # h
        /\ Distinct(queue') /\ StopLast(queue')
        /\ h = "stop" => \A c \in Call : ~InQueue(c)'
    <2>1. queue \in Seq(Commands) /\ Distinct(queue) /\ StopLast(queue) /\ Len(queue) <= Capacity
      BY Parts DEF TypeOK, Once, Ends
    <2>2. Len(queue) \in Nat /\ Capacity \in Nat
      BY <2>1, LenProperties, ActorAssumption
    <2>3. /\ h \in Commands /\ In(queue, h) /\ queue' \in Seq(Commands) /\ Len(queue') = Len(queue) - 1
          /\ \A y : In(queue', y) <=> In(queue, y) /\ y # h
          /\ Distinct(queue') /\ StopLast(queue')
          /\ h = "stop" => \A c \in Call : ~In(queue', c)
      BY <1>1, <2>1, TailIn
    <2> HIDE DEF h
    <2> QED
      BY <2>1, <2>2, <2>3, QueueIn
  <1> DEFINE work == h \in Call \/ h \in {"maintenance", "switch"}
  <1>3. /\ h \in Call => /\ worker' = [at |-> "permit", cmd |-> h]
                         /\ actor' = [actor EXCEPT !.active = @ + 1]
        /\ h \in {"maintenance", "switch"} /\ h \notin Call =>
             worker' = [at |-> "run", cmd |-> h] /\ actor' = [actor EXCEPT !.active = @ + 1]
        /\ ~work => Goto("exiting") /\ UNCHANGED actor
    <2>1. CASE h \in Call
      <3>1. h \notin {"maintenance", "switch"}
        BY <2>1, ActorAssumption
      <3> QED
        BY <2>1, <3>1 DEF Receive
    <2>2. CASE h \notin Call /\ h \in {"maintenance", "switch"}
      BY <2>2 DEF Receive
    <2>3. CASE ~work
      BY <2>3 DEF Receive
    <2> QED
      BY <2>1, <2>2, <2>3
  <1>4. /\ h \in Call => h \notin {"maintenance", "switch", "stop"}
        /\ ~work => h = "stop"
        /\ work => h # "stop"
    BY <1>2, ActorAssumption DEF Commands
  <1>5. worker.cmd = "none" /\ actor.active = 0
    BY <1>1, Parts DEF Placed
  <1>6. /\ work => worker'.cmd = h /\ worker'.at = IF h \in Call THEN "permit" ELSE "run"
        /\ ~work => worker'.cmd = "none" /\ worker'.at = "exiting"
        /\ worker' \in [at : Places, cmd : Commands \cup {"none"}]
    <2>1. CASE work
      BY <1>2, <1>3, <1>4, <2>1 DEF Places
    <2>2. CASE ~work
      BY <1>3, <1>5, <2>2, WorkerIs DEF Places
    <2> QED
      BY <2>1, <2>2
  <1>7. /\ actor'.leases = actor.leases /\ actor'.pending = actor.pending
        /\ actor'.maintenance_queued = actor.maintenance_queued
        /\ actor'.switch_queued = actor.switch_queued /\ actor'.accepting = actor.accepting
        /\ actor' \in ActorType /\ (work => actor'.active = 1)
    BY <1>3, <1>4, <1>5, Parts DEF ActorType
  <1> HIDE DEF h, work
  <1>8. UNCHANGED <<session, held, acquiring, issued>>
    BY <1>1 DEF clients
  <1>9. TypeOK'
    BY <1>1, <1>2, <1>6, <1>7, <1>8, Parts DEF TypeOK
  <1>10. Clients'
    BY <1>1, <1>7, <1>8, Parts, ClientsAside
  <1>11. ASSUME NEW d \in Call PROVE Leased(d)' /\ Settled(d)' /\ Joined(d)'
    <2>1. InQueue(d)' => InQueue(d)
      BY <1>2
    <2>2. worker'.cmd = d => InQueue(d)
      BY <1>2, <1>6, ActorAssumption
    <2> QED
      BY <1>1, <1>8, <2>1, <2>2, Parts, CallKept
  <1>12. Placed'
    <2>1. CASE work
      <3>1. worker'.cmd \in Commands \ {"stop"} /\ actor'.active = 1
            /\ (worker'.at = "permit" => worker'.cmd \in Call) /\ worker'.at \in {"permit", "run"}
        <4>1. worker'.cmd = h /\ h \in Commands \ {"stop"}
          BY <1>2, <1>4, <1>6, <2>1
        <4>2. worker'.at = IF h \in Call THEN "permit" ELSE "run"
          BY <1>6, <2>1
        <4>3. actor'.active = 1
          BY <1>7, <2>1
        <4> QED
          BY <4>1, <4>2, <4>3
      <3>2. ~InQueue(worker.cmd)'
        BY <1>2, <1>6, <2>1
      <3> QED
        BY <3>1, <3>2 DEF Placed, Early
    <2>2. CASE ~work
      BY <1>6, <2>2 DEF Placed, Early
    <2> QED
      BY <2>1, <2>2
  <1>13. Once'
    <2>1. Alive = {x \in Commands \ {"stop"} : InQueue(x)}
      BY <1>1 DEF Alive
    <2>2. Alive' = Alive
      <3>1. CASE work
        <4>1. Alive' = {x \in Commands \ {"stop"} : InQueue(x) /\ x # h} \cup {h}
          <5>1. CASE h \in Call
            BY <1>2, <1>6, <3>1, <5>1 DEF Alive
          <5>2. CASE h \notin Call
            BY <1>2, <1>6, <3>1, <5>2 DEF Alive
          <5> QED
            BY <5>1, <5>2
        <4> QED
          BY <1>2, <1>4, <2>1, <3>1, <4>1
      <3>2. CASE ~work
        BY <1>2, <1>4, <1>6, <2>1, <3>2 DEF Alive
      <3> QED
        BY <3>1, <3>2
    <2> QED
      BY <1>2, <1>7, <2>2, Parts DEF Once
  <1>14. Ends'
    <2>1. InQueue("stop")' => ~actor'.accepting
      BY <1>2, <1>7, Parts DEF Ends
    <2>2. worker'.at # "failing"
      BY <1>6
    <2>3. worker'.at = "exiting" =>
            ~actor'.accepting /\ worker'.cmd = "none" /\ \A c \in Call : ~InQueue(c)'
      BY <1>2, <1>4, <1>6, <1>7, Parts DEF Ends
    <2>4. panics = 0 => \A c \in Call : call[c].answer # "dropped"
      BY Parts DEF Ends
    <2> QED
      BY <1>1, <1>2, <2>1, <2>2, <2>3, <2>4 DEF Ends
  <1> QED
    BY <1>9, <1>10, <1>11, <1>12, <1>13, <1>14 DEF ActorInv, Calls

LEMMA ExitStep == ASSUME ActorInv, Exit PROVE ActorInv'
  <1> DEFINE lost == {c \in Call : InQueue(c) \/ worker.cmd = c}
             permits == Cardinality({x \in Commands \ {"stop"} : InQueue(x)})
  <1>1. /\ worker.at = "exiting" /\ worker' = [at |-> "gone", cmd |-> "none"] /\ queue' = <<>>
        /\ actor' = [actor EXCEPT !.state = "closed", !.pending = @ - permits,
                                  !.maintenance_queued = FALSE, !.switch_queued = FALSE]
        /\ call' = [c \in Call |-> IF c \in lost /\ call[c].stage = "waiting"
                                   THEN [call[c] EXCEPT !.stage = "answered", !.answer = "dropped"]
                                   ELSE call[c]]
        /\ UNCHANGED <<clients, daemon, started, told, switches, panics>>
    BY DEF Exit, bounds
  <1> queue' = <<>>
    BY <1>1
  <1>2. Alive = {x \in Commands \ {"stop"} : InQueue(x)}
    BY <1>1 DEF Alive
  <1>3. actor.pending = permits
    BY <1>2, Parts DEF Once
  <1>4. /\ actor'.leases = actor.leases /\ actor'.pending = 0
        /\ actor'.maintenance_queued = FALSE /\ actor'.switch_queued = FALSE
        /\ actor'.accepting = actor.accepting /\ actor' \in ActorType
    <2>1. actor.pending \in Nat /\ actor.pending - permits = 0 /\ actor \in ActorType
      BY <1>3, Parts DEF ActorType
    <2> HIDE DEF permits
    <2>2. actor' = [actor EXCEPT !.state = "closed", !.pending = 0,
                                 !.maintenance_queued = FALSE, !.switch_queued = FALSE]
      BY <1>1, <2>1 DEF ActorType
    <2> QED
      BY <2>1, <2>2 DEF ActorType
  <1> HIDE DEF permits
  <1>5. ASSUME NEW d \in Call
        PROVE  /\ call'[d] \in CallType /\ call'[d].state = call[d].state
               /\ call'[d].session = call[d].session /\ call'[d].lease = call[d].lease
               /\ IF d \in lost /\ call[d].stage = "waiting"
                  THEN call'[d].stage = "answered" /\ call'[d].answer = "dropped"
                  ELSE call'[d] = call[d]
    <2>1. call[d] \in CallType
      BY Parts
    <2>2. CASE d \in lost /\ call[d].stage = "waiting"
      <3>1. call'[d] = [call[d] EXCEPT !.stage = "answered", !.answer = "dropped"]
        BY <1>1, <2>2
      <3> QED
        BY <2>1, <2>2, <3>1 DEF CallType, Stages, Answers
    <2>3. CASE ~(d \in lost /\ call[d].stage = "waiting")
      <3>1. call'[d] = call[d]
        BY <1>1, <2>3
      <3> QED
        BY <2>1, <2>3, <3>1
    <2> QED
      BY <2>2, <2>3
  <1>6. \A x : ~InQueue(x)'
    BY DEF InQueue
  <1>7. UNCHANGED <<session, held, acquiring, issued>>
    BY <1>1 DEF clients
  <1>8. TypeOK'
    <2>1. call' \in [Call -> CallType]
      BY <1>1, <1>5
    <2>2. queue' \in Seq(Commands) /\ Len(queue') <= Capacity
      BY EmptySeq, ActorAssumption
    <2>3. worker' \in [at : Places, cmd : Commands \cup {"none"}]
      BY <1>1 DEF Places
    <2> QED
      BY <1>1, <1>4, <1>7, <2>1, <2>2, <2>3, Parts DEF TypeOK
  <1>9. Clients'
    BY <1>1, <1>4, <1>7, Parts, ClientsAside
  <1>10. ASSUME NEW d \in Call PROVE Leased(d)' /\ Settled(d)' /\ Joined(d)'
    <2>1. Leased(d) /\ Settled(d) /\ Joined(d)
      BY Parts
    <2>2. d # "none" /\ worker'.cmd # d
      BY <1>1, ActorAssumption
    <2>3. Leased(d)'
      BY <1>5, <1>7, <2>1 DEF Leased
    <2>4. Settled(d)'
      BY <1>1, <1>5, <2>1 DEF Settled
    <2>5. Joined(d)'
      BY <1>1, <1>5, <1>6, <2>1, <2>2 DEF Joined
    <2> QED
      BY <2>3, <2>4, <2>5
  <1>11. Placed'
    BY <1>1 DEF Placed, Early
  <1>12. Once'
    <2>1. Alive' = {}
      BY <1>1, <1>6 DEF Alive
    <2>2. Distinct(queue')
      BY DEF Distinct
    <2> QED
      BY <1>4, <2>1, <2>2, FS_EmptySet DEF Once
  <1>13. Ends'
    <2>1. panics = 0 => \A d \in Call : call'[d].answer # "dropped"
      <3> SUFFICES ASSUME panics = 0, NEW d \in Call PROVE call'[d].answer # "dropped"
        OBVIOUS
      <3>1. d \notin lost /\ call[d].answer # "dropped"
        BY <1>1, Parts, ActorAssumption DEF Ends
      <3> QED
        BY <1>5, <3>1
    <2>2. StopLast(queue')
      BY DEF StopLast
    <2> QED
      BY <1>1, <1>6, <2>1, <2>2 DEF Ends
  <1> QED
    BY <1>8, <1>9, <1>10, <1>11, <1>12, <1>13 DEF ActorInv, Calls
-----------------------------------------------------------------------------
(* The main loop.                                                          *)

\* There is room, and the worker still takes commands.
LEMMA Room ==
    ASSUME ActorInv
    PROVE  Len(queue) \in Nat /\ Capacity \in Nat /\ Len(queue) <= Capacity
  <1>1. queue \in Seq(Commands) /\ Len(queue) <= Capacity
    BY Parts DEF TypeOK
  <1> QED
    BY <1>1, LenProperties, ActorAssumption

\* A command of the main loop joins the queue.
LEMMA LoopJoins ==
    ASSUME ActorInv, NEW x \in {"maintenance", "switch", "stop"}, ~InQueue(x), x \notin Alive,
           worker.at # "gone", Len(queue) < Capacity, queue' = Append(queue, x),
           x = "stop" => ~actor.accepting,
           actor'.leases = actor.leases, actor'.active = actor.active,
           actor'.accepting = actor.accepting, actor' \in ActorType,
           actor'.pending = IF x = "stop" THEN actor.pending ELSE actor.pending + 1,
           actor'.maintenance_queued <=> actor.maintenance_queued \/ x = "maintenance",
           actor'.switch_queued <=> actor.switch_queued \/ x = "switch",
           UNCHANGED <<clients, call, worker, daemon, started, told, bounds>>
    PROVE  ActorInv'
  <1>1. x \in Commands /\ x \notin Call
    BY ActorAssumption DEF Commands
  <1>2. worker.at \in Early \cup {"run"} => worker.cmd # x
    <2>1. worker.at \in Early => worker.cmd # x
      BY <1>1, Parts DEF Placed
    <2>2. worker.at = "run" => worker.cmd # x
      BY <1>1, Parts DEF Placed, Alive
    <2> QED
      BY <2>1, <2>2
  <1>3. /\ queue' \in Seq(Commands) /\ Len(queue') <= Capacity
        /\ \A y : InQueue(y)' <=> InQueue(y) \/ y = x
        /\ Placed' /\ Distinct(queue') /\ StopLast(queue')
        /\ x = "stop" => Alive' = Alive
        /\ x # "stop" => Alive' = Alive \cup {x} /\ Cardinality(Alive') = Cardinality(Alive) + 1
    <2>1. worker' = worker
      OBVIOUS
    <2> QED
      BY <1>1, <1>2, <2>1, Joins
  <1>4. UNCHANGED <<session, held, acquiring, issued, switches, panics>>
    BY DEF clients, bounds
  <1>5. TypeOK'
    BY <1>3, <1>4, Parts DEF TypeOK
  <1>6. Clients'
    BY <1>4, Parts, ClientsAside
  <1>7. ASSUME NEW d \in Call PROVE Leased(d)' /\ Settled(d)' /\ Joined(d)'
    <2>1. InQueue(d)' <=> InQueue(d)
      BY <1>1, <1>3
    <2> QED
      BY <1>4, <2>1, Parts, CallKept
  <1>8. Once'
    BY <1>3, Parts DEF Once
  <1>9. Ends'
    <2>1. InQueue("stop")' => ~actor'.accepting
      BY <1>3, Parts DEF Ends
    <2>2. \A d \in Call : InQueue(d)' <=> InQueue(d)
      BY <1>1, <1>3
    <2>3. UNCHANGED <<worker, call, panics>>
      BY <1>4
    <2> QED
      BY <1>3, <2>1, <2>2, <2>3, Parts DEF Ends
  <1> QED
    BY <1>3, <1>5, <1>6, <1>7, <1>8, <1>9 DEF ActorInv, Calls

LEMMA EnqueueMaintenanceStep == ASSUME ActorInv, enqueue_maintenance PROVE ActorInv'
  <1>1. /\ ~actor.maintenance_queued /\ Len(queue) # Capacity /\ worker.at # "gone"
        /\ queue' = Append(queue, "maintenance")
        /\ actor' = [actor EXCEPT !.pending = @ + 1, !.maintenance_queued = TRUE]
        /\ UNCHANGED <<clients, call, worker, daemon, started, told, bounds>>
    BY DEF enqueue_maintenance, try_send_fails
  <1>2. "maintenance" \notin Alive /\ ~InQueue("maintenance")
    <2>1. "maintenance" \notin Alive
      BY <1>1, Parts DEF Once
    <2> QED
      BY <2>1 DEF Alive, Commands
  <1>3. /\ actor'.leases = actor.leases /\ actor'.active = actor.active
        /\ actor'.accepting = actor.accepting /\ actor'.pending = actor.pending + 1
        /\ actor'.maintenance_queued /\ actor'.switch_queued = actor.switch_queued
        /\ actor' \in ActorType
    <2>1. actor.pending + 1 \in Nat /\ actor \in ActorType
      BY Parts DEF ActorType
    <2> QED
      BY <1>1, <2>1 DEF ActorType
  <1> QED
    BY <1>1, <1>2, <1>3, Room, LoopJoins

LEMMA EnqueueSwitchStep == ASSUME ActorInv, enqueue_switch_step PROVE ActorInv'
  <1>1. /\ ~actor.switch_queued /\ Len(queue) # Capacity /\ worker.at # "gone"
        /\ queue' = Append(queue, "switch")
        /\ actor' = [actor EXCEPT !.pending = @ + 1, !.switch_queued = TRUE]
        /\ UNCHANGED <<clients, call, worker, daemon, started, told, bounds>>
    BY DEF enqueue_switch_step, try_send_fails
  <1>2. "switch" \notin Alive /\ ~InQueue("switch")
    <2>1. "switch" \notin Alive
      BY <1>1, Parts DEF Once
    <2> QED
      BY <2>1 DEF Alive, Commands
  <1>3. /\ actor'.leases = actor.leases /\ actor'.active = actor.active
        /\ actor'.accepting = actor.accepting /\ actor'.pending = actor.pending + 1
        /\ actor'.maintenance_queued = actor.maintenance_queued /\ actor'.switch_queued
        /\ actor' \in ActorType
    <2>1. actor.pending + 1 \in Nat /\ actor \in ActorType
      BY Parts DEF ActorType
    <2> QED
      BY <1>1, <2>1 DEF ActorType
  <1> QED
    BY <1>1, <1>2, <1>3, Room, LoopJoins

\* A step that turns the actor to another state, or the daemon, and no session.
LEMMA LoopTurns ==
    ASSUME ActorInv, actor' \in ActorType, actor'.leases = actor.leases,
           actor'.active = actor.active, actor'.pending = actor.pending,
           actor'.maintenance_queued = actor.maintenance_queued,
           actor'.switch_queued = actor.switch_queued, actor'.accepting => actor.accepting,
           daemon' \in {"up", "draining", "down"},
           daemon' # daemon => \A s \in Session : session[s] # "open",
           UNCHANGED <<clients, call, queue, worker, started, told, bounds>>
    PROVE  ActorInv'
  <1>1. UNCHANGED <<session, held, acquiring, issued, switches, panics>>
    BY DEF clients, bounds
  <1>2. /\ acquiring' \in [1 .. MaxLeases -> Task] /\ Lent' = Lent
        /\ \A k \in 1 .. MaxLeases : acquiring[k] = NoTask => acquiring'[k] = NoTask
    BY <1>1, Parts DEF TypeOK, Task, Lent
  <1> QED
    BY <1>1, <1>2, TurnStep

LEMMA StopStep == ASSUME ActorInv, stop PROVE ActorInv'
  <1>1. ~actor.accepting /\ UNCHANGED <<clients, call, worker, daemon, started, told, bounds>>
    BY DEF stop
  <1>2. CASE /\ worker.at # "gone" /\ ~InQueue("stop") /\ Len(queue) < Capacity
             /\ queue' = Append(queue, "stop") /\ UNCHANGED actor
    <2>1. "stop" \notin Alive /\ ~InQueue("stop")
      BY <1>2, Parts DEF Alive, Placed
    <2>2. actor \in ActorType
      BY Parts
    <2> QED
      BY <1>1, <1>2, <2>1, <2>2, LoopJoins
  <1>3. CASE actor' = [actor EXCEPT !.removed = TRUE] /\ UNCHANGED queue
    <2>1. /\ actor' \in ActorType /\ actor'.leases = actor.leases /\ actor'.active = actor.active
          /\ actor'.pending = actor.pending /\ actor'.accepting = actor.accepting
          /\ actor'.maintenance_queued = actor.maintenance_queued
          /\ actor'.switch_queued = actor.switch_queued
      BY <1>3, Parts DEF ActorType
    <2>2. daemon' = daemon /\ daemon \in {"up", "draining", "down"}
      BY <1>1, Parts DEF TypeOK
    <2> QED
      BY <1>1, <1>3, <2>1, <2>2, LoopTurns
  <1> QED
    BY <1>2, <1>3 DEF stop

\* The steps of the main loop that only look and turn.
LEMMA TurningStep ==
    ASSUME ActorInv, is_idle_for \/ evict_idle \/ request_drain \/ Quit
    PROVE  ActorInv'
  <1>1. actor \in ActorType /\ daemon \in {"up", "draining", "down"}
    BY Parts DEF TypeOK
  <1>2. /\ Drained \in ActorType /\ ~Drained.accepting
        /\ Drained.leases = actor.leases /\ Drained.active = actor.active
        /\ Drained.pending = actor.pending
        /\ Drained.maintenance_queued = actor.maintenance_queued
        /\ Drained.switch_queued = actor.switch_queued
    BY Parts, DrainedIs
  <1>3. CASE is_idle_for
    <2>1. /\ actor' = [actor EXCEPT !.evicting = TRUE]
          /\ UNCHANGED <<clients, call, queue, worker, daemon, started, told, bounds>>
      BY <1>3 DEF is_idle_for
    <2>2. /\ actor' \in ActorType /\ actor'.leases = actor.leases /\ actor'.active = actor.active
          /\ actor'.pending = actor.pending /\ actor'.accepting = actor.accepting
          /\ actor'.maintenance_queued = actor.maintenance_queued
          /\ actor'.switch_queued = actor.switch_queued
      BY <1>1, <2>1 DEF ActorType
    <2> QED
      BY <1>1, <2>1, <2>2, LoopTurns
  <1>4. CASE evict_idle
    <2>1. /\ actor' = Drained
          /\ UNCHANGED <<clients, call, queue, worker, daemon, started, told, bounds>>
      BY <1>4 DEF evict_idle
    <2> QED
      BY <1>1, <1>2, <2>1, LoopTurns
  <1>5. CASE request_drain
    <2>1. /\ \A s \in Session : session[s] # "open"
          /\ daemon' = "draining" /\ UNCHANGED actor
          /\ UNCHANGED <<clients, call, queue, worker, started, told, bounds>>
      BY <1>5 DEF request_drain, is_busy
    <2> QED
      BY <1>1, <2>1, LoopTurns
  <1>6. CASE Quit
    <2>1. /\ \A s \in Session : session[s] # "open"
          /\ daemon' = "down" /\ actor' = Drained
          /\ UNCHANGED <<clients, call, queue, worker, started, told, bounds>>
      BY <1>6 DEF Quit, is_busy
    <2> QED
      BY <1>2, <2>1, LoopTurns
  <1> QED
    BY <1>3, <1>4, <1>5, <1>6
-----------------------------------------------------------------------------
(* The theorems.                                                           *)

LEMMA UnchangedStep == ASSUME ActorInv, UNCHANGED vars PROVE ActorInv'
  <1>1. UNCHANGED <<clients, call, actor, queue, worker, daemon, started, told, bounds>>
    BY DEF vars
  <1>2. actor \in ActorType /\ daemon \in {"up", "draining", "down"}
    BY Parts DEF TypeOK
  <1> QED
    BY <1>1, <1>2, LoopTurns

LEMMA StepActor == ActorInv /\ [Next]_vars => ActorInv'
  <1> SUFFICES ASSUME ActorInv, [Next]_vars PROVE ActorInv'
    OBVIOUS
  <1>1. CASE ClientStep
    <2>1. ASSUME NEW s \in Session,
                 \/ open_session(s) \/ acquire_project(s)
                 \/ release_project(s) \/ CloseSession(s)
          PROVE  ActorInv'
      BY <2>1, OpenStep, AskStep, ReleaseStep, CloseStep
    <2>2. ASSUME NEW s \in Session, NEW c \in Call, admit_project_call(c, s) PROVE ActorInv'
      BY <2>2, AdmitStep
    <2>3. ASSUME NEW c \in Call, cancel_call(c) \/ PassDeadline(c) PROVE ActorInv'
      BY <2>3, CancelStep, DeadlineStep
    <2> QED
      BY <1>1, <2>1, <2>2, <2>3 DEF ClientStep
  <1>2. ASSUME NEW c \in Call, CallTask(c) PROVE ActorInv'
    BY <1>2, WaitStep, EnqueueStep, TimeOutStep DEF CallTask
  <1>3. CASE WorkerStep
    BY <1>3, OpenedStep, ReceiveStep, DropPermitStep, CheckCallStep, PrepareCallStep,
       StartCallStep, RunCallStep, RunMaintenanceStep, RunSwitchStepStep, FailStep, ExitStep
       DEF WorkerStep
  <1>4. CASE MainLoop
    BY <1>4, EnqueueMaintenanceStep, EnqueueSwitchStep, StopStep, TurningStep DEF MainLoop
  <1>5. ASSUME NEW k \in 1 .. MaxLeases, LeaseTask(k) PROVE ActorInv'
    BY <1>5, RegistryAcquireStep, ForgetStep, AcquiredStep, ReleaseLeaseStep DEF LeaseTask
  <1>6. CASE UNCHANGED vars
    BY <1>6, UnchangedStep
  <1> QED
    BY <1>1, <1>2, <1>3, <1>4, <1>5, <1>6 DEF Next

\* The invariant holds of every actor, TypeOK with it.
THEOREM ActorFollows == Spec => [](ActorInv /\ TypeOK)
  <1>1. ActorInv => ActorInv /\ TypeOK
    BY DEF ActorInv
  <1> QED
    BY <1>1, InitActor, StepActor, PTL DEF Spec

\* A call that its client was told is cancelled, refused or "cancelled before
\* transaction start" never begins a transaction: call_state settles the race
\* of cancel_call and StartCall, however many parties take part in it.
THEOREM CancelIsFinal == Spec => []CancelledNeverStarts
  <1>1. ActorInv => CancelledNeverStarts
    BY Parts DEF CancelledNeverStarts, Settled
  <1> QED
    BY <1>1, InitActor, StepActor, PTL DEF Spec

\* A call that may still start belongs to an open session that holds the lease
\* it was admitted under: release_project and the end of a session take both.
THEOREM CallsAreLeased == Spec => []QueuedIsLeased
  <1>1. ActorInv => QueuedIsLeased
    BY Parts DEF QueuedIsLeased, Leased
  <1> QED
    BY <1>1, InitActor, StepActor, PTL DEF Spec

\* The lease count, the pending count and the two marks are true at every step,
\* however many acquires of a session cross, through panics and the end of the
\* thread.
THEOREM CountersAreTrue == Spec => []CountersAgree
  <1>1. ActorInv => CountersAgree
    BY Parts DEF CountersAgree, Clients, Once, Alive, Holders, Lent
  <1> QED
    BY <1>1, InitActor, StepActor, PTL DEF Spec

\* Without a panic no call that joined the queue loses its reply handle.
THEOREM StopIsOrderly == Spec => []StopLosesNothing
  <1>1. ActorInv => StopLosesNothing
    BY Parts DEF StopLosesNothing, Ends
  <1> QED
    BY <1>1, InitActor, StepActor, PTL DEF Spec

\* A daemon that drains, or is down, has no open session and no holder.
THEOREM DrainHolds == Spec => []DrainIsQuiet
  <1>1. ActorInv => DrainIsQuiet
    BY Parts DEF DrainIsQuiet, Clients
  <1> QED
    BY <1>1, InitActor, StepActor, PTL DEF Spec
=============================================================================
